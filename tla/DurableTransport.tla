--------------------------- MODULE DurableTransport ---------------------------
(***************************************************************************)
(* The durable transport of SyntropyLog                                    *)
(* (src/logger/transports/DurableAdapterTransport.ts): a bounded in-memory *)
(* queue drained by one loop that delivers an entry through the user's     *)
(* executor, retries it with backoff and hands it to the onDrop hook when  *)
(* it gives up; flush() and shutdown() wait for the loop up to a deadline; *)
(* an optional spool file, written by a chain of asynchronous disk         *)
(* operations, is replayed by the next process.                            *)
(*                                                                         *)
(* Node runs one callback at a time, so an action is the code between two  *)
(* awaits.  Entries are numbered by the log() call that brought them.      *)
(***************************************************************************)
EXTENDS Naturals, Sequences, SequencesExt

CONSTANTS
  BufferSize,     (* options.bufferSize                                      *)
  MaxRetries,     (* options.maxRetries                                      *)
  DropStrategies, (* values options.dropStrategy may have                    *)
  Persist,        (* is options.persistPath set?                             *)
  Unserialisable, (* entries JSON.stringify throws on: never spooled         *)
  Flushers,       (* callers of flush() and shutdown(), one call each        *)
  Env,            (* what the surroundings may do, see EnvAssumption         *)
  MaxCalls,       (* bound: log() calls over all the processes               *)
  MaxCrashes      (* bound: deaths of the process                            *)

ASSUME SizeAssumption == BufferSize \in Nat /\ MaxRetries \in Nat
ASSUME StrategyAssumption == DropStrategies \subseteq {"oldest", "newest", "reject"}
ASSUME PersistAssumption == Persist \in BOOLEAN
ASSUME BoundAssumption == MaxCalls \in Nat /\ MaxCrashes \in Nat
(* deadline:   flushTimeoutMs may pass before the queue is drained         *)
(* hookThrows: the user's onDrop may throw                                 *)
(* writeFails: an appendFile or rm of the spool may fail                   *)
(* unreadable: readFileSync of the spool may fail                          *)
(* torn:       an append cut short may leave part of its line behind       *)
ASSUME EnvAssumption ==
  Env \subseteq {"deadline", "hookThrows", "writeFails", "unreadable", "torn"}

VARIABLES
  calls,        \* log() calls so far: entry n is the one of the n-th call
  queue,        \* entries waiting; a queued item's attempt is always 0
  inflight,     \* items the running drain loops hold, out of the queue
  processing,   \* the single-flight flag
  shuttingDown, \* set by shutdown(), never reset
  direct,       \* fire-and-forget entries whose executor call is pending
  flush,        \* progress of each flush() or shutdown() call
  chain,        \* diskChain: operations not yet done, the first one running
  disk,         \* the spool file: its lines, and does it lack a last newline?
  phase,        \* life of the process
  unread,       \* lines of the spool recover() has still to replay
  crashes,      \* deaths of the process so far
  strategy,     \* options.dropStrategy of the living transport
  accepted,     \* history: entries that entered the queue
  delivered,    \* history: entries the executor succeeded on
  dlq,          \* history: entries handed to onDrop
  unspooled     \* history: entries no append had reached the disk for when
                \*          the process died: the loss the design allows

work  == <<queue, inflight, processing>>
spool == <<chain, disk>>
life  == <<phase, unread, crashes, unspooled, strategy>>
vars  == <<calls, work, shuttingDown, direct, flush, spool, life,
           accepted, delivered, dlq>>

Entries  == 1..MaxCalls
Corrupt  == 0               \* a line of the spool that does not parse
Delete   == 0               \* a chained rm; an entry stands for its append
Idle     == [status |-> "idle", ops |-> 0, upTo |-> 0]
NoSpool  == [lines |-> <<>>, torn |-> FALSE]

Attempt(e, n, state) == [entry |-> e, attempt |-> n, state |-> state]
Backlog == Range(queue) \cup {item.entry : item \in inflight}
\* Mutant: an empty queue is taken for an idle transport.
QueueEmpty == queue = <<>>
Drained == queue = <<>> /\ ~processing

HookOutcome == IF "hookThrows" \in Env THEN BOOLEAN ELSE {FALSE}

Init ==
  /\ calls = 0
  /\ queue = <<>> /\ inflight = {} /\ processing = FALSE
  /\ shuttingDown = FALSE
  /\ direct = {}
  /\ flush = [f \in Flushers |-> Idle]
  /\ chain = <<>> /\ disk = NoSpool
  /\ phase = "up" /\ unread = <<>> /\ crashes = 0
  /\ strategy \in DropStrategies
  /\ accepted = {} /\ delivered = {} /\ dlq = {} /\ unspooled = {}

-----------------------------------------------------------------------------
(* The spool: operations are chained, and run one after the other.          *)

(* appendSpool(): the chain once the append of e is requested. *)
AppendSpool(e) ==
  IF Persist /\ e \notin Unserialisable THEN Append(chain, e) ELSE chain

\* Mutant: the drained spool is not deleted.
ClearNothing(c) == c

(* clearSpool(): the chain c once the deletion of the file is requested. *)
ClearSpool(c) == IF Persist THEN Append(c, Delete) ELSE c

(* The file after line has been appended; a file that lacks its last        *)
(* newline swallows it into the line cut short.                             *)
Written(line) ==
  [lines |-> IF disk.torn THEN [disk.lines EXCEPT ![Len(disk.lines)] = Corrupt]
                          ELSE Append(disk.lines, line),
   torn  |-> FALSE]

(* What an append of e cut short may leave: nothing of it, part of it, or   *)
(* all of it but the newline.                                               *)
CutShort(e) ==
  {disk} \cup (IF "torn" \notin Env THEN {}
               ELSE {[Written(line) EXCEPT !.torn = TRUE] : line \in {e, Corrupt}})

Done(op) == IF op = Delete THEN NoSpool ELSE Written(op)
Cut(op)  == IF op = Delete THEN {disk} ELSE CutShort(op)

(* The running operation settles; every flush() that awaits the chain is    *)
(* one operation nearer.                                                    *)
DiskOpSettles ==
  /\ phase = "up" /\ chain # <<>>
  /\ \/ disk' = Done(Head(chain))
     \/ "writeFails" \in Env /\ disk' \in Cut(Head(chain))
  /\ chain' = Tail(chain)
  /\ flush' = [f \in Flushers |->
                 [flush[f] EXCEPT !.ops = IF @ > 0 THEN @ - 1 ELSE 0]]
  /\ UNCHANGED <<calls, work, shuttingDown, direct, life,
                 accepted, delivered, dlq>>

-----------------------------------------------------------------------------
(* The drain loop.                                                          *)

\* Mutant: drain() does not look at the single-flight flag.
DrainRegardless(q, c) ==
  /\ q # <<>>
  /\ queue' = Tail(q) /\ chain' = c
  /\ inflight' = inflight \cup {Attempt(Head(q), 0, "executing")}
  /\ processing' = TRUE

(* drain() called when the queue is q and the chain is c: a no-op while a   *)
(* loop runs, otherwise it takes the first entry and calls the executor, or *)
(* finds nothing and clears the spool.                                      *)
Drain(q, c) ==
  \/ /\ processing
     /\ queue' = q /\ chain' = c
     /\ UNCHANGED <<inflight, processing>>
  \/ /\ ~processing /\ q # <<>>
     /\ queue' = Tail(q) /\ chain' = c
     /\ inflight' = inflight \cup {Attempt(Head(q), 0, "executing")}
     /\ processing' = TRUE
  \/ /\ ~processing /\ q = <<>>
     /\ queue' = q /\ chain' = ClearSpool(c)
     /\ UNCHANGED <<inflight, processing>>

\* Mutant: the loop reads the head of the queue and leaves it there.
NextItemPeeked(item) ==
  \/ /\ queue # <<>>
     /\ inflight' = (inflight \ {item})
                      \cup {Attempt(Head(queue), 0, "executing")}
     /\ UNCHANGED <<queue, processing, chain>>
  \/ /\ queue = <<>>
     /\ inflight' = inflight \ {item}
     /\ processing' = FALSE
     /\ chain' = ClearSpool(chain)
     /\ UNCHANGED queue

\* Mutant: the spool is deleted after each item.
NextItemCleared(item) ==
  /\ chain' = ClearSpool(chain)
  /\ IF queue = <<>>
     THEN inflight' = inflight \ {item} /\ processing' = FALSE /\ UNCHANGED queue
     ELSE /\ queue' = Tail(queue)
          /\ inflight' = (inflight \ {item})
                           \cup {Attempt(Head(queue), 0, "executing")}
          /\ UNCHANGED processing

(* The loop that held item goes on to the next entry, or ends. *)
NextItem(item) ==
  \/ /\ queue # <<>>
     /\ queue' = Tail(queue)
     /\ inflight' = (inflight \ {item})
                      \cup {Attempt(Head(queue), 0, "executing")}
     /\ UNCHANGED <<processing, chain>>
  \/ /\ queue = <<>>
     /\ inflight' = inflight \ {item}
     /\ processing' = FALSE
     /\ chain' = ClearSpool(chain)
     /\ UNCHANGED queue

AttemptSucceeds(item) ==
  /\ item.state = "executing"
  /\ delivered' = delivered \cup {item.entry}
  /\ NextItem(item)
  /\ UNCHANGED <<calls, shuttingDown, direct, flush, disk, life, accepted, dlq>>

GivesUp(item) == item.attempt >= MaxRetries \/ shuttingDown

\* Mutant: the failed item goes back to the queue, behind the others.
AttemptFailsRequeued(item) ==
  /\ item.state = "executing" /\ ~GivesUp(item)
  /\ LET q == Append(queue, item.entry) IN
     /\ queue' = Tail(q)
     /\ inflight' = (inflight \ {item}) \cup {Attempt(Head(q), 0, "executing")}
  /\ UNCHANGED <<calls, processing, shuttingDown, direct, flush, spool,
                 life, accepted, delivered, dlq>>

AttemptFails(item) ==
  /\ item.state = "executing" /\ ~GivesUp(item)
  /\ inflight' = (inflight \ {item})
                   \cup {Attempt(item.entry, item.attempt + 1, "backoff")}
  /\ UNCHANGED <<calls, queue, processing, shuttingDown, direct, flush, spool,
                 life, accepted, delivered, dlq>>

(* The last attempt fails: the entry goes to onDrop.  A hook that throws    *)
(* ends the loop through its finally block, whatever the queue still holds. *)
AttemptExhausted(item) ==
  /\ item.state = "executing" /\ GivesUp(item)
  /\ dlq' = dlq \cup {item.entry}
  /\ \E throws \in HookOutcome :
       IF throws
       THEN /\ inflight' = inflight \ {item}
            /\ processing' = FALSE
            /\ chain' = ClearSpool(chain)
            /\ UNCHANGED queue
       ELSE NextItem(item)
  /\ UNCHANGED <<calls, shuttingDown, direct, flush, disk, life,
                 accepted, delivered>>

(* The backoff timer fires: the executor is called again. *)
BackoffEnds(item) ==
  /\ item.state = "backoff"
  /\ inflight' = (inflight \ {item})
                   \cup {Attempt(item.entry, item.attempt, "executing")}
  /\ UNCHANGED <<calls, queue, processing, shuttingDown, direct, flush, spool,
                 life, accepted, delivered, dlq>>

-----------------------------------------------------------------------------
(* log()                                                                    *)

\* Mutant: the entry that makes room is not reported.
VictimUnreported(e) == {}

\* Mutant: no room is made for the new entry.
SurvivorsAll == queue

(* The entry a full queue drops in favour of the new entry e, and the       *)
(* queue without it.                                                        *)
Victim(e) ==
  IF strategy = "reject" THEN {e}
  ELSE IF queue = <<>> THEN {}
  ELSE IF strategy = "newest" THEN {Last(queue)} ELSE {Head(queue)}

Survivors ==
  IF strategy = "reject" \/ queue = <<>> THEN queue
  ELSE IF strategy = "newest" THEN Front(queue) ELSE Tail(queue)

LogDurable ==
  LET e == calls + 1 IN
  /\ phase = "up" /\ calls < MaxCalls
  /\ calls' = e
  /\ \/ /\ Len(queue) < BufferSize
        /\ Drain(Append(queue, e), AppendSpool(e))
        /\ accepted' = accepted \cup {e}
        /\ UNCHANGED dlq
     \/ /\ Len(queue) >= BufferSize
        /\ dlq' = dlq \cup Victim(e)
        /\ IF strategy = "reject"
           THEN Drain(queue, chain) /\ UNCHANGED accepted
           ELSE /\ Drain(Append(Survivors, e), AppendSpool(e))
                /\ accepted' = accepted \cup {e}
     \/ (* onDrop throws out of log(): e is not queued, nothing is kicked *)
        /\ Len(queue) >= BufferSize /\ Victim(e) # {}
        /\ TRUE \in HookOutcome
        /\ dlq' = dlq \cup Victim(e)
        /\ queue' = Survivors
        /\ UNCHANGED <<inflight, processing, chain, accepted>>
  /\ UNCHANGED <<shuttingDown, direct, flush, disk, life, delivered>>

(* An entry without retention metadata: the executor is called once. *)
LogDirect ==
  /\ phase = "up" /\ calls < MaxCalls
  /\ calls' = calls + 1
  /\ direct' = direct \cup {calls + 1}
  /\ UNCHANGED <<work, shuttingDown, flush, spool, life,
                 accepted, delivered, dlq>>

DirectSettles(e) ==
  /\ direct' = direct \ {e}
  /\ \/ delivered' = delivered \cup {e} /\ UNCHANGED dlq
     \/ dlq' = dlq \cup {e} /\ UNCHANGED delivered
  /\ UNCHANGED <<calls, work, shuttingDown, flush, spool, life, accepted>>

-----------------------------------------------------------------------------
(* flush() and shutdown()                                                   *)

\* Mutant: what is still queued stays there.
LeaveFlushQueued(f, upTo) ==
  /\ chain' = ClearSpool(chain)
  /\ flush' = [flush EXCEPT ![f] =
                 [status |-> "settling", ops |-> Len(chain'), upTo |-> upTo]]
  /\ UNCHANGED <<queue, dlq>>

(* The code after the wait: what is still queued goes to onDrop, the spool  *)
(* is cleared, and the call awaits the chain as it now stands.  A hook that *)
(* throws on the k-th entry rejects the call there.                         *)
LeaveFlush(f, upTo) ==
  \/ /\ dlq' = dlq \cup Range(queue)
     /\ queue' = <<>>
     /\ chain' = ClearSpool(chain)
     /\ flush' = [flush EXCEPT ![f] =
                    [status |-> "settling", ops |-> Len(chain'), upTo |-> upTo]]
  \/ /\ TRUE \in HookOutcome
     /\ \E k \in DOMAIN queue :
          /\ dlq' = dlq \cup {queue[i] : i \in 1..k}
          /\ queue' = SubSeq(queue, k + 1, Len(queue))
     /\ flush' = [flush EXCEPT ![f] =
                    [status |-> "rejected", ops |-> 0, upTo |-> upTo]]
     /\ UNCHANGED chain

(* flush(), or shutdown() when halt: a drained transport is not waited for. *)
CallFlush(f, halt) ==
  /\ phase = "up" /\ flush[f] = Idle
  /\ shuttingDown' = (shuttingDown \/ halt)
  /\ IF Drained
     THEN LeaveFlush(f, calls)
     ELSE /\ flush' = [flush EXCEPT ![f] =
                         [status |-> "waiting", ops |-> 0, upTo |-> calls]]
          /\ UNCHANGED <<queue, chain, dlq>>
  /\ UNCHANGED <<calls, inflight, processing, direct, disk, life,
                 accepted, delivered>>

DeadlinePasses(f) ==
  /\ "deadline" \in Env /\ flush[f].status = "waiting"
  /\ flush' = [flush EXCEPT ![f].status = "expired"]
  /\ UNCHANGED <<calls, work, shuttingDown, direct, spool, life,
                 accepted, delivered, dlq>>

\* Mutant: the loop does not look at the deadline.
FlushWakesDrained(f) ==
  /\ flush[f].status \in {"waiting", "expired"} /\ Drained
  /\ LeaveFlush(f, flush[f].upTo)
  /\ UNCHANGED <<calls, inflight, processing, shuttingDown, direct, disk, life,
                 accepted, delivered>>

(* The 10 ms poll of the waiting loop finds a reason to leave it. *)
FlushWakes(f) ==
  /\ flush[f].status = "expired" \/ (flush[f].status = "waiting" /\ Drained)
  /\ LeaveFlush(f, flush[f].upTo)
  /\ UNCHANGED <<calls, inflight, processing, shuttingDown, direct, disk, life,
                 accepted, delivered>>

FlushResolves(f) ==
  /\ flush[f].status = "settling" /\ flush[f].ops = 0
  /\ flush' = [flush EXCEPT ![f].status = "resolved"]
  /\ UNCHANGED <<calls, work, shuttingDown, direct, spool, life,
                 accepted, delivered, dlq>>

-----------------------------------------------------------------------------
(* Death and restart of the process                                         *)

(* Everything in memory is gone.  The running disk operation may have taken *)
(* effect, or part of it; those behind it have not started.                 *)
Crash ==
  /\ phase # "down" /\ crashes < MaxCrashes
  /\ crashes' = crashes + 1
  /\ phase' = "down"
  /\ IF chain = <<>> THEN UNCHANGED disk
     ELSE disk' \in Cut(Head(chain)) \cup {Done(Head(chain))}
  /\ unspooled' = unspooled
       \cup (Backlog \cap (IF Persist THEN Unserialisable ELSE Entries))
       \cup (Range(chain) \cap Entries)
  /\ queue' = <<>> /\ inflight' = {} /\ processing' = FALSE
  /\ shuttingDown' = FALSE
  /\ direct' = {}
  /\ flush' = [f \in Flushers |-> Idle]
  /\ chain' = <<>> /\ unread' = <<>>
  /\ UNCHANGED <<calls, strategy, accepted, delivered, dlq>>

(* The constructor reads the spool; one it cannot read is ignored. *)
Restart ==
  /\ phase = "down"
  /\ phase' = "recovering"
  /\ strategy' \in DropStrategies
  /\ \/ unread' = disk.lines
     \/ "unreadable" \in Env /\ unread' = <<>>
  /\ UNCHANGED <<calls, work, shuttingDown, direct, flush, spool, crashes,
                 unspooled, accepted, delivered, dlq>>

(* recover() replays one line: it is queued, or skipped when it is corrupt. *)
RecoverLine ==
  /\ phase = "recovering" /\ unread # <<>>
  /\ unread' = Tail(unread)
  /\ queue' = IF Head(unread) = Corrupt THEN queue
                                        ELSE Append(queue, Head(unread))
  /\ UNCHANGED <<calls, inflight, processing, shuttingDown, direct, flush,
                 spool, phase, crashes, unspooled, strategy,
                 accepted, delivered, dlq>>

\* Mutant: the replayed entries wait for the next log().
RecoveredUnkicked ==
  /\ phase = "recovering" /\ unread = <<>>
  /\ phase' = "up"
  /\ UNCHANGED <<calls, work, shuttingDown, direct, flush, spool, unread, crashes,
                 unspooled, strategy, accepted, delivered, dlq>>

(* recover() ends; it kicks the loop when it queued anything. *)
Recovered ==
  /\ phase = "recovering" /\ unread = <<>>
  /\ phase' = "up"
  /\ IF queue = <<>> THEN UNCHANGED <<work, chain>> ELSE Drain(queue, chain)
  /\ UNCHANGED <<calls, shuttingDown, direct, flush, disk, unread, crashes,
                 unspooled, strategy, accepted, delivered, dlq>>

-----------------------------------------------------------------------------
DrainStep == \E item \in inflight :
  AttemptSucceeds(item) \/ AttemptFails(item) \/ AttemptExhausted(item)

Next ==
  \/ LogDurable
  \/ LogDirect
  \/ \E e \in direct : DirectSettles(e)
  \/ DrainStep
  \/ \E item \in inflight : BackoffEnds(item)
  \/ \E f \in Flushers : CallFlush(f, FALSE) \/ CallFlush(f, TRUE)
  \/ \E f \in Flushers : DeadlinePasses(f)
  \/ \E f \in Flushers : FlushWakes(f)
  \/ \E f \in Flushers : FlushResolves(f)
  \/ DiskOpSettles
  \/ Crash
  \/ Restart
  \/ RecoverLine
  \/ Recovered

Spec == Init /\ [][Next]_vars

(* What the runtime guarantees: timers fire, the poll of a waiting flush    *)
(* runs, and a disk operation settles.  The executor is not the transport's *)
(* to promise for: ExecutorFairness is the assumption that its promises     *)
(* settle; RestartFairness, that a supervisor restarts a dead process.      *)
(* Only the properties of FairSpec rest on the last two.                    *)
RuntimeFairness ==
  /\ WF_vars(\E item \in inflight : BackoffEnds(item))
  /\ WF_vars(DiskOpSettles)
  /\ \A f \in Flushers : /\ WF_vars(DeadlinePasses(f))
                         /\ WF_vars(FlushWakes(f))
                         /\ WF_vars(FlushResolves(f))
ExecutorFairness == WF_vars(DrainStep)

RestartFairness  == WF_vars(Restart \/ RecoverLine \/ Recovered)

RuntimeSpec == Spec /\ RuntimeFairness
FairSpec    == RuntimeSpec /\ ExecutorFairness /\ RestartFairness

-----------------------------------------------------------------------------
(* Properties                                                               *)

FlushStatus == {"idle", "waiting", "expired", "settling", "resolved", "rejected"}

(* The types of the variables.  A line or an operation is an entry or 0. *)
TypeOK ==
  /\ calls \in 0..MaxCalls
  /\ queue \in Seq(Entries)
  /\ inflight \in SUBSET [entry : Entries, attempt : 0..MaxRetries,
                          state : {"executing", "backoff"}]
  /\ processing \in BOOLEAN /\ shuttingDown \in BOOLEAN
  /\ direct \subseteq Entries
  /\ flush \in [Flushers -> [status : FlushStatus, ops : Nat, upTo : Nat]]
  /\ chain \in Seq(Entries \cup {Delete})
  /\ disk \in [lines : Seq(Entries \cup {Corrupt}), torn : BOOLEAN]
  /\ disk.torn => disk.lines # <<>>
  /\ phase \in {"up", "down", "recovering"}
  /\ unread \in Seq(Entries \cup {Corrupt})
  /\ crashes \in 0..MaxCrashes
  /\ strategy \in DropStrategies
  /\ accepted \subseteq Entries /\ delivered \subseteq Entries
  /\ dlq \subseteq Entries /\ unspooled \subseteq Entries

(* drain() is single-flight, whoever kicks it: two drain loops never run at *)
(* once, and the flag says whether one does.                                *)
SingleFlight ==
  /\ processing <=> inflight # {}
  /\ \A a, b \in inflight : a = b

(* The backlog is in the order of the log() calls and holds no entry twice, *)
(* the entry being delivered first, whichever entries a full queue dropped, *)
(* a flush took, or a restart replayed.                                     *)
BacklogInOrder ==
  /\ \A i, j \in DOMAIN queue : i < j => queue[i] < queue[j]
  /\ \A item \in inflight, i \in DOMAIN queue : item.entry < queue[i]

(* Would the file hold the line of e once the chain has run?  Either it is  *)
(* there, or its append is chained, and no deletion follows.                *)
WillBeSpooled(e) ==
  \/ e \in Range(disk.lines) /\ Delete \notin Range(chain)
  \/ \E i \in DOMAIN chain :
       chain[i] = e /\ \A j \in DOMAIN chain : j > i => chain[j] # Delete

(* "The spool at rest contains the undelivered in-memory queue": an entry   *)
(* that waits, is being delivered or is being replayed is in the file, or   *)
(* will be when the chained operations are done.                            *)
SpoolCoversBacklog ==
  Persist /\ phase # "down" => \A e \in Backlog \ Unserialisable : WillBeSpooled(e)

(* At-least-once: an accepted entry was delivered or handed to onDrop, or   *)
(* it is still in memory, or the spool keeps it for the next process to     *)
(* read, unless a process died before the entry's append was done.          *)
AtLeastOnce ==
  \A e \in accepted :
    \/ e \in delivered \cup dlq \cup unspooled \cup Backlog
    \/ WillBeSpooled(e)

(* The spool is a buffer and not an archive: when nothing is left to        *)
(* deliver and the disk is quiet, no entry is left in the file.             *)
SpoolEmptiesItself ==
  phase = "up" /\ Drained /\ chain = <<>> => Range(disk.lines) \subseteq {Corrupt}

(* log() never makes the queue longer than bufferSize (one entry, when      *)
(* bufferSize is 0): only the replay of a spool does.                       *)
LogRespectsBufferSize ==
  [][phase = "up" /\ Len(queue') > Len(queue)
       => Len(queue') <= BufferSize \/ Len(queue') = 1]_vars

(* A flush() or shutdown() that resolved left no entry queued that was      *)
(* logged before it was called: the most that can be pending is the one in  *)
(* flight when the deadline passed.                                         *)
FlushEmptiesQueue ==
  \A f \in Flushers : flush[f].status \in {"settling", "resolved"} =>
    \A i \in DOMAIN queue : queue[i] > flush[f].upTo

(* What the documentation says of it: after a flush() or shutdown() each    *)
(* entry logged before the call was delivered or handed to onDrop.          *)
FlushLeavesNothingPending ==
  \A f \in Flushers : flush[f].status \in {"settling", "resolved"} =>
    \A e \in Backlog : e > flush[f].upTo

(* A flush() or shutdown() settles whatever the executor does, even when an *)
(* executor call never settles: the deadline sees to it; and whatever the   *)
(* disk does, whose chain it then awaits: an operation that fails does not  *)
(* break it.  (A crash makes it "idle".)                                    *)
FlushTerminates ==
  \A f \in Flushers :
    flush[f].status # "idle" ~>
      flush[f].status \in {"idle", "resolved", "rejected"}

(* While the executor's promises settle and a process that died is          *)
(* restarted, an accepted entry gets its outcome: it is never left in a     *)
(* queue no loop drains, nor in a spool no process replays.                 *)
AcceptedEntriesResolve ==
  \A e \in Entries : e \in accepted ~> e \in delivered \cup dlq \cup unspooled

(* While the process lives the transport keeps the promise of the abstract  *)
(* specification: one outcome for an accepted entry, and delivery in order. *)
Contract == INSTANCE DeliveryContract WITH
              pending   <- Backlog,
              delivered <- delivered \cap accepted,
              dropped   <- dlq \cap accepted

KeepsContract == Contract!Spec
=============================================================================
