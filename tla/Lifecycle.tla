------------------------------- MODULE Lifecycle -------------------------------
(***************************************************************************)
(* init() and shutdown() of the framework (src/core/LifecycleManager.ts    *)
(* behind src/SyntropyLog.ts), with the part of them that the logger       *)
(* factory runs (flushAllTransports() and shutdown() of                    *)
(* src/logger/LoggerFactory.ts): the state machine, the events it emits    *)
(* to listeners that may throw, the child processes it terminates, and the *)
(* transports it flushes and shuts down.                                   *)
(*                                                                         *)
(* An action is the code between two awaits.  A transport is only seen     *)
(* through the promises of its flush() and its shutdown(): whether they    *)
(* resolve or reject changes nothing here, the factory catches both.       *)
(***************************************************************************)
EXTENDS Sequences, Functions

CONSTANTS
  Callers,     (* callers of shutdown(), one call each                       *)
  Children,    (* child processes that may be registered                     *)
  Transports,  (* the transports of the factory's sets                       *)
  Env          (* what the surroundings may do, see EnvAssumption            *)

(* initFails:          the configuration or an engine makes init() throw   *)
(* readyThrows, shuttingDownThrows, drainedThrows, shutdownThrows:         *)
(*                     a listener of that event may throw                  *)
(* errorUnheard:       "error" has no listener, so that emitting it throws *)
(* transportThrows:    a transport's flush() or shutdown() may throw       *)
(*                     instead of returning a promise                      *)
(* hookThrows:         the user's onTransportError may throw               *)
(* logThrows:          a log call of the manager's own logger may throw,   *)
(*                     which it does when a hook of the user throws        *)
(* killThrows:         kill() may throw, which it does when it fails and   *)
(*                     the child has no listener of "error"                *)
ASSUME EnvAssumption ==
  Env \subseteq {"initFails", "readyThrows", "shuttingDownThrows", "drainedThrows",
                 "shutdownThrows", "errorUnheard", "transportThrows", "hookThrows",
                 "logThrows", "killThrows"}

VARIABLES
  state,     \* LifecycleManager.state
  call,      \* progress of each call of shutdown()
  stage,     \* what the running shutdown awaits
  rescue,    \* is it on its error path, shutting the factory down again?
  events,    \* history: the events emitted
  child,     \* what became of each child process
  tracked,   \* trackedProcesses
  ending,    \* children whose terminateProcess() has not settled
  terminating,  \* does terminateExternalProcesses() wait for them?
  due,       \* history: the children tracked when the shutdown began
  sigkill,   \* history: children sent SIGKILL
  spared,    \* history: children whose termination, or the shutdown's wait
             \* for it, a log call or a kill() that threw cut short
  flushing,  \* transports whose flush() is pending
  closing,   \* transports whose shutdown() is pending
  flushed,   \* history: transports a flush() of which settled
  closed,    \* history: transports the shutdown() of which settled
  threw      \* history: has a transport thrown instead of rejecting?

machine    == <<state, call, stage, rescue, events>>
children   == <<child, tracked, ending, terminating, due, sigkill, spared>>
transports == <<flushing, closing, flushed, closed, threw>>
vars       == <<machine, children, transports>>

CanThrow(faults) == faults \cap Env # {}
MayThrow(faults) == IF CanThrow(faults) THEN BOOLEAN ELSE {FALSE}

Init ==
  /\ state = "NOT_INITIALIZED"
  /\ call = [c \in Callers |-> "idle"]
  /\ stage = "none" /\ rescue = FALSE /\ events = <<>>
  /\ child = [p \in Children |-> "new"]
  /\ tracked = {} /\ ending = {} /\ terminating = FALSE
  /\ due = {} /\ sigkill = {} /\ spared = {}
  /\ flushing = {} /\ closing = {} /\ flushed = {} /\ closed = {}
  /\ threw = FALSE

-----------------------------------------------------------------------------
(* init() has no await: it ends READY, or in ERROR when it failed, its log  *)
(* call included, or when a listener of "ready" threw.  A later call of it  *)
(* changes nothing.                                                         *)
InitSucceeds ==
  /\ state = "NOT_INITIALIZED"
  /\ \E throws \in MayThrow({"readyThrows"}) :
       /\ state' = IF throws THEN "ERROR" ELSE "READY"
       /\ events' = IF throws THEN <<"ready", "error">> ELSE <<"ready">>
  /\ UNCHANGED <<call, stage, rescue, children, transports>>

InitFails ==
  /\ state = "NOT_INITIALIZED" /\ CanThrow({"initFails", "logThrows"})
  /\ state' = "ERROR"
  /\ events' = <<"error">>
  /\ UNCHANGED <<call, stage, rescue, children, transports>>

-----------------------------------------------------------------------------
(* Child processes                                                          *)

(* registerChildProcess(), at any time *)
RegisterChild(p) ==
  /\ child[p] = "new"
  /\ child' = [child EXCEPT ![p] = "running"]
  /\ tracked' = tracked \cup {p}
  /\ UNCHANGED <<machine, ending, terminating, due, sigkill, spared, transports>>

(* A child exits, or a signal ends it, which leaves its exitCode null.  The *)
(* exit listener drops it from trackedProcesses.                            *)
ChildEnds(p) ==
  /\ child[p] = "running"
  /\ child' \in {[child EXCEPT ![p] = how] : how \in {"exited", "signalled"}}
  /\ tracked' = tracked \ {p}
  /\ UNCHANGED <<machine, ending, terminating, due, sigkill, spared, transports>>

\* Mutant: there is no time limit.
GraceEndsPatient(p) ==
  /\ p \in ending /\ child[p] # "running"
  /\ ending' = ending \ {p}
  /\ sigkill' = IF child[p] = "exited" THEN sigkill ELSE sigkill \cup {p}
  /\ UNCHANGED <<machine, child, tracked, terminating, due, spared, transports>>

(* The wait of terminateProcess() is over: the child ended, or              *)
(* shutdownWaitMs passed.  SIGKILL goes to each child without an exit code, *)
(* unless the log call before it, or kill(), throws; kill() does not when   *)
(* the child is gone.                                                       *)
GraceEnds(p) ==
  /\ p \in ending
  /\ ending' = ending \ {p}
  /\ \/ child[p] = "exited" /\ UNCHANGED <<sigkill, spared>>
     \/ /\ child[p] # "exited"
        /\ sigkill' = sigkill \cup {p} /\ UNCHANGED spared
     \/ /\ child[p] # "exited"
        /\ \/ CanThrow({"logThrows"})
           \/ CanThrow({"killThrows"}) /\ child[p] = "running"
        /\ spared' = spared \cup {p} /\ UNCHANGED sigkill
  /\ UNCHANGED <<machine, child, tracked, terminating, due, transports>>

(* terminateExternalProcesses() up to its wait: each tracked child is sent  *)
(* SIGTERM, unless the log call before that, or kill(), throws for it; its  *)
(* own first log call may throw, and then nobody is.                        *)
Terminate ==
  \/ /\ \E unsent \in SUBSET tracked :
          /\ CanThrow({"logThrows", "killThrows"}) \/ unsent = {}
          /\ ending' = tracked \ unsent
     /\ terminating' = (tracked # {})
  \/ /\ CanThrow({"logThrows"})
     /\ ending' = {} /\ terminating' = FALSE

\* Mutant: the first terminateProcess() to reject ends the wait for the others.
TerminationEndsAtOnce ==
  /\ terminating /\ (ending = {} \/ spared # {})
  /\ terminating' = FALSE
  /\ tracked' = {}
  /\ UNCHANGED <<machine, child, ending, due, sigkill, spared, transports>>

(* Every terminateProcess() settled, resolved or rejected. *)
TerminationEnds ==
  /\ terminating /\ ending = {}
  /\ terminating' = FALSE
  /\ tracked' = {}
  /\ UNCHANGED <<machine, child, ending, due, sigkill, spared, transports>>

-----------------------------------------------------------------------------
(* What the transports see of a shutdown                                    *)

(* LoggerFactory.shutdown() calls each transport in turn.  One that throws  *)
(* ends it there, with the promises of those called before it still         *)
(* pending; it reports to onTransportError, and rejects if that throws.     *)
CalledBeforeThrow ==
  IF "transportThrows" \in Env THEN SUBSET Transports \ {Transports} ELSE {}
FactoryAborts ==
  /\ threw' = TRUE
  /\ \E throws \in MayThrow({"hookThrows"}) :
       stage' = IF throws THEN "broken" ELSE "aborted"

(* LoggerFactory.shutdown() up to its first await: flush() is called. *)
FlushAll ==
  /\ \/ flushing' = Transports /\ stage' = "flushing" /\ UNCHANGED threw
     \/ /\ \E called \in CalledBeforeThrow : flushing' = flushing \cup called
        /\ FactoryAborts
  /\ UNCHANGED closing

FlushSettles(t) ==
  /\ t \in flushing
  /\ flushing' = flushing \ {t}
  /\ flushed' = flushed \cup {t}
  /\ UNCHANGED <<machine, children, closing, closed, threw>>

(* shutdown() of each transport is called. *)
CloseEach ==
  /\ \/ closing' = Transports /\ stage' = "closing" /\ UNCHANGED threw
     \/ /\ \E called \in CalledBeforeThrow : closing' = closing \cup called
        /\ FactoryAborts
  /\ UNCHANGED <<state, call, rescue, events, children, flushing, flushed, closed>>

\* Mutant: the flushes are started and not awaited.
CloseAllAtOnce == stage = "flushing" /\ CloseEach

(* Every flush of this round settled. *)
CloseAll == stage = "flushing" /\ flushing = {} /\ CloseEach

CloseSettles(t) ==
  /\ t \in closing
  /\ closing' = closing \ {t}
  /\ closed' = closed \cup {t}
  /\ UNCHANGED <<machine, children, flushing, flushed, threw>>

\* Mutant: the last shutdown() of a transport is not awaited.
FactoryDoneEarly ==
  stage = "aborted" \/ (stage = "closing" /\ closing # Transports)

FactoryDone == stage = "aborted" \/ (stage = "closing" /\ closing = {})

-----------------------------------------------------------------------------
(* shutdown()                                                               *)

(* What the caller whose shutdown is the running one is told. *)
Answered(calls, status) ==
  [c \in Callers |-> IF calls[c] = "running" THEN status ELSE calls[c]]
Answer(status) == call' = Answered(call, status)

(* The catch block: "error" is emitted, after the events already emitted,   *)
(* the failure is logged, and the factory is shut down.  What throws before *)
(* that rejects the call.                                                   *)
Fail(emitted, calls) ==
  /\ state' = "ERROR"
  /\ events' = events \o Append(emitted, "error")
  /\ \E throws \in MayThrow({"errorUnheard", "logThrows"}) :
       IF throws
       THEN /\ stage' = "none" /\ call' = Answered(calls, "rejected")
            /\ UNCHANGED <<rescue, flushing, closing, threw>>
       ELSE /\ rescue' = TRUE /\ FlushAll
            /\ call' = calls

(* A call in any state but READY returns at once. *)
CallIgnored(c) ==
  /\ call[c] = "idle" /\ state # "READY"
  /\ call' = [call EXCEPT ![c] = "returned"]
  /\ UNCHANGED <<state, stage, rescue, events, children, transports>>

(* The log calls before anything is done may throw, as soon as there is a   *)
(* logger.                                                                  *)
CallRejected(c) ==
  /\ call[c] = "idle" /\ state # "NOT_INITIALIZED"
  /\ CanThrow({"logThrows"})
  /\ call' = [call EXCEPT ![c] = "rejected"]
  /\ UNCHANGED <<state, stage, rescue, events, children, transports>>

(* "shutting_down" is emitted, and the change of state logged, outside the  *)
(* try block: what throws there ends the call.                              *)
CallFails(c) ==
  /\ call[c] = "idle" /\ state = "READY"
  /\ CanThrow({"shuttingDownThrows", "logThrows"})
  /\ call' = [call EXCEPT ![c] = "rejected"]
  /\ state' = "SHUTTING_DOWN"
  /\ events' = Append(events, "shutting_down")
  /\ UNCHANGED <<stage, rescue, children, transports>>

\* Mutant: a call is not ignored while a shutdown runs.
CallShutdownAgain(c) ==
  /\ call[c] = "idle" /\ state \in {"READY", "SHUTTING_DOWN"}
  /\ due' = tracked
  /\ state' = "SHUTTING_DOWN"
  /\ events' = Append(events, "shutting_down")
  /\ Terminate /\ spared' = tracked \ ending'
  /\ stage' = "terminating" /\ call' = [call EXCEPT ![c] = "running"]
  /\ UNCHANGED <<rescue, child, tracked, sigkill, transports>>

(* The call that shuts down: the termination of the children is started and *)
(* waited for.  A log call that throws before the wait leaves the children  *)
(* to themselves: the factory is shut down at once.                         *)
CallShutdown(c) ==
  /\ call[c] = "idle" /\ state = "READY"
  /\ due' = tracked
  /\ Terminate
  /\ LET running == [call EXCEPT ![c] = "running"] IN
     \/ /\ state' = "SHUTTING_DOWN"
        /\ events' = Append(events, "shutting_down")
        /\ spared' = tracked \ ending'
        /\ stage' = "terminating" /\ call' = running
        /\ UNCHANGED <<rescue, flushing, closing, threw>>
     \/ /\ CanThrow({"logThrows"})
        /\ spared' = tracked
        /\ Fail(<<"shutting_down">>, running)
  /\ UNCHANGED <<child, tracked, sigkill, flushed, closed>>

(* terminateExternalProcesses() has returned: the factory is shut down, or  *)
(* a log call throws first.                                                 *)
ChildrenEnded ==
  /\ stage = "terminating" /\ ~terminating
  /\ \/ FlushAll /\ UNCHANGED <<state, call, rescue, events>>
     \/ CanThrow({"logThrows"}) /\ Fail(<<>>, call)
  /\ UNCHANGED <<children, flushed, closed>>

(* The factory is shut down: the events of success, each of whose listeners *)
(* may throw back into the try block.                                       *)
ShutdownDone ==
  /\ FactoryDone /\ ~rescue
  /\ \/ /\ state' = "SHUTDOWN"
        /\ events' = events \o <<"transports_drained", "shutdown">>
        /\ stage' = "none" /\ Answer("returned")
        /\ UNCHANGED <<rescue, flushing, closing, threw>>
     \/ "drainedThrows" \in Env /\ Fail(<<"transports_drained">>, call)
     \/ "shutdownThrows" \in Env /\ Fail(<<"transports_drained", "shutdown">>, call)
  /\ UNCHANGED <<children, flushed, closed>>

(* The factory's shutdown rejects. *)
ShutdownBroken ==
  /\ stage = "broken" /\ ~rescue
  /\ Fail(<<>>, call)
  /\ UNCHANGED <<children, flushed, closed>>

(* The end of the error path. *)
RescueDone ==
  /\ FactoryDone /\ rescue
  /\ events' = Append(events, "transports_drained")
  /\ \E throws \in MayThrow({"drainedThrows"}) :
       Answer(IF throws THEN "rejected" ELSE "returned")
  /\ stage' = "none"
  /\ UNCHANGED <<state, rescue, children, transports>>

RescueBroken ==
  /\ stage = "broken" /\ rescue
  /\ Answer("rejected")
  /\ stage' = "none"
  /\ UNCHANGED <<state, rescue, events, children, transports>>

-----------------------------------------------------------------------------
Next ==
  \/ InitSucceeds
  \/ InitFails
  \/ \E p \in Children : RegisterChild(p)
  \/ \E p \in Children : ChildEnds(p)
  \/ \E p \in Children : GraceEnds(p)
  \/ TerminationEnds
  \/ \E c \in Callers : CallIgnored(c)
  \/ \E c \in Callers : CallRejected(c)
  \/ \E c \in Callers : CallFails(c)
  \/ \E c \in Callers : CallShutdown(c)
  \/ ChildrenEnded
  \/ \E t \in Transports : FlushSettles(t)
  \/ CloseAll
  \/ \E t \in Transports : CloseSettles(t)
  \/ ShutdownDone
  \/ ShutdownBroken
  \/ RescueDone
  \/ RescueBroken

Spec == Init /\ [][Next]_vars

(* The grace timer fires, and continuations run.  That a transport's        *)
(* promises settle is the transport's to ensure; a child need never end.    *)
Fairness ==
  /\ \A p \in Children : WF_vars(GraceEnds(p))
  /\ WF_vars(TerminationEnds) /\ WF_vars(ChildrenEnded) /\ WF_vars(CloseAll)
  /\ WF_vars(ShutdownDone \/ ShutdownBroken)
  /\ WF_vars(RescueDone \/ RescueBroken)
TransportFairness ==
  \A t \in Transports : WF_vars(FlushSettles(t)) /\ WF_vars(CloseSettles(t))

FairSpec == Spec /\ Fairness /\ TransportFairness

-----------------------------------------------------------------------------
(* Properties                                                               *)

States  == {"NOT_INITIALIZED", "INITIALIZING", "READY", "ERROR",
            "SHUTTING_DOWN", "SHUTDOWN"}
Emitted == {"ready", "error", "shutting_down", "transports_drained", "shutdown"}

(* The types of the variables; the error path belongs to the state ERROR. *)
TypeOK ==
  /\ state \in States
  /\ call \in [Callers -> {"idle", "running", "returned", "rejected"}]
  /\ stage \in {"none", "terminating", "flushing", "closing", "aborted", "broken"}
  /\ rescue \in BOOLEAN /\ (rescue => state = "ERROR")
  /\ events \in Seq(Emitted)
  /\ child \in [Children -> {"new", "running", "exited", "signalled"}]
  /\ tracked \subseteq Children /\ ending \subseteq Children
  /\ terminating \in BOOLEAN
  /\ due \subseteq Children /\ sigkill \subseteq Children /\ spared \subseteq Children
  /\ flushing \subseteq Transports /\ closing \subseteq Transports
  /\ flushed \subseteq Transports /\ closed \subseteq Transports
  /\ threw \in BOOLEAN

(* However many calls of shutdown() overlap, one sequence of steps runs: it *)
(* has one caller, and that caller is answered when it ends.                *)
OneShutdown ==
  /\ \A c, d \in Callers : call[c] = "running" /\ call[d] = "running" => c = d
  /\ stage # "none" <=> \E c \in Callers : call[c] = "running"

(* "Shut down external processes first": while transports are flushed or    *)
(* shut down, each child the shutdown found tracked has ended or has been   *)
(* sent SIGKILL, unless what threw was its own termination or the           *)
(* shutdown's wait for it.  One child that cannot be terminated neither     *)
(* spares another nor ends the wait for it.                                 *)
ChildrenEndFirst ==
  stage \notin {"none", "terminating"} =>
    \A p \in due : child[p] = "running" => p \in sigkill \cup spared

(* Unless a transport threw where it should have rejected: a transport is   *)
(* shut down only once every transport has been flushed, on the error path  *)
(* too.                                                                     *)
FlushBeforeClose ==
  ~threw /\ closing # {} => flushing = {} /\ flushed = Transports

(* Under the same proviso "transports_drained" tells the truth: it is       *)
(* emitted, also by a shutdown that failed, only when each transport has    *)
(* been flushed and shut down.                                              *)
DrainedMeansClosed ==
  ~threw /\ "transports_drained" \in Range(events) =>
    flushed = Transports /\ closed = Transports

(* A shutdown ends, whether or not the children do, as long as the promises *)
(* of the transports settle.                                                *)
ShutdownSettles ==
  \A c \in Callers :
    call[c] = "running" ~> call[c] \in {"returned", "rejected"}
=============================================================================
