------------------------ MODULE DurableTransportProofs ------------------------
(***************************************************************************)
(* Proofs about the durable transport, for every value of its constants:   *)
(* its types and bounds; the order of its entries: the backlog is          *)
(* delivered as it was logged, a flush leaves nothing older queued, and    *)
(* while the process lives the transport implements DeliveryContract; and  *)
(* last what its spool keeps.                                              *)
(***************************************************************************)
EXTENDS DurableTransport, SequenceTheorems, TLAPS

-----------------------------------------------------------------------------
(* Types                                                                    *)

Items == [entry : Entries, attempt : 0..MaxRetries, state : {"executing", "backoff"}]
Lines == Seq(Entries \cup {Corrupt})
Ops   == Seq(Entries \cup {Delete})

(* A new item, at its first attempt, is an item. *)
LEMMA FirstAttemptType ==
  \A e \in Entries : Attempt(e, 0, "executing") \in Items
  BY SizeAssumption DEF Attempt, Items

(* The range of a sequence is within the set its elements come from. *)
LEMMA RangeOfEntries ==
  ASSUME NEW S, NEW s \in Seq(S)
  PROVE  Range(s) \subseteq S
  BY DEF Range

(* Asking for the append of an entry, or for the deletion of the spool,     *)
(* leaves a chain of operations.                                            *)
LEMMA ChainType ==
  ASSUME NEW c \in Ops, chain \in Ops, NEW e \in Entries
  PROVE  ClearSpool(c) \in Ops /\ AppendSpool(e) \in Ops
  BY DEF ClearSpool, AppendSpool, Ops

(* drain() keeps the types of what it works on. *)
LEMMA DrainType ==
  ASSUME TypeOK, NEW q \in Seq(Entries), NEW c \in Ops, Drain(q, c)
  PROVE  /\ queue' \in Seq(Entries) /\ inflight' \in SUBSET Items
         /\ processing' \in BOOLEAN /\ chain' \in Ops
<1>1. ClearSpool(c) \in Ops
  BY DEF ClearSpool, Ops
<1>2. inflight \in SUBSET Items /\ processing \in BOOLEAN
  BY DEF TypeOK, Items
<1>3. CASE ~processing /\ q # <<>>
  <2>1. Head(q) \in Entries /\ Tail(q) \in Seq(Entries)
    BY <1>3
  <2>. QED
    BY <1>2, <1>3, <2>1, FirstAttemptType DEF Drain
<1>4. CASE processing \/ q = <<>>
  BY <1>1, <1>2, <1>4 DEF Drain
<1>. QED
  BY <1>3, <1>4

(* So does the step of the drain loop to the next entry. *)
LEMMA NextItemType ==
  ASSUME TypeOK, NEW item \in inflight, NextItem(item)
  PROVE  /\ queue' \in Seq(Entries) /\ inflight' \in SUBSET Items
         /\ processing' \in BOOLEAN /\ chain' \in Ops
<1>1. ClearSpool(chain) \in Ops
  BY DEF ClearSpool, Ops, TypeOK
<1>2. inflight \in SUBSET Items /\ processing \in BOOLEAN /\ queue \in Seq(Entries)
      /\ chain \in Ops
  BY DEF TypeOK, Items, Ops
<1>3. CASE queue # <<>>
  <2>1. Head(queue) \in Entries /\ Tail(queue) \in Seq(Entries)
    BY <1>2, <1>3
  <2>. QED
    BY <1>2, <1>3, <2>1, FirstAttemptType DEF NextItem
<1>4. CASE queue = <<>>
  BY <1>1, <1>2, <1>4 DEF NextItem
<1>. QED
  BY <1>3, <1>4

(* What Victim and Survivors take from a full queue. *)
LEMMA OverflowType ==
  ASSUME TypeOK, NEW e \in Entries
  PROVE  Victim(e) \subseteq Entries /\ Survivors \in Seq(Entries)
<1>1. queue \in Seq(Entries)
  BY DEF TypeOK
<1>2. CASE queue = <<>>
  BY <1>1, <1>2 DEF Victim, Survivors
<1>3. CASE queue # <<>>
  <2>1. Len(queue) \in Nat \ {0}
    BY <1>1, <1>3
  <2>2. Head(queue) \in Entries /\ Tail(queue) \in Seq(Entries)
    BY <1>1, <1>3
  <2>3. Last(queue) \in Entries
    BY <1>1, <2>1, ElementOfSeq DEF Last
  <2>4. Front(queue) \in Seq(Entries)
    BY <1>1, <2>1 DEF Front
  <2>. QED
    BY <1>1, <1>3, <2>2, <2>3, <2>4 DEF Victim, Survivors
<1>. QED
  BY <1>2, <1>3

(* The spool file stays a file of lines, whatever an append leaves in it. *)
LEMMA WrittenType ==
  ASSUME TypeOK, NEW e \in Entries \cup {Corrupt}
  PROVE  /\ Written(e) \in [lines : Lines, torn : BOOLEAN]
         /\ Written(e).lines # <<>>
<1>1. disk.lines \in Lines /\ disk.torn \in BOOLEAN /\ (disk.torn => disk.lines # <<>>)
  BY DEF TypeOK, Lines
<1>2. CASE disk.torn
  <2>1. Len(disk.lines) \in 1..Len(disk.lines)
    BY <1>1, <1>2 DEF Lines
  <2>. DEFINE s == [disk.lines EXCEPT ![Len(disk.lines)] = Corrupt]
  <2>2. s \in Lines /\ Len(s) = Len(disk.lines)
    BY <1>1, <2>1, ExceptSeq DEF Lines
  <2>3. s # <<>>
    BY <1>1, <2>1, <2>2 DEF Lines
  <2>. QED
    BY <1>2, <2>2, <2>3 DEF Written
<1>3. CASE ~disk.torn
  <2>1. Append(disk.lines, e) \in Lines /\ Append(disk.lines, e) # <<>>
    BY <1>1 DEF Lines
  <2>. QED
    BY <1>3, <2>1 DEF Written
<1>. QED
  BY <1>1, <1>2, <1>3

LEMMA DiskOutcomeType ==
  ASSUME TypeOK, NEW op \in Entries \cup {Delete},
         NEW d \in Cut(op) \cup {Done(op)}
  PROVE  /\ d \in [lines : Lines, torn : BOOLEAN]
         /\ d.torn => d.lines # <<>>
<1>1. disk \in [lines : Lines, torn : BOOLEAN] /\ (disk.torn => disk.lines # <<>>)
  BY DEF TypeOK, Lines
<1>2. CASE op = Delete
  <2>1. d \in {disk, NoSpool}
    BY <1>2 DEF Cut, Done
  <2>2. NoSpool \in [lines : Lines, torn : BOOLEAN] /\ ~NoSpool.torn
    BY DEF NoSpool, Lines
  <2>. QED
    BY <1>1, <2>1, <2>2
<1>3. CASE op \in Entries
  <2>1. op # Delete
    BY <1>3 DEF Entries, Delete
  <2>2. CASE d = Done(op)
    BY <2>1, <2>2, WrittenType DEF Done
  <2>3. CASE d = disk
    BY <1>1, <2>3
  <2>4. ASSUME NEW line \in {op, Corrupt}, d = [Written(line) EXCEPT !.torn = TRUE]
        PROVE  d \in [lines : Lines, torn : BOOLEAN] /\ (d.torn => d.lines # <<>>)
    <3>1. line \in Entries \cup {Corrupt}
      BY <1>3
    <3>. QED
      BY <2>4, <3>1, WrittenType
  <2>. QED
    BY <2>1, <2>2, <2>3, <2>4 DEF Cut, CutShort
<1>. QED
  BY <1>2, <1>3

(* Leaving the wait of a flush. *)
LEMMA LeaveFlushType ==
  ASSUME TypeOK, NEW f \in Flushers, NEW n \in Nat, LeaveFlush(f, n)
  PROVE  /\ queue' \in Seq(Entries) /\ dlq' \subseteq Entries /\ chain' \in Ops
         /\ flush' \in [Flushers -> [status : FlushStatus, ops : Nat, upTo : Nat]]
<1>1. queue \in Seq(Entries) /\ dlq \subseteq Entries /\ chain \in Ops
      /\ flush \in [Flushers -> [status : FlushStatus, ops : Nat, upTo : Nat]]
  BY DEF TypeOK, Ops
<1>2. CASE /\ dlq' = dlq \cup Range(queue)
           /\ queue' = <<>>
           /\ chain' = ClearSpool(chain)
           /\ flush' = [flush EXCEPT ![f] =
                [status |-> "settling", ops |-> Len(chain'), upTo |-> n]]
  <2>1. chain' \in Ops
    BY <1>1, <1>2 DEF ClearSpool, Ops
  <2>2. Len(chain') \in Nat
    BY <2>1 DEF Ops
  <2>3. Range(queue) \subseteq Entries
    BY <1>1, RangeOfEntries
  <2>. QED
    BY <1>1, <1>2, <2>1, <2>2, <2>3 DEF FlushStatus
<1>3. CASE /\ \E k \in DOMAIN queue :
                /\ dlq' = dlq \cup {queue[i] : i \in 1..k}
                /\ queue' = SubSeq(queue, k + 1, Len(queue))
           /\ flush' = [flush EXCEPT ![f] =
                [status |-> "rejected", ops |-> 0, upTo |-> n]]
           /\ UNCHANGED chain
  <2>1. PICK k \in DOMAIN queue :
                /\ dlq' = dlq \cup {queue[i] : i \in 1..k}
                /\ queue' = SubSeq(queue, k + 1, Len(queue))
    BY <1>3
  <2>2. k \in 1..Len(queue) /\ Len(queue) \in Nat
    BY <1>1
  <2>3. queue' \in Seq(Entries)
    BY <1>1, <2>1, <2>2, SubSeqProperties
  <2>4. \A i \in 1..k : queue[i] \in Entries
    BY <1>1, <2>2
  <2>. QED
    BY <1>1, <1>3, <2>1, <2>3, <2>4 DEF FlushStatus
<1>. QED
  BY <1>2, <1>3 DEF LeaveFlush

(* The types hold in every reachable state. *)
LEMMA InitType == Init => TypeOK
<1>. SUFFICES ASSUME Init PROVE TypeOK
  OBVIOUS
<1>1. flush \in [Flushers -> [status : FlushStatus, ops : Nat, upTo : Nat]]
  BY DEF Init, Idle, FlushStatus
<1>2. disk \in [lines : Seq(Entries \cup {Corrupt}), torn : BOOLEAN] /\ ~disk.torn
  BY DEF Init, NoSpool
<1>3. calls \in 0..MaxCalls /\ crashes \in 0..MaxCrashes
  BY BoundAssumption DEF Init
<1>4. queue \in Seq(Entries) /\ chain \in Ops /\ unread \in Lines
  BY DEF Init, Ops, Lines
<1>. QED
  BY <1>1, <1>2, <1>3, <1>4 DEF Init, TypeOK, Ops, Lines

LEMMA LogDurableType == TypeOK /\ LogDurable => TypeOK'
<1>. SUFFICES ASSUME TypeOK, LogDurable PROVE TypeOK'
  OBVIOUS
<1>. DEFINE e == calls + 1
<1>0. /\ e \in Entries /\ calls' = e /\ calls' \in 0..MaxCalls
      /\ UNCHANGED <<shuttingDown, direct, flush, disk, life, delivered>>
  BY BoundAssumption DEF LogDurable, TypeOK, Entries
<1>1. /\ queue \in Seq(Entries) /\ accepted \subseteq Entries /\ dlq \subseteq Entries
      /\ chain \in Ops /\ inflight \in SUBSET Items /\ processing \in BOOLEAN
  BY DEF TypeOK, Ops, Items
<1>2. AppendSpool(e) \in Ops
  BY <1>0, <1>1, ChainType
<1>3. Append(queue, e) \in Seq(Entries)
  BY <1>0, <1>1
<1>4. Victim(e) \subseteq Entries /\ Survivors \in Seq(Entries)
  BY <1>0, OverflowType
<1>5. Append(Survivors, e) \in Seq(Entries)
  BY <1>0, <1>4
<1>6. /\ queue' \in Seq(Entries) /\ inflight' \in SUBSET Items
      /\ processing' \in BOOLEAN /\ chain' \in Ops
      /\ accepted' \subseteq Entries /\ dlq' \subseteq Entries
  <2>1. CASE /\ Drain(Append(queue, e), AppendSpool(e))
             /\ accepted' = accepted \cup {e}
             /\ UNCHANGED dlq
    BY <1>0, <1>1, <1>2, <1>3, <2>1, DrainType
  <2>2. CASE /\ dlq' = dlq \cup Victim(e)
             /\ Drain(queue, chain) /\ UNCHANGED accepted
    BY <1>1, <1>4, <2>2, DrainType
  <2>3. CASE /\ dlq' = dlq \cup Victim(e)
             /\ Drain(Append(Survivors, e), AppendSpool(e))
             /\ accepted' = accepted \cup {e}
    BY <1>0, <1>1, <1>2, <1>4, <1>5, <2>3, DrainType
  <2>4. CASE /\ dlq' = dlq \cup Victim(e)
             /\ queue' = Survivors
             /\ UNCHANGED <<inflight, processing, chain, accepted>>
    BY <1>1, <1>4, <2>4
  <2>. QED
    BY <2>1, <2>2, <2>3, <2>4 DEF LogDurable
<1>. QED
  BY <1>0, <1>6 DEF TypeOK, Ops, Items, life

LEMMA DrainStepType == TypeOK /\ DrainStep => TypeOK'
<1>. SUFFICES ASSUME TypeOK, NEW item \in inflight,
                     \/ AttemptSucceeds(item)
                     \/ AttemptFails(item)
                     \/ AttemptExhausted(item)
              PROVE  TypeOK'
  BY DEF DrainStep
<1>1. item \in Items /\ inflight \in SUBSET Items
  BY DEF TypeOK, Items
<1>2. CASE AttemptSucceeds(item)
  <2>1. NextItem(item)
    BY <1>2 DEF AttemptSucceeds
  <2>2. /\ queue' \in Seq(Entries) /\ inflight' \in SUBSET Items
        /\ processing' \in BOOLEAN /\ chain' \in Ops
    BY <2>1, NextItemType
  <2>3. item.entry \in Entries
    BY <1>1 DEF Items
  <2>. QED
    BY <1>2, <2>2, <2>3 DEF AttemptSucceeds, TypeOK, Ops, Items, life
<1>3. CASE AttemptFails(item)
  <2>1. item.entry \in Entries /\ item.attempt \in 0..MaxRetries
        /\ ~(item.attempt >= MaxRetries)
    BY <1>1, <1>3 DEF Items, AttemptFails, GivesUp
  <2>2. Attempt(item.entry, item.attempt + 1, "backoff") \in Items
    BY <2>1, SizeAssumption DEF Attempt, Items
  <2>3. inflight' \in SUBSET Items
    BY <1>1, <1>3, <2>2 DEF AttemptFails
  <2>. QED
    BY <1>3, <2>3 DEF AttemptFails, TypeOK, Items, spool, life
<1>4. CASE AttemptExhausted(item)
  <2>1. item.entry \in Entries
    BY <1>1 DEF Items
  <2>2. /\ queue' \in Seq(Entries) /\ inflight' \in SUBSET Items
        /\ processing' \in BOOLEAN /\ chain' \in Ops
    <3>1. CASE NextItem(item)
      BY <3>1, NextItemType
    <3>2. CASE /\ inflight' = inflight \ {item}
               /\ processing' = FALSE
               /\ chain' = ClearSpool(chain)
               /\ UNCHANGED queue
      <4>1. queue \in Seq(Entries) /\ chain \in Ops
        BY DEF TypeOK, Ops
      <4>2. ClearSpool(chain) \in Ops
        BY <4>1 DEF ClearSpool, Ops
      <4>. QED
        BY <1>1, <3>2, <4>1, <4>2
    <3>. QED
      BY <1>4, <3>1, <3>2 DEF AttemptExhausted
  <2>. QED
    BY <1>4, <2>1, <2>2 DEF AttemptExhausted, TypeOK, Ops, Items, life
<1>. QED
  BY <1>2, <1>3, <1>4

LEMMA FlushType ==
  ASSUME TypeOK, NEW f \in Flushers,
         \/ CallFlush(f, FALSE) \/ CallFlush(f, TRUE)
         \/ DeadlinePasses(f) \/ FlushWakes(f) \/ FlushResolves(f)
  PROVE  TypeOK'
<1>0. /\ queue \in Seq(Entries) /\ dlq \subseteq Entries /\ chain \in Ops
      /\ flush \in [Flushers -> [status : FlushStatus, ops : Nat, upTo : Nat]]
      /\ calls \in Nat
  BY BoundAssumption DEF TypeOK, Ops
<1>1. ASSUME NEW halt \in BOOLEAN, CallFlush(f, halt) PROVE TypeOK'
  <2>1. /\ queue' \in Seq(Entries) /\ dlq' \subseteq Entries /\ chain' \in Ops
        /\ flush' \in [Flushers -> [status : FlushStatus, ops : Nat, upTo : Nat]]
    <3>1. CASE LeaveFlush(f, calls)
      BY <1>0, <3>1, LeaveFlushType
    <3>2. CASE /\ flush' = [flush EXCEPT ![f] =
                    [status |-> "waiting", ops |-> 0, upTo |-> calls]]
               /\ UNCHANGED <<queue, chain, dlq>>
      BY <1>0, <3>2 DEF FlushStatus
    <3>. QED
      BY <1>1, <3>1, <3>2 DEF CallFlush
  <2>2. shuttingDown' \in BOOLEAN
    BY <1>1 DEF CallFlush, TypeOK
  <2>. QED
    BY <1>1, <2>1, <2>2 DEF CallFlush, TypeOK, Ops, life
<1>2. CASE DeadlinePasses(f)
  <2>1. flush' \in [Flushers -> [status : FlushStatus, ops : Nat, upTo : Nat]]
    BY <1>0, <1>2 DEF DeadlinePasses, FlushStatus
  <2>. QED
    BY <1>2, <2>1 DEF DeadlinePasses, TypeOK, work, spool, life
<1>3. CASE FlushWakes(f)
  <2>1. flush[f].upTo \in Nat /\ LeaveFlush(f, flush[f].upTo)
    BY <1>0, <1>3 DEF FlushWakes
  <2>2. /\ queue' \in Seq(Entries) /\ dlq' \subseteq Entries /\ chain' \in Ops
        /\ flush' \in [Flushers -> [status : FlushStatus, ops : Nat, upTo : Nat]]
    BY <2>1, LeaveFlushType
  <2>. QED
    BY <1>3, <2>2 DEF FlushWakes, TypeOK, Ops, life
<1>4. CASE FlushResolves(f)
  <2>1. flush' \in [Flushers -> [status : FlushStatus, ops : Nat, upTo : Nat]]
    BY <1>0, <1>4 DEF FlushResolves, FlushStatus
  <2>. QED
    BY <1>4, <2>1 DEF FlushResolves, TypeOK, work, spool, life
<1>. QED
  BY <1>1, <1>2, <1>3, <1>4

LEMMA CrashType == TypeOK /\ Crash => TypeOK'
<1>. SUFFICES ASSUME TypeOK, Crash PROVE TypeOK'
  OBVIOUS
<1>1. /\ disk' \in [lines : Lines, torn : BOOLEAN]
      /\ disk'.torn => disk'.lines # <<>>
  <2>1. CASE chain = <<>>
    BY <2>1 DEF Crash, TypeOK, Lines
  <2>2. CASE chain # <<>>
    <3>1. Head(chain) \in Entries \cup {Delete}
      BY <2>2 DEF TypeOK
    <3>. QED
      BY <2>2, <3>1, DiskOutcomeType DEF Crash
  <2>. QED
    BY <2>1, <2>2
<1>2. Backlog \cap (IF Persist THEN Unserialisable ELSE Entries) \subseteq Entries
  <2>1. Range(queue) \subseteq Entries
    BY RangeOfEntries DEF TypeOK
  <2>2. \A item \in inflight : item.entry \in Entries
    BY DEF TypeOK
  <2>. QED
    BY <2>1, <2>2 DEF Backlog
<1>3. unspooled' \subseteq Entries
  BY <1>2 DEF Crash, TypeOK
<1>4. flush' \in [Flushers -> [status : FlushStatus, ops : Nat, upTo : Nat]]
  BY DEF Crash, Idle, FlushStatus
<1>5. crashes' \in 0..MaxCrashes
  BY BoundAssumption DEF Crash, TypeOK
<1>6. queue' \in Seq(Entries) /\ chain' \in Ops /\ unread' \in Lines
  BY DEF Crash, Ops, Lines
<1>7. inflight' = {} /\ processing' \in BOOLEAN /\ shuttingDown' \in BOOLEAN
      /\ direct' \subseteq Entries /\ phase' \in {"up", "down", "recovering"}
  BY DEF Crash
<1>8. /\ calls' \in 0..MaxCalls /\ strategy' \in DropStrategies
      /\ accepted' \subseteq Entries /\ delivered' \subseteq Entries
      /\ dlq' \subseteq Entries
  BY DEF Crash, TypeOK
<1>. QED
  BY <1>1, <1>3, <1>4, <1>5, <1>6, <1>7, <1>8 DEF TypeOK, Lines, Ops

(* Type correctness: in every reachable state each variable has its type;   *)
(* in particular no item is attempted more than maxRetries + 1 times.       *)
THEOREM TypeCorrect == Spec => []TypeOK
<1>1. Init => TypeOK
  BY InitType
<1>2. TypeOK /\ [Next]_vars => TypeOK'
  <2>. SUFFICES ASSUME TypeOK, [Next]_vars PROVE TypeOK'
    OBVIOUS
  <2>1. CASE LogDurable
    BY <2>1, LogDurableType
  <2>2. CASE LogDirect
    BY <2>2, BoundAssumption DEF LogDirect, TypeOK, Entries, work, spool, life
  <2>3. ASSUME NEW e \in direct, DirectSettles(e) PROVE TypeOK'
    BY <2>3 DEF DirectSettles, TypeOK, work, spool, life
  <2>4. CASE DrainStep
    BY <2>4, DrainStepType
  <2>5. ASSUME NEW item \in inflight, BackoffEnds(item) PROVE TypeOK'
    <3>1. inflight \in SUBSET Items
      BY DEF TypeOK, Items
    <3>2. Attempt(item.entry, item.attempt, "executing") \in Items
      BY <3>1 DEF Attempt, Items
    <3>3. inflight' \in SUBSET Items
      BY <2>5, <3>1, <3>2 DEF BackoffEnds
    <3>. QED
      BY <2>5, <3>3 DEF BackoffEnds, TypeOK, Items, spool, life
  <2>6. ASSUME NEW f \in Flushers,
               \/ CallFlush(f, FALSE) \/ CallFlush(f, TRUE)
               \/ DeadlinePasses(f) \/ FlushWakes(f) \/ FlushResolves(f)
        PROVE  TypeOK'
    BY <2>6, FlushType
  <2>7. CASE DiskOpSettles
    <3>1. Head(chain) \in Entries \cup {Delete} /\ Tail(chain) \in Ops
      BY <2>7 DEF DiskOpSettles, TypeOK, Ops
    <3>2. disk' \in Cut(Head(chain)) \cup {Done(Head(chain))}
      BY <2>7 DEF DiskOpSettles
    <3>3. disk' \in [lines : Lines, torn : BOOLEAN] /\ (disk'.torn => disk'.lines # <<>>)
      BY <3>1, <3>2, DiskOutcomeType
    <3>4. flush' \in [Flushers -> [status : FlushStatus, ops : Nat, upTo : Nat]]
      <4>1. \A f \in Flushers : flush[f] \in [status : FlushStatus, ops : Nat, upTo : Nat]
        BY DEF TypeOK
      <4>2. \A f \in Flushers : (IF flush[f].ops > 0 THEN flush[f].ops - 1 ELSE 0) \in Nat
        BY <4>1
      <4>3. flush' = [f \in Flushers |-> [flush[f] EXCEPT !.ops =
                        IF flush[f].ops > 0 THEN flush[f].ops - 1 ELSE 0]]
        BY <2>7 DEF DiskOpSettles
      <4>. QED
        BY <4>1, <4>2, <4>3
    <3>. QED
      BY <2>7, <3>1, <3>3, <3>4 DEF DiskOpSettles, TypeOK, Ops, Lines, work, life
  <2>8. CASE Crash
    BY <2>8, CrashType
  <2>9. CASE Restart
    <3>1. disk.lines \in Lines /\ <<>> \in Lines
      BY DEF TypeOK, Lines
    <3>2. unread' \in Lines
      BY <2>9, <3>1 DEF Restart
    <3>. QED
      BY <2>9, <3>2 DEF Restart, TypeOK, Lines, work, spool
  <2>10. CASE RecoverLine
    <3>1. Head(unread) \in Entries \cup {Corrupt} /\ Tail(unread) \in Lines
      BY <2>10 DEF RecoverLine, TypeOK, Lines
    <3>2. queue' \in Seq(Entries)
      BY <2>10, <3>1 DEF RecoverLine, TypeOK
    <3>. QED
      BY <2>10, <3>1, <3>2 DEF RecoverLine, TypeOK, Lines, spool
  <2>11. CASE Recovered
    <3>1. /\ queue' \in Seq(Entries) /\ inflight' \in SUBSET Items
          /\ processing' \in BOOLEAN /\ chain' \in Ops
      <4>1. queue \in Seq(Entries) /\ chain \in Ops
        BY DEF TypeOK, Ops
      <4>2. CASE Drain(queue, chain)
        BY <4>1, <4>2, DrainType
      <4>3. CASE UNCHANGED <<work, chain>>
        BY <4>3 DEF TypeOK, Ops, Items, work
      <4>. QED
        BY <2>11, <4>2, <4>3 DEF Recovered
    <3>. QED
      BY <2>11, <3>1 DEF Recovered, TypeOK, Ops, Items
  <2>12. CASE UNCHANGED vars
    BY <2>12 DEF vars, TypeOK, work, spool, life
  <2>. QED
    BY <2>1, <2>2, <2>3, <2>4, <2>5, <2>6, <2>7, <2>8, <2>9, <2>10, <2>11, <2>12
       DEF Next
<1>. QED
  BY <1>1, <1>2, PTL DEF Spec

-----------------------------------------------------------------------------
(* One drain loop at a time                                                 *)

LEMMA DrainSingle ==
  ASSUME SingleFlight, NEW q, NEW c, Drain(q, c)
  PROVE  SingleFlight'
<1>1. CASE UNCHANGED <<inflight, processing>>
  BY <1>1 DEF SingleFlight
<1>2. ASSUME ~processing, processing' = TRUE, NEW item,
             inflight' = inflight \cup {item}
      PROVE  SingleFlight'
  BY <1>2 DEF SingleFlight
<1>. QED
  BY <1>1, <1>2 DEF Drain

LEMMA NextItemSingle ==
  ASSUME SingleFlight, NEW item \in inflight, NextItem(item)
  PROVE  SingleFlight'
  BY DEF SingleFlight, NextItem

(* Whoever kicks the loop, log() while another call drains, a restart, or   *)
(* the loop itself going on after a hook that threw, there is never more    *)
(* than one, and the processing flag is set exactly while it runs.          *)
THEOREM SingleFlightHolds == Spec => []SingleFlight
<1>1. Init => SingleFlight
  BY DEF Init, SingleFlight
<1>2. SingleFlight /\ [Next]_vars => SingleFlight'
  <2>. SUFFICES ASSUME SingleFlight, [Next]_vars PROVE SingleFlight'
    OBVIOUS
  <2>1. CASE LogDurable
    <3>1. CASE UNCHANGED <<inflight, processing>>
      BY <3>1 DEF SingleFlight
    <3>2. ASSUME NEW q, NEW c, Drain(q, c) PROVE SingleFlight'
      BY <3>2, DrainSingle
    <3>. QED
      BY <2>1, <3>1, <3>2 DEF LogDurable
  <2>2. CASE DrainStep
    <3>. SUFFICES ASSUME NEW item \in inflight,
                         \/ AttemptSucceeds(item)
                         \/ AttemptFails(item)
                         \/ AttemptExhausted(item)
                  PROVE  SingleFlight'
      BY <2>2 DEF DrainStep
    <3>1. CASE NextItem(item)
      BY <3>1, NextItemSingle
    <3>2. CASE AttemptFails(item)
      BY <3>2 DEF AttemptFails, SingleFlight
    <3>3. CASE inflight' = inflight \ {item} /\ processing' = FALSE
      BY <3>3 DEF SingleFlight
    <3>. QED
      BY <3>1, <3>2, <3>3 DEF AttemptSucceeds, AttemptExhausted
  <2>3. ASSUME NEW item \in inflight, BackoffEnds(item) PROVE SingleFlight'
    BY <2>3 DEF BackoffEnds, SingleFlight
  <2>4. CASE Crash
    BY <2>4 DEF Crash, SingleFlight
  <2>5. CASE Recovered
    <3>1. CASE Drain(queue, chain)
      BY <3>1, DrainSingle
    <3>2. CASE UNCHANGED <<work, chain>>
      BY <3>2 DEF SingleFlight, work
    <3>. QED
      BY <2>5, <3>1, <3>2 DEF Recovered
  <2>6. CASE UNCHANGED <<inflight, processing>>
    BY <2>6 DEF SingleFlight
  <2>. QED
    BY <2>1, <2>2, <2>3, <2>4, <2>5, <2>6
       DEF Next, LogDirect, DirectSettles, CallFlush, DeadlinePasses, FlushWakes,
           FlushResolves, DiskOpSettles, Restart, RecoverLine, vars, work
<1>. QED
  BY <1>1, <1>2, PTL DEF Spec

-----------------------------------------------------------------------------
(* The bound of the queue                                                   *)

(* drain() takes at most one entry away from the queue it is given. *)
LEMMA DrainLength ==
  ASSUME NEW q \in Seq(Entries), NEW c, Drain(q, c)
  PROVE  Len(queue') = Len(q) \/ (q # <<>> /\ Len(queue') = Len(q) - 1)
<1>1. q # <<>> => Len(Tail(q)) = Len(q) - 1
  OBVIOUS
<1>. QED
  BY <1>1 DEF Drain

(* Front leaves out one element, the last. *)
LEMMA FrontProperties ==
  ASSUME NEW S, NEW s \in Seq(S), s # <<>>
  PROVE  /\ Front(s) \in Seq(S)
         /\ Len(Front(s)) = Len(s) - 1
         /\ \A i \in 1..Len(s) - 1 : Front(s)[i] = s[i]
<1>. DEFINE n == Len(s) - 1
<1>1. n \in Nat
  OBVIOUS
<1>2. \A i \in 1..n : s[i] \in S
  OBVIOUS
<1>3. Front(s) = SubSeq(s, 1, n)
  BY DEF Front
<1>. HIDE DEF n
<1>4. /\ SubSeq(s, 1, n) \in Seq(S)
      /\ Len(SubSeq(s, 1, n)) = IF 1 <= n THEN n - 1 + 1 ELSE 0
      /\ \A i \in 1..n - 1 + 1 : SubSeq(s, 1, n)[i] = s[1 + i - 1]
  <2>1. 1 \in Int /\ n \in Int
    BY <1>1
  <2>. QED
    BY <1>2, <2>1, SubSeqProperties
<1>5. n - 1 + 1 = n /\ (IF 1 <= n THEN n - 1 + 1 ELSE 0) = n
  BY <1>1
<1>6. \A i \in 1..n : 1 + i - 1 = i
  BY <1>1
<1>. QED
  BY <1>3, <1>4, <1>5, <1>6 DEF n

LEMMA SurvivorsLength ==
  ASSUME TypeOK
  PROVE  strategy = "reject" \/ queue = <<>> \/ Len(Survivors) = Len(queue) - 1
<1>1. queue \in Seq(Entries)
  BY DEF TypeOK
<1>2. queue # <<>> => Len(Tail(queue)) = Len(queue) - 1
  BY <1>1
<1>3. queue # <<>> => Len(Front(queue)) = Len(queue) - 1
  BY <1>1, FrontProperties
<1>. QED
  BY <1>2, <1>3 DEF Survivors

(* Whatever the drop strategy, log() never makes the queue longer than      *)
(* bufferSize: what exceeds it was replayed from a spool.                   *)
THEOREM LogRespectsBufferSizeHolds == Spec => LogRespectsBufferSize
<1>. DEFINE Bounded == phase = "up" /\ Len(queue') > Len(queue)
                         => Len(queue') <= BufferSize \/ Len(queue') = 1
<1>1. TypeOK /\ [Next]_vars => [Bounded]_vars
  <2>. SUFFICES ASSUME TypeOK, [Next]_vars, phase = "up", Len(queue') > Len(queue)
                PROVE  Len(queue') <= BufferSize \/ Len(queue') = 1
    OBVIOUS
  <2>0. queue \in Seq(Entries) /\ Len(queue) \in Nat /\ queue' # queue
    BY DEF TypeOK
  <2>1. CASE LogDurable
    <3>. DEFINE e == calls + 1
    <3>1. e \in Entries
      BY <2>1, BoundAssumption DEF LogDurable, TypeOK, Entries
    <3>2. CASE Len(queue) < BufferSize /\ Drain(Append(queue, e), AppendSpool(e))
      <4>1. Append(queue, e) \in Seq(Entries) /\ Len(Append(queue, e)) = Len(queue) + 1
        BY <2>0, <3>1
      <4>2. \/ Len(queue') = Len(Append(queue, e))
            \/ Len(queue') = Len(Append(queue, e)) - 1
        BY <3>2, <4>1, DrainLength
      <4>. QED
        BY <2>0, <3>2, <4>1, <4>2, SizeAssumption
    <3>3. CASE strategy = "reject" /\ Drain(queue, chain)
      BY <2>0, <3>3, DrainLength
    <3>4. CASE strategy # "reject" /\ Drain(Append(Survivors, e), AppendSpool(e))
      <4>1. Survivors \in Seq(Entries)
        BY <3>1, OverflowType
      <4>2. Append(Survivors, e) \in Seq(Entries)
            /\ Len(Append(Survivors, e)) = Len(Survivors) + 1
        BY <3>1, <4>1
      <4>5. \/ Len(queue') = Len(Append(Survivors, e))
            \/ Len(queue') = Len(Append(Survivors, e)) - 1
        BY <3>4, <4>2, DrainLength
      <4>3. CASE queue = <<>>
        <5>1. Survivors = <<>>
          BY <4>3 DEF Survivors
        <5>. QED
          BY <2>0, <4>2, <4>3, <4>5, <5>1
      <4>4. CASE queue # <<>>
        <5>1. Len(Survivors) = Len(queue) - 1
          BY <3>4, <4>4, SurvivorsLength
        <5>. QED
          BY <2>0, <4>2, <4>5, <5>1
      <4>. QED
        BY <4>3, <4>4
    <3>5. CASE queue' = Survivors
      BY <2>0, <3>5, SurvivorsLength DEF Survivors
    <3>. QED
      BY <2>1, <3>2, <3>3, <3>4, <3>5 DEF LogDurable
  <2>2. CASE DrainStep
    <3>1. queue' = Tail(queue) /\ queue # <<>>
      BY <2>0, <2>2 DEF DrainStep, AttemptSucceeds, AttemptFails, AttemptExhausted,
                        NextItem
    <3>. QED
      BY <2>0, <3>1
  <2>3. ASSUME NEW f \in Flushers, NEW n, LeaveFlush(f, n)
        PROVE  Len(queue') <= BufferSize \/ Len(queue') = 1
    <3>1. CASE queue' = <<>>
      BY <2>0, <3>1
    <3>2. ASSUME NEW k \in DOMAIN queue, queue' = SubSeq(queue, k + 1, Len(queue))
          PROVE  FALSE
      <4>1. k \in 1..Len(queue)
        BY <2>0
      <4>2. Len(queue') = Len(queue) - k
        BY <2>0, <3>2, <4>1, SubSeqProperties
      <4>. QED
        BY <2>0, <4>1, <4>2
    <3>. QED
      BY <2>3, <3>1, <3>2 DEF LeaveFlush
  <2>. QED
    BY <2>0, <2>1, <2>2, <2>3
       DEF Next, LogDirect, DirectSettles, BackoffEnds, CallFlush, DeadlinePasses,
           FlushWakes, FlushResolves, DiskOpSettles, Crash, Restart, RecoverLine,
           Recovered, vars, work
<1>. QED
  BY <1>1, TypeCorrect, PTL DEF Spec, LogRespectsBufferSize

-----------------------------------------------------------------------------
(* Sequences whose entries rise, 0 standing for what is not an entry.       *)

Rising(s) == \A i, j \in DOMAIN s : i < j /\ s[i] # 0 /\ s[j] # 0 => s[i] < s[j]

(* The entries of s come before n; before those of t. *)
Under(s, n) == \A i \in DOMAIN s : s[i] # 0 => s[i] < n
Below(s, t) == \A j \in DOMAIN t : t[j] # 0 => Under(s, t[j])

(* t is a stretch of s. *)
Stretch(t, s) ==
  \E d \in Nat : /\ Len(t) + d <= Len(s)
                 /\ \A i \in 1..Len(t) : t[i] = s[i + d]

LEMMA StretchFact ==
  ASSUME NEW s \in Seq(Nat), NEW t \in Seq(Nat), Stretch(t, s)
  PROVE  /\ Rising(s) => Rising(t)
         /\ \A n \in Nat : Under(s, n) => Under(t, n)
         /\ \A u \in Seq(Nat) : Below(s, u) => Below(t, u)
         /\ \A u \in Seq(Nat) : Below(u, s) => Below(u, t)
<1>1. PICK d \in Nat : /\ Len(t) + d <= Len(s)
                       /\ \A i \in 1..Len(t) : t[i] = s[i + d]
  BY DEF Stretch
<1>2. /\ DOMAIN t = 1..Len(t) /\ DOMAIN s = 1..Len(s)
      /\ Len(t) \in Nat /\ Len(s) \in Nat
  OBVIOUS
<1>3. \A i \in DOMAIN t : i \in Nat /\ i + d \in DOMAIN s /\ t[i] = s[i + d]
  BY <1>1, <1>2
<1>4. \A i, j \in DOMAIN t : i < j => i + d < j + d
  BY <1>2
<1>5. Rising(s) => Rising(t)
  BY <1>3, <1>4 DEF Rising
<1>6. \A n : Under(s, n) => Under(t, n)
  BY <1>3 DEF Under
<1>7. \A u : Below(u, s) => Below(u, t)
  BY <1>3 DEF Below
<1> QED
  BY <1>5, <1>6, <1>7 DEF Below

LEMMA TailStretch ==
  ASSUME NEW s \in Seq(Nat), s # <<>>
  PROVE  Tail(s) \in Seq(Nat) /\ Stretch(Tail(s), s)
<1>1. Len(Tail(s)) + 1 <= Len(s) /\ \A i \in 1..Len(Tail(s)) : Tail(s)[i] = s[i + 1]
  OBVIOUS
<1> QED
  BY <1>1 DEF Stretch

LEMMA FrontStretch ==
  ASSUME NEW s \in Seq(Nat), s # <<>>
  PROVE  Front(s) \in Seq(Nat) /\ Stretch(Front(s), s)
<1>1. Len(Front(s)) = Len(s) - 1 /\ \A i \in 1..Len(s) - 1 : Front(s)[i] = s[i]
  BY FrontProperties
<1>2. Len(s) \in Nat
  OBVIOUS
<1>3. Len(Front(s)) + 0 <= Len(s) /\ \A i \in 1..Len(Front(s)) : Front(s)[i] = s[i + 0]
  BY <1>1, <1>2
<1> QED
  BY <1>3, FrontProperties DEF Stretch

LEMMA RestStretch ==
  ASSUME NEW s \in Seq(Nat), NEW k \in 1..Len(s)
  PROVE  /\ SubSeq(s, k + 1, Len(s)) \in Seq(Nat)
         /\ Stretch(SubSeq(s, k + 1, Len(s)), s)
<1> DEFINE t == SubSeq(s, k + 1, Len(s))
<1>1. Len(s) \in Nat /\ k \in Nat /\ k <= Len(s)
  OBVIOUS
<1>2. t \in Seq(Nat) /\ Len(t) = Len(s) - k
  BY <1>1, SubSeqProperties
<1>3. \A i \in 1..Len(t) : t[i] = s[i + k]
  <2>1. \A i \in 1..Len(s) - k : t[i] = s[k + 1 + i - 1]
    BY <1>1, SubSeqProperties
  <2>2. \A i \in 1..Len(s) - k : k + 1 + i - 1 = i + k
    BY <1>1
  <2> QED
    BY <1>2, <2>1, <2>2
<1>4. Len(t) + k <= Len(s)
  BY <1>1, <1>2
<1> QED
  BY <1>1, <1>2, <1>3, <1>4 DEF Stretch

LEMMA SameStretch == ASSUME NEW s \in Seq(Nat) PROVE Stretch(s, s)
<1>1. Len(s) + 0 <= Len(s) /\ \A i \in 1..Len(s) : s[i] = s[i + 0]
  OBVIOUS
<1> QED
  BY <1>1 DEF Stretch

LEMMA AppendFact ==
  ASSUME NEW s \in Seq(Nat), NEW e \in Nat
  PROVE  /\ Append(s, e) \in Seq(Nat)
         /\ Rising(s) /\ (e # 0 => Under(s, e)) => Rising(Append(s, e))
         /\ \A n \in Nat : Under(s, n) /\ (e # 0 => e < n) => Under(Append(s, e), n)
         /\ \A u \in Seq(Nat) : Below(u, s) /\ (e # 0 => Under(u, e)) => Below(u, Append(s, e))
<1>1. /\ Append(s, e) \in Seq(Nat) /\ Len(Append(s, e)) = Len(s) + 1 /\ Len(s) \in Nat
      /\ \A i \in 1..Len(s) : Append(s, e)[i] = s[i]
      /\ Append(s, e)[Len(s) + 1] = e
  OBVIOUS
<1>2. DOMAIN Append(s, e) = 1..Len(s) + 1 /\ DOMAIN s = 1..Len(s)
  BY <1>1
<1>3. \A i \in 1..Len(s) + 1 : i \in 1..Len(s) \/ i = Len(s) + 1
  BY <1>1
<1>4. \A i, j \in 1..Len(s) + 1 : i < j => i \in 1..Len(s)
  BY <1>1
<1>5. Rising(s) /\ (e # 0 => Under(s, e)) => Rising(Append(s, e))
  BY <1>1, <1>2, <1>3, <1>4 DEF Rising, Under
<1>6. \A n \in Nat : Under(s, n) /\ (e # 0 => e < n) => Under(Append(s, e), n)
  BY <1>1, <1>2, <1>3 DEF Under
<1>7. \A u \in Seq(Nat) : Below(u, s) /\ (e # 0 => Under(u, e)) => Below(u, Append(s, e))
  BY <1>1, <1>2, <1>3 DEF Below
<1> QED
  BY <1>1, <1>5, <1>6, <1>7

LEMMA UnderGrows ==
  ASSUME NEW s \in Seq(Nat), NEW m \in Nat, NEW n \in Nat, m <= n, Under(s, m)
  PROVE  Under(s, n)
BY DEF Under

LEMMA EmptyFact ==
  /\ <<>> \in Seq(Nat) /\ Rising(<<>>) /\ \A n : Under(<<>>, n)
  /\ \A s : Below(<<>>, s) /\ Below(s, <<>>)
BY DEF Rising, Under, Below

(* What the head of a rising sequence comes before. *)
LEMMA HeadFact ==
  ASSUME NEW s \in Seq(Nat), s # <<>>, Rising(s), Head(s) # 0
  PROVE  /\ \A i \in DOMAIN Tail(s) : Tail(s)[i] # 0 => Head(s) < Tail(s)[i]
         /\ \A n \in Nat : Under(s, n) => Head(s) < n
         /\ Head(s) \in Nat
<1>1. /\ Head(s) = s[1] /\ 1 \in DOMAIN s /\ Len(Tail(s)) = Len(s) - 1 /\ Len(s) \in Nat
      /\ Tail(s) \in Seq(Nat) /\ \A i \in 1..Len(Tail(s)) : Tail(s)[i] = s[i + 1]
  OBVIOUS
<1>2. \A i \in DOMAIN Tail(s) : i + 1 \in DOMAIN s /\ 1 < i + 1 /\ Tail(s)[i] = s[i + 1]
  BY <1>1
<1> QED
  BY <1>1, <1>2 DEF Rising, Under

LEMMA WiderSeq ==
  ASSUME NEW A, NEW B, A \subseteq B, NEW s \in Seq(A)
  PROVE  s \in Seq(B)
<1>1. Len(s) \in Nat /\ DOMAIN s = 1..Len(s) /\ \A i \in 1..Len(s) : s[i] \in B
  OBVIOUS
<1>2. s = [i \in 1..Len(s) |-> s[i]]
  BY <1>1
<1> QED
  BY <1>1, <1>2

LEMMA EntriesFact ==
  /\ Entries \subseteq Nat /\ 0 \notin Entries
  /\ Seq(Entries) \subseteq Seq(Nat)
  /\ Seq(Entries \cup {Corrupt}) \subseteq Seq(Nat)
  /\ Seq(Entries \cup {Delete}) \subseteq Seq(Nat)
<1>1. /\ Entries \subseteq Nat /\ 0 \notin Entries
      /\ Entries \cup {Corrupt} \subseteq Nat /\ Entries \cup {Delete} \subseteq Nat
  BY DEF Entries, Corrupt, Delete
<1> QED
  BY <1>1, WiderSeq

LEMMA CountFact == TypeOK => calls \in Nat /\ calls + 1 \in Nat
BY BoundAssumption DEF TypeOK

-----------------------------------------------------------------------------
(* The backlog and the spool keep the order of the log() calls.             *)

(* The queue q rises, behind what is in flight, and is older than n. *)
Ordered(q, n) ==
  /\ Rising(q) /\ Under(q, n)
  /\ \A item \in inflight : item.entry < n /\ \A i \in DOMAIN q : item.entry < q[i]

(* The lines of the file rise, and the appends chained rise after them. *)
FileOrdered(c, n) ==
  /\ Rising(disk.lines) /\ Under(disk.lines, n)
  /\ Rising(c) /\ Under(c, n) /\ Below(disk.lines, c)

(* While the process is not up it delivers nothing, and what it has still   *)
(* to replay comes after what it has queued.                                *)
RestInv ==
  /\ phase # "up" => /\ inflight = {} /\ ~processing /\ chain = <<>>
                     /\ flush = [f \in Flushers |-> Idle]
  /\ phase = "down" => queue = <<>>
  /\ phase # "recovering" => unread = <<>>
  /\ Rising(unread) /\ Under(unread, calls + 1) /\ Below(queue, unread)

OrderInv == Ordered(queue, calls + 1) /\ FileOrdered(chain, calls + 1) /\ RestInv

(* A stretch of an ordered queue is ordered. *)
LEMMA OrderedStretch ==
  ASSUME NEW q \in Seq(Nat), NEW t \in Seq(Nat), NEW n \in Nat,
         Stretch(t, q), Ordered(q, n)
  PROVE  Ordered(t, n)
<1>1. Rising(t) /\ Under(t, n)
  BY StretchFact DEF Ordered
<1>2. \A i \in DOMAIN t : \E j \in DOMAIN q : t[i] = q[j]
  <2>1. PICK d \in Nat : Len(t) + d <= Len(q) /\ \A i \in 1..Len(t) : t[i] = q[i + d]
    BY DEF Stretch
  <2>2. \A i \in 1..Len(t) : i + d \in 1..Len(q)
    <3>1. Len(t) \in Nat /\ Len(q) \in Nat
      OBVIOUS
    <3> QED
      BY <2>1, <3>1
  <2>3. DOMAIN t = 1..Len(t) /\ DOMAIN q = 1..Len(q)
    OBVIOUS
  <2> QED
    BY <2>1, <2>2, <2>3
<1> QED
  BY <1>1, <1>2 DEF Ordered

(* A newer entry may be put behind an ordered queue. *)
LEMMA OrderedAppend ==
  ASSUME TypeOK, NEW q \in Seq(Entries), NEW n \in Entries, Ordered(q, n)
  PROVE  Ordered(Append(q, n), n + 1)
<1>1. q \in Seq(Nat) /\ n \in Nat /\ n # 0 /\ n + 1 \in Nat /\ n <= n + 1 /\ n < n + 1
  BY EntriesFact
<1>2. Rising(Append(q, n)) /\ Under(Append(q, n), n + 1)
  <2>1. Under(q, n + 1)
    BY <1>1, UnderGrows DEF Ordered
  <2> QED
    BY <1>1, <2>1, AppendFact DEF Ordered
<1>3. \A i \in DOMAIN Append(q, n) : Append(q, n)[i] = n \/ (i \in DOMAIN q /\ Append(q, n)[i] = q[i])
  OBVIOUS
<1>4. \A item \in inflight : item.entry \in Nat
  BY EntriesFact DEF TypeOK
<1>5. \A item \in inflight : item.entry < n + 1
  BY <1>1, <1>4 DEF Ordered
<1>6. \A item \in inflight : \A i \in DOMAIN Append(q, n) : item.entry < Append(q, n)[i]
  BY <1>3 DEF Ordered
<1> QED
  BY <1>2, <1>5, <1>6 DEF Ordered

(* The loop takes the oldest entry. *)
LEMMA TakeOrder ==
  ASSUME TypeOK, NEW q \in Seq(Entries), NEW n \in Nat, Ordered(q, n), q # <<>>,
         NEW I, I \subseteq inflight,
         queue' = Tail(q), inflight' = I \cup {Attempt(Head(q), 0, "executing")}
  PROVE  Ordered(queue, n)'
<1>1. q \in Seq(Nat) /\ Head(q) # 0 /\ Head(q) \in Entries /\ Tail(q) \in Seq(Entries)
  BY EntriesFact
<1>2. /\ \A i \in DOMAIN Tail(q) : Tail(q)[i] # 0 => Head(q) < Tail(q)[i]
      /\ Head(q) < n
  BY <1>1, HeadFact DEF Ordered
<1>3. \A i \in DOMAIN Tail(q) : Tail(q)[i] # 0
  BY <1>1, EntriesFact
<1>4. Ordered(Tail(q), n)
  BY <1>1, TailStretch, OrderedStretch
<1>5. Attempt(Head(q), 0, "executing").entry = Head(q)
  BY DEF Attempt
<1> QED
  BY <1>2, <1>3, <1>4, <1>5 DEF Ordered

LEMMA DrainOrder ==
  ASSUME TypeOK, NEW q \in Seq(Entries), NEW n \in Nat, Ordered(q, n), NEW c, Drain(q, c)
  PROVE  Ordered(queue, n)'
<1>1. CASE queue' = q /\ UNCHANGED inflight
  BY <1>1 DEF Ordered
<1>2. CASE /\ q # <<>> /\ queue' = Tail(q)
           /\ inflight' = inflight \cup {Attempt(Head(q), 0, "executing")}
  BY <1>2, TakeOrder
<1> QED
  BY <1>1, <1>2 DEF Drain

LEMMA NextItemOrder ==
  ASSUME TypeOK, NEW n \in Nat, Ordered(queue, n), NEW item \in inflight, NextItem(item)
  PROVE  Ordered(queue, n)'
<1>0. queue \in Seq(Entries)
  BY DEF TypeOK
<1>1. CASE UNCHANGED queue /\ inflight' = inflight \ {item}
  BY <1>1 DEF Ordered
<1>2. CASE /\ queue # <<>> /\ queue' = Tail(queue)
           /\ inflight' = (inflight \ {item}) \cup {Attempt(Head(queue), 0, "executing")}
  <2>1. inflight \ {item} \subseteq inflight
    OBVIOUS
  <2> QED
    BY <1>0, <1>2, <2>1, TakeOrder
<1> QED
  BY <1>1, <1>2 DEF NextItem

(* Asking for the deletion, and for the append of a new entry. *)
LEMMA ClearOrder ==
  ASSUME TypeOK, NEW c \in Ops, NEW n \in Nat, FileOrdered(c, n)
  PROVE  FileOrdered(ClearSpool(c), n)
<1>1. c \in Seq(Nat) /\ disk.lines \in Seq(Nat)
  BY EntriesFact DEF Ops, TypeOK
<1>2. FileOrdered(Append(c, 0), n)
  BY <1>1, AppendFact DEF FileOrdered
<1> QED
  BY <1>2 DEF ClearSpool, Delete

LEMMA AppendOrder ==
  ASSUME TypeOK, NEW n \in Entries, FileOrdered(chain, n)
  PROVE  FileOrdered(AppendSpool(n), n + 1) /\ FileOrdered(chain, n + 1)
<1>1. chain \in Seq(Nat) /\ disk.lines \in Seq(Nat)
  BY EntriesFact DEF TypeOK
<1>2. n \in Nat /\ n # 0 /\ n + 1 \in Nat /\ n <= n + 1 /\ n < n + 1
  BY EntriesFact
<1>3. Under(chain, n + 1) /\ Under(disk.lines, n + 1)
  BY <1>1, <1>2, UnderGrows DEF FileOrdered
<1>4. Rising(Append(chain, n)) /\ Below(disk.lines, Append(chain, n)) /\ Under(Append(chain, n), n + 1)
  BY <1>1, <1>2, <1>3, AppendFact DEF FileOrdered
<1> QED
  BY <1>3, <1>4 DEF FileOrdered, AppendSpool

LEMMA DrainFile ==
  ASSUME TypeOK, NEW c \in Ops, NEW n \in Nat, FileOrdered(c, n), NEW q, Drain(q, c)
  PROVE  FileOrdered(chain', n)
<1>1. chain' = c \/ chain' = ClearSpool(c)
  BY DEF Drain
<1> QED
  BY <1>1, ClearOrder

(* A file whose lines rise may have its last line spoiled. *)
LEMMA SpoiledFact ==
  ASSUME NEW s \in Seq(Nat)
  PROVE  LET t == [s EXCEPT ![Len(s)] = 0]
         IN  /\ Rising(s) => Rising(t)
             /\ \A n : Under(s, n) => Under(t, n)
             /\ \A u : Below(s, u) => Below(t, u)
<1> DEFINE t == [s EXCEPT ![Len(s)] = 0]
<1>1. DOMAIN t = DOMAIN s /\ \A i \in DOMAIN s : t[i] = s[i] \/ t[i] = 0
  OBVIOUS
<1> HIDE DEF t
<1>2. (Rising(s) => Rising(t)) /\ \A n : Under(s, n) => Under(t, n)
  BY <1>1 DEF Rising, Under
<1>3. \A u : Below(s, u) => Below(t, u)
  BY <1>2 DEF Below
<1> QED
  BY <1>2, <1>3 DEF t

(* What the running operation leaves in the file is in order, and before    *)
(* the appends that follow it.                                              *)
LEMMA DiskOrder ==
  ASSUME TypeOK, NEW n \in Nat, FileOrdered(chain, n), chain # <<>>,
         disk' \in Cut(Head(chain)) \cup {Done(Head(chain))}
  PROVE  /\ Rising(disk'.lines) /\ Under(disk'.lines, n)
         /\ Below(disk'.lines, Tail(chain))
         /\ Rising(Tail(chain)) /\ Under(Tail(chain), n)
<1> DEFINE op == Head(chain)  rest == Tail(chain)
<1>1. /\ chain \in Seq(Nat) /\ disk.lines \in Seq(Nat) /\ rest \in Seq(Nat) /\ op \in Nat
  <2>1. chain \in Seq(Nat) /\ disk.lines \in Seq(Nat)
    BY EntriesFact DEF TypeOK
  <2> QED
    BY <2>1
<1>2. Rising(rest) /\ Under(rest, n) /\ Below(disk.lines, rest)
  <2>1. Stretch(rest, chain)
    BY <1>1, TailStretch
  <2> QED
    BY <1>1, <2>1, StretchFact DEF FileOrdered
<1>3. op # 0 => /\ Under(disk.lines, op) /\ op < n
                /\ \A j \in DOMAIN rest : rest[j] # 0 => op < rest[j]
  <2>1. Head(chain) = chain[1] /\ 1 \in DOMAIN chain
    BY <1>1
  <2> QED
    BY <1>1, <2>1, HeadFact DEF FileOrdered, Below
<1> DEFINE Fine(l) == Rising(l) /\ Under(l, n) /\ Below(l, rest)
<1>4. Fine(disk.lines) /\ Fine(<<>>) /\ Fine([disk.lines EXCEPT ![Len(disk.lines)] = 0])
  <2>1. Fine(disk.lines)
    BY <1>2 DEF FileOrdered
  <2>2. Fine(<<>>)
    BY EmptyFact
  <2> QED
    BY <1>1, <2>1, <2>2, SpoiledFact
<1>5. ASSUME NEW x \in {op, 0} PROVE Fine(Append(disk.lines, x))
  <2>1. Rising(Append(disk.lines, x)) /\ Under(Append(disk.lines, x), n)
    BY <1>1, <1>3, <1>4, AppendFact
  <2>2. ASSUME NEW j \in DOMAIN rest, rest[j] # 0
        PROVE  Under(Append(disk.lines, x), rest[j])
    <3>1. Under(disk.lines, rest[j]) /\ rest[j] \in Nat
      <4>1. Below(disk.lines, rest) /\ rest \in Seq(Nat)
        BY <1>1, <1>4
      <4> HIDE DEF rest, Fine, op
      <4> QED
        BY <2>2, <4>1 DEF Below
    <3>2. x # 0 => x < rest[j]
      BY <1>3, <2>2
    <3> QED
      BY <1>1, <3>1, <3>2, AppendFact
  <2> QED
    BY <2>1, <2>2 DEF Below
<1>6. \A x \in {op, 0} : Fine(Written(x).lines)
  BY <1>4, <1>5 DEF Written, Corrupt
<1>7. \A x : [Written(x) EXCEPT !.torn = TRUE].lines = Written(x).lines
  BY DEF Written
<1>8. NoSpool.lines = <<>>
  BY DEF NoSpool
<1>9. \/ disk' \in {disk, NoSpool}
      \/ \E x \in {op, 0} : disk' = Written(x) \/ disk' = [Written(x) EXCEPT !.torn = TRUE]
  BY DEF Cut, Done, CutShort, Corrupt
<1>10. Fine(disk'.lines)
  <2>1. CASE disk' \in {disk, NoSpool}
    BY <1>4, <1>8, <2>1
  <2>2. ASSUME NEW x \in {op, 0}, disk' = Written(x) \/ disk' = [Written(x) EXCEPT !.torn = TRUE]
        PROVE  Fine(disk'.lines)
    <3>1. disk'.lines = Written(x).lines
      BY <1>7, <2>2
    <3> QED
      BY <1>6, <3>1
  <2> QED
    BY <1>9, <2>1, <2>2
<1> QED
  BY <1>2, <1>10

(* A process that is up has nothing to replay, and stays so. *)
LEMMA UpRest ==
  ASSUME RestInv, phase = "up", UNCHANGED <<phase, unread>>
  PROVE  RestInv'
<1>1. unread' = <<>> /\ phase' = "up"
  BY DEF RestInv
<1> QED
  BY <1>1, EmptyFact DEF RestInv

LEMMA LogOrder == TypeOK /\ OrderInv /\ LogDurable => OrderInv'
<1> SUFFICES ASSUME TypeOK, OrderInv, LogDurable PROVE OrderInv'
  OBVIOUS
<1>0. PICK e \in Nat : e = calls + 1
  BY CountFact
<1>1. /\ e \in Entries /\ e \in Nat /\ e + 1 \in Nat /\ calls' = e
      /\ UNCHANGED <<disk, phase, unread>> /\ phase = "up"
  BY <1>0, BoundAssumption DEF LogDurable, TypeOK, Entries, life
<1>2. /\ queue \in Seq(Entries) /\ queue \in Seq(Nat) /\ chain \in Ops
      /\ AppendSpool(e) \in Ops /\ Survivors \in Seq(Entries) /\ Survivors \in Seq(Nat)
  <2>1. queue \in Seq(Entries) /\ chain \in Ops
    BY DEF TypeOK, Ops
  <2> QED
    BY <1>1, <2>1, ChainType, OverflowType, EntriesFact
<1>3. Ordered(queue, e) /\ Ordered(Survivors, e)
  <2>1. Ordered(queue, e)
    BY <1>0 DEF OrderInv
  <2>2. Stretch(Survivors, queue)
    BY <1>2, SameStretch, TailStretch, FrontStretch DEF Survivors
  <2> QED
    BY <1>1, <1>2, <2>1, <2>2, OrderedStretch
<1>4. /\ Ordered(Append(queue, e), e + 1) /\ Ordered(Append(Survivors, e), e + 1)
      /\ Append(queue, e) \in Seq(Entries) /\ Append(Survivors, e) \in Seq(Entries)
  BY <1>1, <1>2, <1>3, OrderedAppend
<1>5. Ordered(queue, e + 1) /\ Ordered(Survivors, e + 1)
  <2>1. e <= e + 1
    BY <1>1
  <2>2. \A item \in inflight : item.entry \in Nat
    BY EntriesFact DEF TypeOK
  <2>3. \A item \in inflight : item.entry < e => item.entry < e + 1
    BY <1>1, <2>2
  <2> QED
    BY <1>1, <1>2, <1>3, <2>1, <2>3, UnderGrows DEF Ordered
<1>6. FileOrdered(AppendSpool(e), e + 1) /\ FileOrdered(chain, e + 1)
  BY <1>0, <1>1, AppendOrder DEF OrderInv
<1>7. Ordered(queue, e + 1)' /\ FileOrdered(chain', e + 1)
  <2>1. CASE Drain(Append(queue, e), AppendSpool(e)) \/ Drain(Append(Survivors, e), AppendSpool(e))
             \/ Drain(queue, chain)
    BY <1>1, <1>2, <1>4, <1>5, <1>6, <2>1, DrainOrder, DrainFile
  <2>2. CASE queue' = Survivors /\ UNCHANGED <<inflight, processing, chain>>
    <3>1. Ordered(queue, e + 1)'
      BY <1>5, <2>2 DEF Ordered
    <3> QED
      BY <1>6, <2>2, <3>1
  <2> QED
    BY <1>0, <2>1, <2>2 DEF LogDurable
<1>8. FileOrdered(chain, e + 1)'
  BY <1>1, <1>7 DEF FileOrdered
<1> QED
  BY <1>1, <1>7, <1>8, UpRest DEF OrderInv

LEMMA DrainStepOrder == TypeOK /\ OrderInv /\ DrainStep => OrderInv'
<1> SUFFICES ASSUME TypeOK, OrderInv, NEW item \in inflight,
                    \/ AttemptSucceeds(item)
                    \/ AttemptFails(item)
                    \/ AttemptExhausted(item)
             PROVE  OrderInv'
  BY DEF DrainStep
<1>1. /\ calls + 1 \in Nat /\ chain \in Ops /\ phase = "up"
  BY CountFact DEF TypeOK, Ops, OrderInv, RestInv
<1>2. UNCHANGED <<calls, disk, phase, unread>>
  BY DEF AttemptSucceeds, AttemptFails, AttemptExhausted, spool, life
<1>3. FileOrdered(ClearSpool(chain), calls + 1) /\ FileOrdered(chain, calls + 1)
  BY <1>1, ClearOrder DEF OrderInv
<1>4. Ordered(queue, calls + 1)' /\ (chain' = chain \/ chain' = ClearSpool(chain))
  <2>1. CASE NextItem(item)
    <3>1. Ordered(queue, calls + 1)'
      BY <1>1, <1>2, <2>1, NextItemOrder DEF OrderInv, Ordered
    <3> QED
      BY <1>2, <2>1, <3>1 DEF NextItem
  <2>2. CASE AttemptFails(item)
    <3>1. Attempt(item.entry, item.attempt + 1, "backoff").entry = item.entry
      BY DEF Attempt
    <3> QED
      BY <1>2, <2>2, <3>1 DEF AttemptFails, OrderInv, Ordered, spool
  <2>3. CASE UNCHANGED queue /\ inflight' = inflight \ {item} /\ chain' = ClearSpool(chain)
    BY <1>2, <2>3 DEF OrderInv, Ordered
  <2> QED
    BY <2>1, <2>2, <2>3 DEF AttemptSucceeds, AttemptExhausted
<1>5. FileOrdered(chain, calls + 1)'
  BY <1>2, <1>3, <1>4 DEF FileOrdered
<1> QED
  BY <1>1, <1>2, <1>4, <1>5, UpRest DEF OrderInv

LEMMA FlushOrder ==
  ASSUME TypeOK, OrderInv, NEW f \in Flushers,
         \/ CallFlush(f, FALSE) \/ CallFlush(f, TRUE)
         \/ DeadlinePasses(f) \/ FlushWakes(f) \/ FlushResolves(f)
  PROVE  OrderInv'
<1>1. calls + 1 \in Nat /\ chain \in Ops /\ queue \in Seq(Nat)
  BY CountFact, EntriesFact DEF TypeOK, Ops
<1>2. phase = "up"
  <2>1. phase # "up" => flush[f] = Idle
    BY DEF OrderInv, RestInv
  <2> QED
    BY <2>1 DEF CallFlush, DeadlinePasses, FlushWakes, FlushResolves, Idle
<1>3. UNCHANGED <<calls, inflight, processing, disk, phase, unread>>
  BY DEF CallFlush, DeadlinePasses, FlushWakes, FlushResolves, work, spool, life
<1>4. (queue' = queue \/ (queue' \in Seq(Nat) /\ Stretch(queue', queue)))
      /\ (chain' = chain \/ chain' = ClearSpool(chain))
  <2>1. ASSUME NEW n, LeaveFlush(f, n)
        PROVE  /\ queue' \in Seq(Nat) /\ Stretch(queue', queue)
               /\ chain' = chain \/ chain' = ClearSpool(chain)
    <3>1. CASE queue' = <<>>
      <4>1. Len(<<>>) + 0 <= Len(queue) /\ \A i \in 1..Len(<<>>) : <<>>[i] = queue[i + 0]
        BY <1>1
      <4> QED
        BY <2>1, <3>1, <4>1, EmptyFact DEF Stretch, LeaveFlush
    <3>2. ASSUME NEW k \in DOMAIN queue, queue' = SubSeq(queue, k + 1, Len(queue))
          PROVE  queue' \in Seq(Nat) /\ Stretch(queue', queue)
      <4>1. k \in 1..Len(queue)
        BY <1>1
      <4> QED
        BY <1>1, <3>2, <4>1, RestStretch
    <3> QED
      BY <2>1, <3>1, <3>2 DEF LeaveFlush
  <2> QED
    BY <2>1 DEF CallFlush, DeadlinePasses, FlushWakes, FlushResolves, work, spool
<1>5. Ordered(queue', calls + 1)
  BY <1>1, <1>4, OrderedStretch DEF OrderInv
<1>6. FileOrdered(chain', calls + 1)
  BY <1>1, <1>4, ClearOrder DEF OrderInv
<1> QED
  BY <1>2, <1>3, <1>5, <1>6, UpRest DEF OrderInv, Ordered, FileOrdered

LEMMA CrashOrder == TypeOK /\ OrderInv /\ Crash => OrderInv'
<1> SUFFICES ASSUME TypeOK, OrderInv, Crash PROVE OrderInv'
  OBVIOUS
<1>1. calls' = calls /\ calls + 1 \in Nat
  BY CountFact DEF Crash
<1>2. Rising(disk'.lines) /\ Under(disk'.lines, calls + 1)
  <2>1. CASE chain = <<>>
    BY <2>1 DEF Crash, OrderInv, FileOrdered
  <2>2. CASE chain # <<>>
    BY <1>1, <2>2, DiskOrder DEF Crash, OrderInv
  <2> QED
    BY <2>1, <2>2
<1>3. /\ queue' = <<>> /\ inflight' = {} /\ ~processing' /\ chain' = <<>> /\ unread' = <<>>
      /\ flush' = [f \in Flushers |-> Idle] /\ phase' = "down"
  BY DEF Crash
<1>4. Ordered(queue, calls + 1)' /\ FileOrdered(chain, calls + 1)'
  BY <1>1, <1>2, <1>3, EmptyFact DEF Ordered, FileOrdered
<1>5. RestInv'
  BY <1>1, <1>3, EmptyFact DEF RestInv
<1> QED
  BY <1>4, <1>5 DEF OrderInv

LEMMA RestartOrder == TypeOK /\ OrderInv /\ Restart => OrderInv'
<1> SUFFICES ASSUME TypeOK, OrderInv, Restart PROVE OrderInv'
  OBVIOUS
<1>1. /\ phase = "down" /\ phase' = "recovering"
      /\ UNCHANGED <<calls, queue, inflight, processing, chain, disk, flush>>
  BY DEF Restart, work, spool
<1>2. queue = <<>>
  BY <1>1 DEF OrderInv, RestInv
<1>3. Rising(unread') /\ Under(unread', calls + 1)
  BY EmptyFact DEF Restart, OrderInv, FileOrdered
<1>4. RestInv'
  BY <1>1, <1>2, <1>3, EmptyFact DEF OrderInv, RestInv
<1> QED
  BY <1>1, <1>4 DEF OrderInv, Ordered, FileOrdered

LEMMA RecoverLineOrder == TypeOK /\ OrderInv /\ RecoverLine => OrderInv'
<1> SUFFICES ASSUME TypeOK, OrderInv, RecoverLine PROVE OrderInv'
  OBVIOUS
<1>1. /\ phase = "recovering" /\ phase' = phase /\ unread # <<>> /\ unread' = Tail(unread)
      /\ UNCHANGED <<calls, inflight, processing, chain, disk, flush>>
  BY DEF RecoverLine, spool
<1>2. /\ queue \in Seq(Nat) /\ unread \in Seq(Nat) /\ Tail(unread) \in Seq(Nat)
      /\ Head(unread) \in Nat /\ calls + 1 \in Nat
  <2>1. queue \in Seq(Nat) /\ unread \in Seq(Nat) /\ calls + 1 \in Nat
    BY CountFact, EntriesFact DEF TypeOK
  <2> QED
    BY <1>1, <2>1
<1>3. inflight = {} /\ Rising(unread) /\ Under(unread, calls + 1) /\ Below(queue, unread)
  BY <1>1 DEF OrderInv, RestInv
<1>4. Rising(Tail(unread)) /\ Under(Tail(unread), calls + 1) /\ Below(queue, Tail(unread))
  BY <1>1, <1>2, <1>3, TailStretch, StretchFact
<1>5. CASE Head(unread) = 0
  <2>1. queue' = queue
    BY <1>5 DEF RecoverLine, Corrupt
  <2> QED
    BY <1>1, <1>3, <1>4, <2>1 DEF OrderInv, Ordered, FileOrdered, RestInv
<1>6. CASE Head(unread) # 0
  <2> DEFINE e == Head(unread)
  <2>1. queue' = Append(queue, e)
    BY <1>6 DEF RecoverLine, Corrupt
  <2>2. /\ \A i \in DOMAIN Tail(unread) : Tail(unread)[i] # 0 => e < Tail(unread)[i]
        /\ e < calls + 1
    BY <1>1, <1>2, <1>3, <1>6, HeadFact
  <2>3. Under(queue, e)
    <3>1. Head(unread) = unread[1] /\ 1 \in DOMAIN unread
      BY <1>1, <1>2
    <3> QED
      BY <1>3, <1>6, <3>1 DEF Below
  <2>4. Rising(queue') /\ Under(queue', calls + 1)
    BY <1>2, <2>1, <2>2, <2>3, AppendFact DEF OrderInv, Ordered
  <2>5. Below(queue', Tail(unread))
    <3> SUFFICES ASSUME NEW j \in DOMAIN Tail(unread), Tail(unread)[j] # 0
                 PROVE  Under(queue', Tail(unread)[j])
      BY DEF Below
    <3>1. Under(queue, Tail(unread)[j]) /\ e < Tail(unread)[j] /\ Tail(unread)[j] \in Nat
      BY <1>2, <1>4, <2>2 DEF Below
    <3> QED
      BY <1>2, <2>1, <3>1, AppendFact
  <2>6. Ordered(queue, calls + 1)'
    BY <1>1, <1>3, <2>4 DEF Ordered
  <2>7. RestInv'
    BY <1>1, <1>4, <2>5 DEF OrderInv, RestInv
  <2> QED
    BY <1>1, <2>6, <2>7 DEF OrderInv, FileOrdered
<1> QED
  BY <1>5, <1>6

LEMMA RecoveredOrder == TypeOK /\ OrderInv /\ Recovered => OrderInv'
<1> SUFFICES ASSUME TypeOK, OrderInv, Recovered PROVE OrderInv'
  OBVIOUS
<1>1. /\ unread = <<>> /\ unread' = <<>> /\ phase' = "up" /\ UNCHANGED <<calls, disk>>
      /\ calls + 1 \in Nat /\ queue \in Seq(Entries) /\ chain \in Ops
  BY CountFact DEF Recovered, TypeOK, Ops
<1>2. RestInv'
  BY <1>1, EmptyFact DEF RestInv
<1>3. Ordered(queue, calls + 1)' /\ FileOrdered(chain', calls + 1)
  <2>1. CASE Drain(queue, chain)
    BY <1>1, <2>1, DrainOrder, DrainFile DEF OrderInv, Ordered
  <2>2. CASE UNCHANGED <<work, chain>>
    BY <1>1, <2>2 DEF OrderInv, Ordered, work
  <2> QED
    BY <2>1, <2>2 DEF Recovered
<1> QED
  BY <1>1, <1>2, <1>3 DEF OrderInv, Ordered, FileOrdered

LEMMA OrderStep == TypeOK /\ OrderInv /\ [Next]_vars => OrderInv'
<1> SUFFICES ASSUME TypeOK, OrderInv, [Next]_vars PROVE OrderInv'
  OBVIOUS
<1>1. ASSUME UNCHANGED <<work, chain, disk, phase, unread, flush>>,
             calls' \in Nat, calls <= calls'
      PROVE  OrderInv'
  <2>1. /\ disk.lines \in Seq(Nat) /\ queue \in Seq(Nat) /\ chain \in Seq(Nat)
        /\ unread \in Seq(Nat) /\ calls \in Nat
    BY CountFact, EntriesFact DEF TypeOK
  <2>2. calls + 1 \in Nat /\ calls' + 1 \in Nat /\ calls + 1 <= calls' + 1
    <3>1. \A a, b \in Nat : a <= b => a + 1 \in Nat /\ b + 1 \in Nat /\ a + 1 <= b + 1
      OBVIOUS
    <3> QED
      BY <1>1, <2>1, <3>1
  <2>3. /\ Under(queue, calls' + 1) /\ Under(disk.lines, calls' + 1)
        /\ Under(chain, calls' + 1) /\ Under(unread, calls' + 1)
    BY <2>1, <2>2, UnderGrows DEF OrderInv, Ordered, FileOrdered, RestInv
  <2>4. \A item \in inflight : item.entry < calls' + 1
    <3>1. \A item \in inflight : item.entry \in Nat
      BY EntriesFact DEF TypeOK
    <3> QED
      BY <1>1, <2>1, <3>1 DEF OrderInv, Ordered
  <2>5. /\ queue' = queue /\ inflight' = inflight /\ processing' = processing /\ chain' = chain
        /\ disk' = disk /\ phase' = phase /\ unread' = unread /\ flush' = flush
    BY <1>1 DEF work
  <2>6. Ordered(queue, calls + 1)'
    BY <2>3, <2>4, <2>5 DEF OrderInv, Ordered
  <2>7. FileOrdered(chain, calls + 1)'
    BY <2>3, <2>5 DEF OrderInv, FileOrdered
  <2>8. RestInv'
    BY <2>3, <2>5 DEF OrderInv, RestInv
  <2> QED
    BY <2>6, <2>7, <2>8 DEF OrderInv
<1>2. CASE LogDirect
  <2>1. calls \in Nat /\ calls' \in Nat /\ calls <= calls'
    BY <1>2, CountFact DEF LogDirect
  <2> QED
    BY <1>1, <1>2, <2>1 DEF LogDirect, spool, life
<1>3. ASSUME NEW e \in direct, DirectSettles(e) PROVE OrderInv'
  BY <1>1, <1>3, CountFact DEF DirectSettles, spool, life
<1>4. ASSUME NEW item \in inflight, BackoffEnds(item) PROVE OrderInv'
  <2>1. Attempt(item.entry, item.attempt, "executing").entry = item.entry
    BY DEF Attempt
  <2>2. UNCHANGED <<calls, queue, processing, chain, disk, phase, unread, flush>>
    BY <1>4 DEF BackoffEnds, spool, life
  <2>3. phase = "up"
    BY DEF OrderInv, RestInv
  <2>4. Ordered(queue, calls + 1)'
    BY <1>4, <2>1, <2>2 DEF OrderInv, Ordered, BackoffEnds
  <2> QED
    BY <2>2, <2>3, <2>4, UpRest DEF OrderInv, FileOrdered
<1>5. CASE DiskOpSettles
  <2>1. /\ phase = "up" /\ chain # <<>> /\ chain' = Tail(chain)
        /\ disk' \in Cut(Head(chain)) \cup {Done(Head(chain))}
        /\ UNCHANGED <<calls, queue, inflight, phase, unread>>
    BY <1>5 DEF DiskOpSettles, work, life
  <2>2. FileOrdered(chain, calls + 1)'
    BY <2>1, CountFact, DiskOrder DEF OrderInv, FileOrdered
  <2> QED
    BY <2>1, <2>2, UpRest DEF OrderInv, Ordered
<1>6. CASE UNCHANGED vars
  BY <1>1, <1>6, CountFact DEF vars, spool, life
<1> QED
  BY <1>2, <1>3, <1>4, <1>5, <1>6, LogOrder, DrainStepOrder, FlushOrder, CrashOrder,
     RestartOrder, RecoverLineOrder, RecoveredOrder DEF Next

LEMMA OrderCorrect == Spec => []OrderInv
<1>1. Init => OrderInv
  BY EmptyFact DEF Init, OrderInv, Ordered, FileOrdered, RestInv, NoSpool
<1>2. TypeOK /\ OrderInv /\ [Next]_vars => OrderInv'
  BY OrderStep
<1> QED
  BY <1>1, <1>2, TypeCorrect, PTL DEF Spec

(* The backlog is in the order of the log() calls, through every overflow,  *)
(* flush, fault, death and replay                                           *)
(* (src/logger/transports/DurableAdapterTransport.ts:360-412).              *)
THEOREM BacklogInOrderHolds == Spec => []BacklogInOrder
<1>1. TypeOK /\ OrderInv => BacklogInOrder
  <2> SUFFICES ASSUME TypeOK, OrderInv PROVE BacklogInOrder
    OBVIOUS
  <2>1. \A i \in DOMAIN queue : queue[i] # 0
    BY EntriesFact DEF TypeOK
  <2> QED
    BY <2>1 DEF OrderInv, Ordered, Rising, BacklogInOrder
<1> QED
  BY <1>1, TypeCorrect, OrderCorrect, PTL

-----------------------------------------------------------------------------
(* What is in a queue after entries were taken from it.                     *)

(* t is s without its first d elements and some of its last. *)
Slice(t, s, d) == Len(t) + d <= Len(s) /\ \A i \in 1..Len(t) : t[i] = s[i + d]

LEMMA SliceRange ==
  ASSUME NEW s \in Seq(Entries), NEW t \in Seq(Entries), NEW d \in Nat, Slice(t, s, d)
  PROVE  \A x : x \in Range(t) <=> \E j \in DOMAIN s : d < j /\ j <= Len(t) + d /\ x = s[j]
<1>1. /\ Len(s) \in Nat /\ DOMAIN s = 1..Len(s) /\ Len(t) \in Nat /\ DOMAIN t = 1..Len(t)
      /\ Len(t) + d <= Len(s)
  BY DEF Slice
<1>2. \A i \in 1..Len(t) : i + d \in 1..Len(s) /\ d < i + d /\ i + d <= Len(t) + d /\ t[i] = s[i + d]
  BY <1>1 DEF Slice
<1>3. ASSUME NEW j \in DOMAIN s, d < j, j <= Len(t) + d PROVE s[j] \in Range(t)
  <2>1. j - d \in 1..Len(t) /\ (j - d) + d = j
    BY <1>1, <1>3
  <2>2. t[j - d] = s[j]
    BY <1>2, <2>1
  <2> QED
    BY <1>1, <2>1, <2>2 DEF Range
<1>4. ASSUME NEW x \in Range(t)
      PROVE  \E j \in DOMAIN s : d < j /\ j <= Len(t) + d /\ x = s[j]
  <2>1. PICK i \in 1..Len(t) : x = t[i]
    BY <1>1 DEF Range
  <2> QED
    BY <1>1, <1>2, <2>1
<1> QED
  BY <1>3, <1>4

LEMMA RangeFact ==
  ASSUME NEW s \in Seq(Entries), Rising(s)
  PROVE  /\ \A e \in Entries : Range(Append(s, e)) = Range(s) \cup {e}
         /\ s # <<>> => /\ Range(Tail(s)) = Range(s) \ {Head(s)}
                        /\ Head(s) \in Range(s)
                        /\ Range(Front(s)) = Range(s) \ {Last(s)}
                        /\ Last(s) \in Range(s)
         /\ \A k \in DOMAIN s :
              Range(SubSeq(s, k + 1, Len(s))) = Range(s) \ {s[i] : i \in 1..k}
<1>1. /\ Len(s) \in Nat /\ DOMAIN s = 1..Len(s)
      /\ \A i \in DOMAIN s : s[i] \in Entries /\ s[i] \in Nat /\ s[i] # 0
      /\ Range(s) = {s[i] : i \in 1..Len(s)}
  BY EntriesFact DEF Range
<1>2. \A i, j \in DOMAIN s : i # j => s[i] # s[j]
  BY <1>1 DEF Rising
<1>3. \A e \in Entries : Range(Append(s, e)) = Range(s) \cup {e}
  <2> SUFFICES ASSUME NEW e \in Entries PROVE Range(Append(s, e)) = Range(s) \cup {e}
    OBVIOUS
  <2>1. /\ DOMAIN Append(s, e) = 1..Len(s) + 1
        /\ \A i \in 1..Len(s) : Append(s, e)[i] = s[i]
        /\ Append(s, e)[Len(s) + 1] = e
    OBVIOUS
  <2>2. /\ 1..Len(s) \subseteq 1..Len(s) + 1 /\ Len(s) + 1 \in 1..Len(s) + 1
        /\ \A i \in 1..Len(s) + 1 : i \in 1..Len(s) \/ i = Len(s) + 1
    BY <1>1
  <2>3. \A x : x \in Range(Append(s, e)) <=> x \in Range(s) \/ x = e
    <3>1. Range(Append(s, e)) = {Append(s, e)[i] : i \in 1..Len(s) + 1}
      BY <2>1 DEF Range
    <3> QED
      BY <1>1, <2>1, <2>2, <3>1
  <2> QED
    BY <2>3
<1>4. ASSUME s # <<>>
      PROVE  Range(Tail(s)) = Range(s) \ {Head(s)} /\ Head(s) \in Range(s)
  <2>1. Head(s) = s[1] /\ 1 \in DOMAIN s
    BY <1>1, <1>4
  <2>2. Tail(s) \in Seq(Entries) /\ Slice(Tail(s), s, 1) /\ Len(Tail(s)) + 1 = Len(s)
    BY <1>4 DEF Slice
  <2>3. \A x : x \in Range(Tail(s)) <=> \E j \in DOMAIN s : 1 < j /\ j <= Len(Tail(s)) + 1 /\ x = s[j]
    <3> DEFINE t == Tail(s)
    <3>1. t \in Seq(Entries) /\ Slice(t, s, 1)
      BY <2>2
    <3> HIDE DEF t
    <3>2. \A x : x \in Range(t) <=> \E j \in DOMAIN s : 1 < j /\ j <= Len(t) + 1 /\ x = s[j]
      BY <3>1, SliceRange
    <3> QED
      BY <3>2 DEF t
  <2>4. \A j \in DOMAIN s : (1 < j /\ j <= Len(Tail(s)) + 1) <=> j # 1
    BY <1>1, <2>2
  <2>5. \A x : x \in Range(Tail(s)) <=> \E j \in DOMAIN s : j # 1 /\ x = s[j]
    BY <2>3, <2>4
  <2> QED
    BY <1>1, <1>2, <2>1, <2>5
<1>5. ASSUME s # <<>>
      PROVE  Range(Front(s)) = Range(s) \ {Last(s)} /\ Last(s) \in Range(s)
  <2>1. Last(s) = s[Len(s)] /\ Len(s) \in DOMAIN s
    BY <1>1, <1>5 DEF Last
  <2>2. Front(s) \in Seq(Entries) /\ Slice(Front(s), s, 0) /\ Len(Front(s)) + 0 = Len(s) - 1
    <3>1. Front(s) \in Seq(Entries) /\ Len(Front(s)) = Len(s) - 1
          /\ \A i \in 1..Len(s) - 1 : Front(s)[i] = s[i]
      BY <1>5, FrontProperties
    <3> QED
      BY <1>1, <3>1 DEF Slice
  <2>3. \A x : x \in Range(Front(s)) <=> \E j \in DOMAIN s : 0 < j /\ j <= Len(Front(s)) + 0 /\ x = s[j]
    BY <2>2, SliceRange
  <2>4. \A j \in DOMAIN s : (0 < j /\ j <= Len(Front(s)) + 0) <=> j # Len(s)
    BY <1>1, <2>2
  <2>5. \A x : x \in Range(Front(s)) <=> \E j \in DOMAIN s : j # Len(s) /\ x = s[j]
    BY <2>3, <2>4
  <2> QED
    BY <1>1, <1>2, <2>1, <2>5
<1>6. ASSUME NEW k \in DOMAIN s
      PROVE  Range(SubSeq(s, k + 1, Len(s))) = Range(s) \ {s[i] : i \in 1..k}
  <2> DEFINE t == SubSeq(s, k + 1, Len(s))
  <2>1. k \in Nat /\ k >= 1 /\ k <= Len(s)
    BY <1>1
  <2>2. t \in Seq(Entries) /\ Len(t) = Len(s) - k
    BY <1>1, <2>1, SubSeqProperties
  <2>3. \A i \in 1..Len(t) : t[i] = s[i + k]
    <3>1. \A i \in 1..Len(s) - k : t[i] = s[k + 1 + i - 1]
      BY <1>1, <2>1, SubSeqProperties
    <3>2. \A i \in 1..Len(s) - k : k + 1 + i - 1 = i + k
      BY <1>1, <2>1
    <3> QED
      BY <2>2, <3>1, <3>2
  <2> HIDE DEF t
  <2>4. Slice(t, s, k) /\ Len(t) + k = Len(s)
    BY <1>1, <2>1, <2>2, <2>3 DEF Slice
  <2>5. \A x : x \in Range(t) <=> \E j \in DOMAIN s : k < j /\ j <= Len(t) + k /\ x = s[j]
    BY <2>1, <2>2, <2>4, SliceRange
  <2>6. \A j \in DOMAIN s : (k < j /\ j <= Len(t) + k) <=> j \notin 1..k
    BY <1>1, <2>1, <2>4
  <2>7. \A x : x \in Range(t) <=> \E j \in DOMAIN s : j \notin 1..k /\ x = s[j]
    BY <2>5, <2>6
  <2>8. 1..k \subseteq DOMAIN s
    BY <1>1, <2>1
  <2>9. Range(t) = Range(s) \ {s[i] : i \in 1..k}
    BY <1>1, <1>2, <2>7, <2>8
  <2> QED
    BY <2>9 DEF t
<1> QED
  BY <1>3, <1>4, <1>5, <1>6

Held == {item.entry : item \in inflight}

(* What drain() leaves pending is what it was given. *)
LEMMA DrainBacklog ==
  ASSUME NEW q \in Seq(Entries), Rising(q), NEW c, Drain(q, c)
  PROVE  Backlog' = Range(q) \cup Held
<1>1. CASE queue' = q /\ UNCHANGED inflight
  BY <1>1 DEF Backlog, Held
<1>2. CASE /\ q # <<>> /\ queue' = Tail(q)
           /\ inflight' = inflight \cup {Attempt(Head(q), 0, "executing")}
  <2>1. Range(Tail(q)) = Range(q) \ {Head(q)} /\ Head(q) \in Range(q)
    BY <1>2, RangeFact
  <2>2. Attempt(Head(q), 0, "executing").entry = Head(q)
    BY DEF Attempt
  <2> QED
    BY <1>2, <2>1, <2>2 DEF Backlog, Held
<1> QED
  BY <1>1, <1>2 DEF Drain

(* The loop's next step drops exactly the entry it is done with. *)
LEMMA NextItemBacklog ==
  ASSUME TypeOK, OrderInv, SingleFlight, NEW item \in inflight,
         NextItem(item) \/ (UNCHANGED queue /\ inflight' = inflight \ {item})
  PROVE  Backlog' = Backlog \ {item.entry}
<1>1. inflight = {item} /\ item.entry \notin Range(queue) /\ queue \in Seq(Entries) /\ Rising(queue)
  <2>1. \A i \in DOMAIN queue : item.entry < queue[i] /\ queue[i] \in Nat
    BY EntriesFact DEF TypeOK, OrderInv, Ordered
  <2> QED
    BY <2>1 DEF SingleFlight, Range, TypeOK, OrderInv, Ordered
<1>2. Backlog = Range(queue) \cup {item.entry}
  BY <1>1 DEF Backlog
<1>3. CASE UNCHANGED queue /\ inflight' = inflight \ {item}
  BY <1>1, <1>2, <1>3 DEF Backlog
<1>4. CASE /\ queue # <<>> /\ queue' = Tail(queue)
           /\ inflight' = (inflight \ {item}) \cup {Attempt(Head(queue), 0, "executing")}
  <2>1. Range(Tail(queue)) = Range(queue) \ {Head(queue)} /\ Head(queue) \in Range(queue)
    BY <1>1, <1>4, RangeFact
  <2>2. inflight' = {Attempt(Head(queue), 0, "executing")}
    BY <1>1, <1>4
  <2>3. Backlog' = Range(Tail(queue)) \cup {Head(queue)}
    <3>1. Attempt(Head(queue), 0, "executing").entry = Head(queue)
      BY DEF Attempt
    <3>2. {i.entry : i \in inflight'} = {Head(queue)}
      BY <2>2, <3>1
    <3> QED
      BY <1>4, <3>2 DEF Backlog
  <2> QED
    BY <1>1, <1>2, <2>1, <2>3
<1> QED
  BY <1>3, <1>4 DEF NextItem

(* What a full queue keeps is what it held without its victim. *)
LEMMA SurvivorsFact ==
  ASSUME TypeOK, OrderInv, strategy # "reject", NEW e
  PROVE  /\ Survivors \in Seq(Entries) /\ Rising(Survivors)
         /\ Victim(e) \subseteq Range(queue) /\ Range(Survivors) = Range(queue) \ Victim(e)
         /\ Victim(e) \cap Held = {}
<1>1. queue \in Seq(Entries) /\ queue \in Seq(Nat) /\ Rising(queue)
  BY EntriesFact DEF TypeOK, OrderInv, Ordered
<1>2. \A x \in Range(queue) : x \notin Held
  <2>1. \A i \in DOMAIN queue : queue[i] \in Nat
    BY <1>1
  <2> QED
    BY <2>1 DEF OrderInv, Ordered, Held, Range
<1>3. CASE queue = <<>>
  BY <1>1, <1>3 DEF Victim, Survivors
<1>4. CASE queue # <<>>
  <2>1. /\ Tail(queue) \in Seq(Entries) /\ Front(queue) \in Seq(Entries)
        /\ Rising(Tail(queue)) /\ Rising(Front(queue))
    <3>1. Tail(queue) \in Seq(Entries) /\ Front(queue) \in Seq(Entries)
      BY <1>1, <1>4, FrontProperties
    <3>2. /\ Tail(queue) \in Seq(Nat) /\ Stretch(Tail(queue), queue)
          /\ Front(queue) \in Seq(Nat) /\ Stretch(Front(queue), queue)
      BY <1>1, <1>4, TailStretch, FrontStretch
    <3> QED
      BY <1>1, <3>1, <3>2, StretchFact
  <2> QED
    BY <1>1, <1>2, <1>4, <2>1, RangeFact DEF Victim, Survivors
<1> QED
  BY <1>3, <1>4

(* What LeaveFlush hands to onDrop is what leaves the queue. *)
LEMMA LeaveFlushFact ==
  ASSUME TypeOK, OrderInv, NEW f, NEW n, LeaveFlush(f, n)
  PROVE  \E gone \in SUBSET Range(queue) :
           Range(queue') = Range(queue) \ gone /\ dlq' = dlq \cup gone
<1>1. queue \in Seq(Entries) /\ Rising(queue)
  BY DEF TypeOK, OrderInv, Ordered
<1>2. CASE dlq' = dlq \cup Range(queue) /\ queue' = <<>>
  <2>1. Range(queue') = {}
    BY <1>2 DEF Range
  <2> QED
    BY <1>2, <2>1
<1>3. ASSUME NEW k \in DOMAIN queue, dlq' = dlq \cup {queue[i] : i \in 1..k},
             queue' = SubSeq(queue, k + 1, Len(queue))
      PROVE  \E gone \in SUBSET Range(queue) :
               Range(queue') = Range(queue) \ gone /\ dlq' = dlq \cup gone
  <2>1. Range(queue') = Range(queue) \ {queue[i] : i \in 1..k}
    BY <1>1, <1>3, RangeFact
  <2>2. {queue[i] : i \in 1..k} \subseteq Range(queue)
    <3>1. 1..k \subseteq DOMAIN queue
      BY <1>1
    <3> QED
      BY <3>1 DEF Range
  <2> QED
    BY <1>3, <2>1, <2>2
<1> QED
  BY <1>2, <1>3 DEF LeaveFlush

-----------------------------------------------------------------------------
(* A flush that settled left nothing older in the queue.                    *)

FlushInv ==
  /\ \A f \in Flushers : flush[f].upTo <= calls
  /\ \A f \in Flushers : flush[f].status \in {"settling", "resolved"} =>
       \A x \in Range(queue) : x > flush[f].upTo

LEMMA DrainTakes ==
  ASSUME NEW q \in Seq(Entries), Rising(q), NEW c, Drain(q, c)
  PROVE  Range(queue') \subseteq Range(q)
<1>1. q # <<>> => Range(Tail(q)) \subseteq Range(q)
  BY RangeFact
<1> QED
  BY <1>1 DEF Drain

LEMMA LogQueue ==
  ASSUME TypeOK, OrderInv, LogDurable
  PROVE  Range(queue') \subseteq Range(queue) \cup {calls + 1}
<1> DEFINE e == calls + 1
<1>1. e \in Entries /\ queue \in Seq(Entries) /\ Rising(queue)
  BY BoundAssumption DEF LogDurable, TypeOK, Entries, OrderInv, Ordered
<1>2. Survivors \in Seq(Entries) /\ Rising(Survivors) /\ Range(Survivors) \subseteq Range(queue)
  BY <1>1, SurvivorsFact DEF Survivors
<1>3. /\ Append(queue, e) \in Seq(Entries) /\ Rising(Append(queue, e))
      /\ Append(Survivors, e) \in Seq(Entries) /\ Rising(Append(Survivors, e))
  <2>1. queue \in Seq(Nat) /\ Survivors \in Seq(Nat) /\ e \in Nat
    BY <1>1, <1>2, EntriesFact
  <2>2. Under(queue, e)
    BY DEF OrderInv, Ordered
  <2>3. Under(Survivors, e)
    <3>1. Stretch(Survivors, queue)
      BY <2>1, SameStretch, TailStretch, FrontStretch DEF Survivors
    <3> QED
      BY <2>1, <2>2, <3>1, StretchFact
  <2> HIDE DEF e
  <2> QED
    BY <1>1, <1>2, <2>1, <2>2, <2>3, AppendFact
<1>4. /\ Range(Append(queue, e)) = Range(queue) \cup {e}
      /\ Range(Append(Survivors, e)) = Range(Survivors) \cup {e}
  BY <1>1, <1>2, RangeFact
<1>5. CASE Drain(Append(queue, e), AppendSpool(e))
  BY <1>3, <1>4, <1>5, DrainTakes
<1>6. CASE Drain(queue, chain)
  BY <1>1, <1>6, DrainTakes
<1>7. CASE Drain(Append(Survivors, e), AppendSpool(e))
  BY <1>2, <1>3, <1>4, <1>7, DrainTakes
<1>8. CASE queue' = Survivors
  BY <1>2, <1>8
<1> QED
  BY <1>5, <1>6, <1>7, <1>8 DEF LogDurable

LEMMA FlushKept ==
  ASSUME FlushInv, calls \in Nat, calls' \in Nat, calls <= calls',
         Range(queue') \subseteq Range(queue) \cup {calls + 1},
         flush \in [Flushers -> [status : FlushStatus, ops : Nat, upTo : Nat]],
         \A f \in Flushers : /\ flush'[f].upTo = flush[f].upTo
                             /\ flush'[f].status \in {"settling", "resolved"} =>
                                  flush[f].status \in {"settling", "resolved"}
  PROVE  FlushInv'
<1>1. \A f \in Flushers : flush[f].upTo \in Nat /\ flush[f].upTo <= calls
  BY DEF FlushInv
<1>2. \A f \in Flushers : calls + 1 > flush[f].upTo /\ flush[f].upTo <= calls'
  BY <1>1
<1> QED
  BY <1>2 DEF FlushInv

LEMMA FlushLeft ==
  ASSUME TypeOK, OrderInv, FlushInv, NEW f \in Flushers,
         CallFlush(f, FALSE) \/ CallFlush(f, TRUE) \/ FlushWakes(f)
  PROVE  FlushInv'
<1>1. /\ calls \in Nat /\ calls' = calls /\ queue \in Seq(Entries)
      /\ flush \in [Flushers -> [status : FlushStatus, ops : Nat, upTo : Nat]]
  BY CountFact DEF TypeOK, CallFlush, FlushWakes
<1>2. ASSUME NEW n \in Nat, n <= calls, LeaveFlush(f, n) PROVE FlushInv'
  <2>1. Range(queue') \subseteq Range(queue)
    BY <1>2, LeaveFlushFact
  <2>2. \A g \in Flushers \ {f} : flush'[g] = flush[g]
    BY <1>1, <1>2 DEF LeaveFlush
  <2>3. flush'[f].upTo = n /\ (flush'[f].status = "rejected" \/ queue' = <<>>)
    <3> DEFINE Left == [status |-> "settling", ops |-> Len(chain'), upTo |-> n]
               Gone == [status |-> "rejected", ops |-> 0, upTo |-> n]
    <3>1. Left.upTo = n /\ Gone.upTo = n /\ Gone.status = "rejected"
      OBVIOUS
    <3>2. CASE queue' = <<>> /\ flush' = [flush EXCEPT ![f] = Left]
      <4>1. flush'[f] = Left
        BY <1>1, <3>2
      <4> QED
        BY <3>1, <3>2, <4>1
    <3>3. CASE flush' = [flush EXCEPT ![f] = Gone]
      <4>1. flush'[f] = Gone
        BY <1>1, <3>3
      <4> QED
        BY <3>1, <4>1
    <3> QED
      BY <1>2, <3>2, <3>3 DEF LeaveFlush
  <2>4. queue' = <<>> => Range(queue') = {}
    BY DEF Range
  <2> QED
    BY <1>1, <1>2, <2>1, <2>2, <2>3, <2>4 DEF FlushInv
<1>3. CASE UNCHANGED queue /\ flush' = [flush EXCEPT ![f] =
                                          [status |-> "waiting", ops |-> 0, upTo |-> calls]]
  <2>1. \A g \in Flushers \ {f} : flush'[g] = flush[g]
    BY <1>1, <1>3
  <2>2. flush'[f].upTo = calls /\ flush'[f].status = "waiting"
    BY <1>1, <1>3
  <2> QED
    BY <1>1, <1>3, <2>1, <2>2 DEF FlushInv
<1>4. CASE FlushWakes(f)
  <2>1. LeaveFlush(f, flush[f].upTo) /\ flush[f].upTo \in Nat /\ flush[f].upTo <= calls
    BY <1>1, <1>4 DEF FlushWakes, FlushInv
  <2> QED
    BY <1>2, <2>1
<1> QED
  BY <1>1, <1>2, <1>3, <1>4 DEF CallFlush

LEMMA FlushStep == TypeOK /\ OrderInv /\ FlushInv /\ [Next]_vars => FlushInv'
<1> SUFFICES ASSUME TypeOK, OrderInv, FlushInv, [Next]_vars PROVE FlushInv'
  OBVIOUS
<1>1. /\ calls \in Nat /\ queue \in Seq(Entries) /\ Rising(queue)
      /\ flush \in [Flushers -> [status : FlushStatus, ops : Nat, upTo : Nat]]
  BY CountFact DEF TypeOK, OrderInv, Ordered
<1>2. ASSUME UNCHANGED <<calls, flush>>, Range(queue') \subseteq Range(queue) PROVE FlushInv'
  BY <1>1, <1>2, FlushKept
<1>3. ASSUME flush' = [g \in Flushers |-> Idle], calls' = calls PROVE FlushInv'
  BY <1>1, <1>3 DEF FlushInv, Idle
<1>4. CASE LogDurable
  <2>1. calls' = calls + 1 /\ flush' = flush
    BY <1>4 DEF LogDurable
  <2>2. calls' \in Nat /\ calls <= calls'
    BY <1>1, <2>1
  <2> QED
    BY <1>1, <1>4, <2>1, <2>2, LogQueue, FlushKept
<1>5. CASE LogDirect
  <2>1. calls' = calls + 1 /\ flush' = flush /\ queue' = queue
    BY <1>5 DEF LogDirect, work
  <2>2. calls' \in Nat /\ calls <= calls'
    BY <1>1, <2>1
  <2> QED
    BY <1>1, <2>1, <2>2, FlushKept
<1>6. CASE DrainStep
  <2>1. queue # <<>> => Range(Tail(queue)) \subseteq Range(queue)
    BY <1>1, RangeFact
  <2>2. UNCHANGED <<calls, flush>> /\ Range(queue') \subseteq Range(queue)
    BY <1>6, <2>1 DEF DrainStep, AttemptSucceeds, AttemptFails, AttemptExhausted, NextItem
  <2> QED
    BY <1>2, <2>2
<1>7. ASSUME NEW f \in Flushers, DeadlinePasses(f) \/ FlushResolves(f) PROVE FlushInv'
  <2>1. /\ calls' = calls /\ queue' = queue
        /\ \A g \in Flushers : /\ flush'[g].upTo = flush[g].upTo
                               /\ flush'[g].status \in {"settling", "resolved"} =>
                                    flush[g].status \in {"settling", "resolved"}
    <3>1. calls' = calls /\ queue' = queue
      BY <1>7 DEF DeadlinePasses, FlushResolves, work
    <3>2. ASSUME NEW status, flush' = [flush EXCEPT ![f].status = status],
                 status = "expired" \/ flush[f].status = "settling", NEW g \in Flushers
          PROVE  /\ flush'[g].upTo = flush[g].upTo
                 /\ status # "expired" => flush[f].status = "settling"
                 /\ flush'[g].status = IF g = f THEN status ELSE flush[g].status
      BY <1>1, <3>2
    <3>3. CASE DeadlinePasses(f)
      <4>1. flush' = [flush EXCEPT ![f].status = "expired"]
        BY <3>3 DEF DeadlinePasses
      <4> QED
        BY <3>1, <3>2, <4>1
    <3>4. CASE FlushResolves(f)
      <4>1. flush' = [flush EXCEPT ![f].status = "resolved"] /\ flush[f].status = "settling"
        BY <3>4 DEF FlushResolves
      <4> QED
        BY <3>1, <3>2, <4>1
    <3> QED
      BY <1>7, <3>3, <3>4
  <2> QED
    BY <1>1, <2>1, FlushKept
<1>8. CASE DiskOpSettles
  <2>1. /\ calls' = calls /\ queue' = queue
        /\ \A g \in Flushers : flush'[g].upTo = flush[g].upTo /\ flush'[g].status = flush[g].status
    BY <1>1, <1>8 DEF DiskOpSettles, work
  <2> QED
    BY <1>1, <2>1, FlushKept
<1>9. CASE Crash
  BY <1>3, <1>9 DEF Crash
<1>10. CASE Restart \/ RecoverLine \/ Recovered
  <2>1. phase # "up"
    BY <1>10 DEF Restart, RecoverLine, Recovered
  <2>2. flush = [g \in Flushers |-> Idle]
    BY <2>1 DEF OrderInv, RestInv
  <2> QED
    BY <1>3, <1>10, <2>2 DEF Restart, RecoverLine, Recovered
<1>11. ASSUME NEW f \in Flushers, CallFlush(f, FALSE) \/ CallFlush(f, TRUE) \/ FlushWakes(f)
       PROVE  FlushInv'
  BY <1>11, FlushLeft
<1> QED
  BY <1>2, <1>4, <1>5, <1>6, <1>7, <1>8, <1>9, <1>10, <1>11
     DEF Next, DirectSettles, BackoffEnds, vars, work

(* What was logged before a flush() or shutdown() is out of the queue when  *)
(* the call settles, whatever else happened meanwhile                       *)
(* (src/logger/transports/DurableAdapterTransport.ts:436).                  *)
THEOREM FlushEmptiesQueueHolds == Spec => []FlushEmptiesQueue
<1>1. Init => FlushInv
  <2>1. calls = 0 => calls <= calls
    OBVIOUS
  <2> QED
    BY <2>1 DEF Init, FlushInv, Idle
<1>2. TypeOK /\ OrderInv /\ FlushInv /\ [Next]_vars => FlushInv'
  BY FlushStep
<1>3. FlushInv => FlushEmptiesQueue
  BY DEF FlushInv, FlushEmptiesQueue, Range
<1> QED
  BY <1>1, <1>2, <1>3, TypeCorrect, OrderCorrect, PTL DEF Spec

-----------------------------------------------------------------------------
(* The contract.                                                            *)

NoDeath == MaxCrashes = 0

(* What is pending was accepted, and nothing has an outcome before it was   *)
(* logged.                                                                  *)
ContractInv ==
  /\ phase = "up"
  /\ Backlog \subseteq accepted
  /\ \A x \in accepted \cup delivered \cup dlq \cup direct : x <= calls
  /\ direct \cap accepted = {}

ContractStutter == UNCHANGED <<accepted, Backlog, delivered \cap accepted, dlq \cap accepted>>

LEMMA LogContract ==
  ASSUME TypeOK, OrderInv, SingleFlight, ContractInv, LogDurable
  PROVE  ContractInv' /\ (Contract!Next \/ ContractStutter)
<1>0. PICK e \in Nat : e = calls + 1
  BY CountFact
<1>1. /\ e \in Entries /\ queue \in Seq(Entries) /\ Rising(queue)
      /\ UNCHANGED <<phase, direct, delivered>> /\ calls' = e
  BY <1>0, BoundAssumption DEF LogDurable, TypeOK, Entries, OrderInv, Ordered, life
<1>2. \A x \in accepted \cup delivered \cup dlq \cup direct : x \in Nat /\ x <= calls /\ x < e /\ x <= e
  <2>1. \A x \in accepted \cup delivered \cup dlq \cup direct : x \in Nat /\ x <= calls
    BY EntriesFact DEF TypeOK, ContractInv
  <2> QED
    BY <1>0, <2>1, CountFact
<1>3. /\ e \notin accepted /\ e \notin delivered /\ e \notin dlq /\ e \notin direct
      /\ Backlog \subseteq accepted /\ Backlog = Range(queue) \cup Held
  BY <1>2 DEF ContractInv, Backlog, Held
<1>4. Survivors \in Seq(Entries) /\ Rising(Survivors)
  BY <1>1, SurvivorsFact DEF Survivors
<1>5. /\ Append(queue, e) \in Seq(Entries) /\ Rising(Append(queue, e))
      /\ Append(Survivors, e) \in Seq(Entries) /\ Rising(Append(Survivors, e))
      /\ Range(Append(queue, e)) = Range(queue) \cup {e}
      /\ Range(Append(Survivors, e)) = Range(Survivors) \cup {e}
  <2>1. queue \in Seq(Nat) /\ Survivors \in Seq(Nat)
    BY <1>1, <1>4, EntriesFact
  <2>2. Under(queue, e)
    BY <1>0 DEF OrderInv, Ordered
  <2>3. Under(Survivors, e)
    <3>1. Stretch(Survivors, queue)
      BY <2>1, SameStretch, TailStretch, FrontStretch DEF Survivors
    <3> QED
      BY <2>1, <2>2, <3>1, StretchFact
  <2>4. Rising(Append(queue, e)) /\ Rising(Append(Survivors, e))
    BY <1>1, <1>4, <2>1, <2>2, <2>3, AppendFact
  <2> QED
    BY <1>1, <1>4, <2>4, RangeFact
<1>6. ASSUME NEW V \in SUBSET Backlog, Backlog' = (Backlog \ V) \cup {e},
             accepted' = accepted \cup {e}, dlq' = dlq \cup V
      PROVE  ContractInv' /\ (Contract!Next \/ ContractStutter)
  <2>1. ContractInv'
    BY <1>1, <1>2, <1>3, <1>6 DEF ContractInv
  <2>2. delivered' \cap accepted' = delivered \cap accepted
        /\ dlq' \cap accepted' = (dlq \cap accepted) \cup V
    BY <1>1, <1>3, <1>6
  <2>3. Contract!Accept(e, V)
    BY <1>2, <1>6, <2>2 DEF Contract!Accept
  <2> QED
    BY <1>1, <2>1, <2>3 DEF Contract!Next, Contract!Entries, Entries
<1>7. ASSUME NEW V \in SUBSET Backlog, Backlog' = Backlog \ V, UNCHANGED accepted,
             dlq' = dlq \cup V \/ dlq' = dlq \cup V \cup {e}
      PROVE  ContractInv' /\ (Contract!Next \/ ContractStutter)
  <2>1. ContractInv'
    BY <1>1, <1>2, <1>3, <1>7 DEF ContractInv
  <2>2. delivered' \cap accepted' = delivered \cap accepted
        /\ dlq' \cap accepted' = (dlq \cap accepted) \cup V
    BY <1>1, <1>3, <1>7
  <2>3. Contract!Drop(V)
    BY <1>7, <2>2 DEF Contract!Drop
  <2> QED
    BY <2>1, <2>3 DEF Contract!Next
<1>8. CASE /\ Drain(Append(queue, e), AppendSpool(e))
           /\ accepted' = accepted \cup {e} /\ UNCHANGED dlq
  <2>1. PICK V \in SUBSET Backlog : V = {}
    OBVIOUS
  <2>2. Backlog' = (Backlog \ V) \cup {e}
    BY <1>3, <1>5, <1>8, <2>1, DrainBacklog
  <2>3. dlq' = dlq \cup V
    BY <1>8, <2>1
  <2> QED
    BY <1>6, <1>8, <2>2, <2>3
<1>9. CASE strategy = "reject" /\ dlq' = dlq \cup Victim(e) /\ UNCHANGED accepted
           /\ (Drain(queue, chain) \/ (queue' = Survivors /\ UNCHANGED inflight))
  <2>0. PICK V \in SUBSET Backlog : V = {}
    OBVIOUS
  <2>1. Backlog' = Backlog \ V
    <3>1. CASE Drain(queue, chain)
      BY <1>1, <1>3, <2>0, <3>1, DrainBacklog
    <3>2. CASE queue' = Survivors /\ UNCHANGED inflight
      BY <1>9, <2>0, <3>2 DEF Survivors, Backlog
    <3> QED
      BY <1>9, <3>1, <3>2
  <2>2. dlq' = dlq \cup V \cup {e}
    BY <1>9, <2>0 DEF Victim
  <2> QED
    BY <1>7, <1>9, <2>1, <2>2
<1>10. CASE /\ strategy # "reject" /\ dlq' = dlq \cup Victim(e)
            /\ Drain(Append(Survivors, e), AppendSpool(e)) /\ accepted' = accepted \cup {e}
  <2>1. /\ Victim(e) \subseteq Range(queue) /\ Range(Survivors) = Range(queue) \ Victim(e)
        /\ Victim(e) \cap Held = {}
    BY <1>10, SurvivorsFact
  <2>2. Backlog' = Range(Survivors) \cup {e} \cup Held
    BY <1>5, <1>10, DrainBacklog
  <2>3. Backlog' = (Backlog \ Victim(e)) \cup {e}
    BY <1>3, <2>1, <2>2
  <2> QED
    BY <1>3, <1>6, <1>10, <2>1, <2>3
<1>11. CASE /\ strategy # "reject" /\ dlq' = dlq \cup Victim(e)
            /\ queue' = Survivors /\ UNCHANGED <<inflight, accepted>>
  <2>1. /\ Victim(e) \subseteq Range(queue) /\ Range(Survivors) = Range(queue) \ Victim(e)
        /\ Victim(e) \cap Held = {}
    BY <1>11, SurvivorsFact
  <2>2. Backlog' = Range(Survivors) \cup Held
    BY <1>11 DEF Backlog, Held
  <2>3. Backlog' = Backlog \ Victim(e)
    BY <1>3, <2>1, <2>2
  <2> QED
    BY <1>3, <1>7, <1>11, <2>1, <2>3
<1> QED
  BY <1>0, <1>8, <1>9, <1>10, <1>11 DEF LogDurable

(* One outcome for the entry the loop is done with. *)
LEMMA DoneContract ==
  ASSUME TypeOK, OrderInv, SingleFlight, ContractInv, NEW item \in inflight,
         AttemptSucceeds(item) \/ AttemptExhausted(item)
  PROVE  ContractInv' /\ (Contract!Next \/ ContractStutter)
<1> DEFINE e == item.entry
<1>1. NextItem(item) \/ (UNCHANGED queue /\ inflight' = inflight \ {item})
  BY DEF AttemptSucceeds, AttemptExhausted
<1>2. Backlog' = Backlog \ {e} /\ e \in Backlog /\ e \in accepted /\ e <= calls
  BY <1>1, NextItemBacklog DEF ContractInv, Backlog
<1>3. \A x \in Backlog : e <= x
  <2>1. \A i \in inflight : i = item
    BY DEF SingleFlight
  <2>2. \A i \in DOMAIN queue : e < queue[i] /\ queue[i] \in Nat
    BY EntriesFact DEF TypeOK, OrderInv, Ordered
  <2>3. e \in Nat
    BY EntriesFact DEF TypeOK
  <2>4. \A x \in Nat : e < x => e <= x
    BY <2>3
  <2> QED
    BY <2>1, <2>2, <2>3, <2>4 DEF Backlog, Range
<1>4. UNCHANGED <<phase, direct, accepted, calls>>
  BY DEF AttemptSucceeds, AttemptExhausted, life
<1>5. CASE delivered' = delivered \cup {e} /\ UNCHANGED dlq
  <2>1. ContractInv'
    BY <1>2, <1>4, <1>5 DEF ContractInv
  <2>2. Contract!Deliver(e)
    BY <1>2, <1>3, <1>4, <1>5 DEF Contract!Deliver
  <2> QED
    BY <1>2, <2>1, <2>2 DEF Contract!Next
<1>6. CASE dlq' = dlq \cup {e} /\ UNCHANGED delivered
  <2>1. ContractInv'
    BY <1>2, <1>4, <1>6 DEF ContractInv
  <2>2. Contract!Drop({e})
    BY <1>2, <1>4, <1>6 DEF Contract!Drop
  <2>3. {e} \in SUBSET Backlog
    BY <1>2
  <2> QED
    BY <2>1, <2>2, <2>3 DEF Contract!Next
<1> QED
  BY <1>5, <1>6 DEF AttemptSucceeds, AttemptExhausted

LEMMA FlushContract ==
  ASSUME TypeOK, OrderInv, ContractInv, NEW f \in Flushers,
         CallFlush(f, FALSE) \/ CallFlush(f, TRUE) \/ FlushWakes(f)
  PROVE  ContractInv' /\ (Contract!Next \/ ContractStutter)
<1>1. UNCHANGED <<phase, direct, accepted, delivered, calls, inflight>>
  BY DEF CallFlush, FlushWakes, life
<1>2. ASSUME NEW n, LeaveFlush(f, n) PROVE ContractInv' /\ (Contract!Next \/ ContractStutter)
  <2>1. PICK gone \in SUBSET Range(queue) :
           Range(queue') = Range(queue) \ gone /\ dlq' = dlq \cup gone
    BY <1>2, LeaveFlushFact
  <2>2. \A x \in Range(queue) : x \notin Held
    <3>1. \A i \in DOMAIN queue : queue[i] \in Nat
      BY EntriesFact DEF TypeOK
    <3> QED
      BY <3>1, EntriesFact DEF TypeOK, OrderInv, Ordered, Held, Range
  <2>3. Backlog' = Backlog \ gone /\ gone \subseteq Backlog
    BY <1>1, <2>1, <2>2 DEF Backlog, Held
  <2>4. ContractInv'
    BY <1>1, <2>1, <2>3 DEF ContractInv
  <2>5. Contract!Drop(gone)
    BY <1>1, <2>1, <2>3 DEF ContractInv, Contract!Drop
  <2> QED
    BY <2>3, <2>4, <2>5 DEF Contract!Next
<1>3. CASE UNCHANGED <<queue, dlq>>
  BY <1>1, <1>3 DEF ContractInv, ContractStutter, Backlog
<1> QED
  BY <1>2, <1>3 DEF CallFlush, FlushWakes

LEMMA ContractStep ==
  ASSUME NoDeath
  PROVE  TypeOK /\ OrderInv /\ SingleFlight /\ ContractInv /\ [Next]_vars
           => ContractInv' /\ [Contract!Next]_(Contract!vars)
<1> SUFFICES ASSUME TypeOK, OrderInv, SingleFlight, ContractInv, [Next]_vars
             PROVE  ContractInv' /\ (Contract!Next \/ ContractStutter)
  BY DEF ContractStutter, Contract!vars
<1>1. ASSUME UNCHANGED <<queue, phase, direct, accepted, delivered, dlq, calls>>, Held' = Held
      PROVE  ContractInv' /\ (Contract!Next \/ ContractStutter)
  <2>1. Backlog' = Backlog
    BY <1>1 DEF Backlog, Held
  <2> QED
    BY <1>1, <2>1 DEF ContractInv, ContractStutter
<1>2. CASE LogDurable
  BY <1>2, LogContract
<1>3. CASE LogDirect
  <2>1. Backlog' = Backlog /\ UNCHANGED <<phase, accepted, delivered, dlq>> /\ calls' = calls + 1
        /\ direct' = direct \cup {calls + 1}
    BY <1>3 DEF LogDirect, work, life, Backlog
  <2>2. \A x \in accepted \cup delivered \cup dlq \cup direct : x \in Nat /\ x <= calls
    BY EntriesFact DEF TypeOK, ContractInv
  <2>3. \A n \in Nat : n <= calls => n <= calls + 1 /\ n # calls + 1
    BY CountFact
  <2>4. calls + 1 <= calls + 1
    BY CountFact
  <2>5. ContractInv'
    BY <2>1, <2>2, <2>3, <2>4 DEF ContractInv
  <2> QED
    BY <2>1, <2>5 DEF ContractStutter
<1>4. ASSUME NEW e \in direct, DirectSettles(e)
      PROVE  ContractInv' /\ (Contract!Next \/ ContractStutter)
  <2>1. Backlog' = Backlog /\ UNCHANGED <<phase, accepted, calls>> /\ direct' \subseteq direct
    BY <1>4 DEF DirectSettles, work, life, Backlog
  <2>2. e \notin accepted /\ e <= calls
    BY DEF ContractInv
  <2>3. delivered' \subseteq delivered \cup {e} /\ dlq' \subseteq dlq \cup {e}
        /\ delivered \subseteq delivered' /\ dlq \subseteq dlq'
    BY <1>4 DEF DirectSettles
  <2>4. ContractInv'
    BY <2>1, <2>2, <2>3 DEF ContractInv
  <2>5. delivered' \cap accepted' = delivered \cap accepted /\ dlq' \cap accepted' = dlq \cap accepted
    BY <2>1, <2>2, <2>3
  <2> QED
    BY <2>1, <2>4, <2>5 DEF ContractStutter
<1>5. ASSUME NEW item \in inflight, NEW n, NEW state,
             inflight' = (inflight \ {item}) \cup {Attempt(item.entry, n, state)},
             UNCHANGED <<queue, phase, direct, accepted, delivered, dlq, calls>>
      PROVE  ContractInv' /\ (Contract!Next \/ ContractStutter)
  <2>1. Attempt(item.entry, n, state).entry = item.entry
    BY DEF Attempt
  <2>2. Held' = Held
    BY <1>5, <2>1 DEF Held
  <2> QED
    BY <1>1, <1>5, <2>2
<1>6. CASE DrainStep
  <2>1. PICK item \in inflight :
          AttemptSucceeds(item) \/ AttemptFails(item) \/ AttemptExhausted(item)
    BY <1>6 DEF DrainStep
  <2>2. CASE AttemptFails(item)
    BY <1>5, <2>2 DEF AttemptFails, life
  <2> QED
    BY <2>1, <2>2, DoneContract
<1>7. ASSUME NEW item \in inflight, BackoffEnds(item)
      PROVE  ContractInv' /\ (Contract!Next \/ ContractStutter)
  BY <1>5, <1>7 DEF BackoffEnds, life
<1>8. ASSUME NEW f \in Flushers,
             CallFlush(f, FALSE) \/ CallFlush(f, TRUE) \/ FlushWakes(f)
      PROVE  ContractInv' /\ (Contract!Next \/ ContractStutter)
  BY <1>8, FlushContract
<1>9. CASE \/ DiskOpSettles \/ UNCHANGED vars
           \/ \E f \in Flushers : DeadlinePasses(f) \/ FlushResolves(f)
  <2>1. UNCHANGED <<queue, phase, direct, accepted, delivered, dlq, calls, inflight>>
    BY <1>9 DEF DiskOpSettles, DeadlinePasses, FlushResolves, vars, work, life
  <2> QED
    BY <1>1, <2>1 DEF Held
<1>10. ~Crash /\ ~Restart /\ ~RecoverLine /\ ~Recovered
  <2>1. ~(crashes < MaxCrashes)
    BY DEF NoDeath, TypeOK
  <2> QED
    BY <2>1 DEF Crash, Restart, RecoverLine, Recovered, ContractInv
<1> QED
  BY <1>2, <1>3, <1>4, <1>6, <1>7, <1>8, <1>9, <1>10 DEF Next

(* While its process lives, the transport implements the delivery contract: *)
(* one outcome for each accepted entry, delivery in order, under every drop *)
(* strategy, deadline, throwing hook and failing disk                       *)
(* (src/logger/transports/DurableAdapterTransport.ts:286-454).              *)
THEOREM KeepsContractHolds ==
  ASSUME NoDeath
  PROVE  Spec => KeepsContract
<1>1. Init => ContractInv /\ Contract!Init
  <2>1. Init => Backlog = {}
    BY DEF Init, Backlog, Range
  <2> QED
    BY <2>1 DEF Init, ContractInv, Contract!Init
<1>2. TypeOK /\ OrderInv /\ SingleFlight /\ ContractInv /\ [Next]_vars
        => ContractInv' /\ [Contract!Next]_(Contract!vars)
  BY ContractStep
<1> QED
  BY <1>1, <1>2, TypeCorrect, OrderCorrect, SingleFlightHolds, PTL
     DEF Spec, KeepsContract, Contract!Spec

(* Whoever keeps the contract gives an accepted entry exactly one outcome:  *)
(* it is pending, delivered or dropped, and never two of these              *)
(* (src/logger/transports/DurableAdapterTransport.ts:331-412).              *)
THEOREM OneOutcomeHolds ==
  ASSUME NoDeath
  PROVE  Spec => []Contract!OneOutcome
<1>1. Contract!Init => Contract!OneOutcome
  BY DEF Contract!Init, Contract!OneOutcome
<1>2. Contract!OneOutcome /\ [Contract!Next]_(Contract!vars) => Contract!OneOutcome'
  <2> SUFFICES ASSUME Contract!OneOutcome, [Contract!Next]_(Contract!vars)
               PROVE  Contract!OneOutcome'
    OBVIOUS
  <2>1. ASSUME NEW e \in Entries, NEW V \in SUBSET Backlog, Contract!Accept(e, V)
        PROVE  Contract!OneOutcome'
    <3>1. e \notin accepted
      BY <2>1, EntriesFact DEF Contract!Accept
    <3> QED
      BY <2>1, <3>1 DEF Contract!Accept, Contract!OneOutcome
  <2>2. ASSUME NEW e \in Backlog, Contract!Deliver(e) PROVE Contract!OneOutcome'
    BY <2>2 DEF Contract!Deliver, Contract!OneOutcome
  <2>3. ASSUME NEW V \in SUBSET Backlog, Contract!Drop(V) PROVE Contract!OneOutcome'
    BY <2>3 DEF Contract!Drop, Contract!OneOutcome
  <2>4. CASE UNCHANGED Contract!vars
    BY <2>4 DEF Contract!vars, Contract!OneOutcome
  <2> QED
    BY <2>1, <2>2, <2>3, <2>4 DEF Contract!Next, Contract!Entries, Entries
<1> QED
  BY <1>1, <1>2, KeepsContractHolds, PTL DEF KeepsContract, Contract!Spec

-----------------------------------------------------------------------------
(* flush() without deadlines, and the spool of a transport whose            *)
(* surroundings do nothing but end the process: each fault of Env breaks    *)
(* one of the promises, and TLC shows which.                                *)

-----------------------------------------------------------------------------
(* What a step leaves pending.                                              *)

(* Nothing is pending in a drained transport. *)
LEMMA DrainedFact == SingleFlight /\ Drained => Backlog = {} /\ queue = <<>> /\ inflight = {}
BY DEF SingleFlight, Drained, Backlog, Range

(* The outcomes of a log() call that no hook breaks: what is pending then,  *)
(* and what drain() was given.                                              *)
LEMMA LogPending ==
  ASSUME TypeOK, OrderInv, LogDurable
  PROVE  /\ Backlog' \subseteq Backlog \cup {calls + 1}
         /\ \A x \in Backlog : x \in Backlog' \cup dlq'
<1>1. PICK e \in Nat : e = calls + 1
  BY CountFact
<1>2. e \in Entries /\ queue \in Seq(Entries) /\ queue \in Seq(Nat) /\ Rising(queue) /\ Under(queue, e)
  BY <1>1, BoundAssumption, EntriesFact DEF LogDurable, TypeOK, Entries, OrderInv, Ordered
<1>3. /\ Survivors \in Seq(Entries) /\ Survivors \in Seq(Nat) /\ Rising(Survivors) /\ Under(Survivors, e)
      /\ Range(Survivors) \subseteq Range(queue)
      /\ \A x \in Range(queue) : x \in Range(Survivors) \cup Victim(e)
  <2>1. /\ Survivors \in Seq(Entries) /\ Rising(Survivors) /\ Range(Survivors) \subseteq Range(queue)
        /\ \A x \in Range(queue) : x \in Range(Survivors) \cup Victim(e)
    BY <1>2, SurvivorsFact DEF Survivors
  <2>2. Survivors \in Seq(Nat) /\ Stretch(Survivors, queue)
    BY <1>2, <2>1, EntriesFact, SameStretch, TailStretch, FrontStretch DEF Survivors
  <2> QED
    BY <1>2, <2>1, <2>2, StretchFact
<1>4. ASSUME NEW q \in Seq(Entries), q \in Seq(Nat), Rising(q), Under(q, e),
             Drain(Append(q, e), AppendSpool(e))
      PROVE  Backlog' = Range(q) \cup {e} \cup Held
  <2>1. Append(q, e) \in Seq(Entries) /\ Rising(Append(q, e))
    BY <1>1, <1>2, <1>4, AppendFact
  <2>2. Backlog' = Range(Append(q, e)) \cup Held
    BY <1>4, <2>1, DrainBacklog
  <2> QED
    BY <1>2, <1>4, <2>2, RangeFact
<1>5. Backlog = Range(queue) \cup Held
  BY DEF Backlog, Held
<1>6. CASE Drain(Append(queue, e), AppendSpool(e))
  BY <1>1, <1>2, <1>4, <1>5, <1>6
<1>7. CASE Drain(queue, chain)
  BY <1>2, <1>5, <1>7, DrainBacklog
<1>8. CASE Drain(Append(Survivors, e), AppendSpool(e)) /\ dlq' = dlq \cup Victim(e)
  <2>1. Backlog' = Range(Survivors) \cup {e} \cup Held
    BY <1>3, <1>4, <1>8
  <2> QED
    BY <1>1, <1>3, <1>5, <1>8, <2>1
<1>9. CASE queue' = Survivors /\ UNCHANGED inflight /\ dlq' = dlq \cup Victim(e)
  <2>1. Backlog' = Range(Survivors) \cup Held
    BY <1>9 DEF Backlog, Held
  <2> QED
    BY <1>3, <1>5, <1>9, <2>1
<1> QED
  BY <1>1, <1>6, <1>7, <1>8, <1>9 DEF LogDurable

(* A retry changes neither what is held nor what is pending. *)
LEMMA RetryPending ==
  ASSUME NEW item \in inflight, NEW n, NEW state, queue' = queue,
         inflight' = (inflight \ {item}) \cup {Attempt(item.entry, n, state)}
  PROVE  Backlog' = Backlog
<1>1. Attempt(item.entry, n, state).entry = item.entry
  BY DEF Attempt
<1> QED
  BY <1>1 DEF Backlog

LEMMA DrainStepPending ==
  ASSUME TypeOK, OrderInv, SingleFlight, NEW item \in inflight,
         AttemptSucceeds(item) \/ AttemptFails(item) \/ AttemptExhausted(item)
  PROVE  /\ Backlog' \subseteq Backlog
         /\ \A x \in Backlog : x \in Backlog' \cup delivered' \cup dlq'
<1>1. CASE AttemptFails(item)
  BY <1>1, RetryPending DEF AttemptFails
<1>2. CASE AttemptSucceeds(item)
  BY <1>2, NextItemBacklog DEF AttemptSucceeds
<1>3. CASE AttemptExhausted(item)
  <2>1. Backlog' = Backlog \ {item.entry}
    BY <1>3, NextItemBacklog DEF AttemptExhausted
  <2> QED
    BY <1>3, <2>1 DEF AttemptExhausted
<1> QED
  BY <1>1, <1>2, <1>3

-----------------------------------------------------------------------------
(* A flush that waits for the loop leaves nothing pending.                  *)

NoDeadline == "deadline" \notin Env

PatientInv ==
  /\ \A f \in Flushers : flush[f].status # "expired"
  /\ FlushLeavesNothingPending

LEMMA PatientKept ==
  ASSUME PatientInv, TypeOK, FlushInv, Backlog' \subseteq Backlog \cup {calls + 1},
         \A f \in Flushers : /\ flush'[f].upTo = flush[f].upTo
                             /\ flush'[f].status # "expired"
                             /\ flush'[f].status \in {"settling", "resolved"} =>
                                  flush[f].status \in {"settling", "resolved"}
  PROVE  PatientInv'
<1>1. \A f \in Flushers : calls + 1 > flush[f].upTo
  <2>1. \A f \in Flushers : flush[f].upTo \in Nat /\ flush[f].upTo <= calls
    BY DEF TypeOK, FlushInv
  <2> QED
    BY <2>1, CountFact
<1> QED
  BY <1>1 DEF PatientInv, FlushLeavesNothingPending

LEMMA PatientStep ==
  ASSUME NoDeadline
  PROVE  TypeOK /\ OrderInv /\ SingleFlight /\ FlushInv /\ PatientInv /\ [Next]_vars => PatientInv'
<1> SUFFICES ASSUME TypeOK, OrderInv, SingleFlight, FlushInv, PatientInv, [Next]_vars
             PROVE  PatientInv'
  OBVIOUS
<1>1. flush \in [Flushers -> [status : FlushStatus, ops : Nat, upTo : Nat]]
  BY DEF TypeOK
<1>2. ASSUME flush' = flush, Backlog' \subseteq Backlog \cup {calls + 1} PROVE PatientInv'
  BY <1>2, PatientKept DEF PatientInv
<1>3. ASSUME flush' = [g \in Flushers |-> Idle] PROVE PatientInv'
  BY <1>3 DEF PatientInv, FlushLeavesNothingPending, Idle
<1>4. CASE LogDurable
  BY <1>2, <1>4, LogPending DEF LogDurable
<1>5. CASE DrainStep
  <2>1. PICK item \in inflight :
          AttemptSucceeds(item) \/ AttemptFails(item) \/ AttemptExhausted(item)
    BY <1>5 DEF DrainStep
  <2>2. flush' = flush
    BY <2>1 DEF AttemptSucceeds, AttemptFails, AttemptExhausted
  <2> QED
    BY <1>2, <2>1, <2>2, DrainStepPending
<1>6. ASSUME NEW item \in inflight, BackoffEnds(item) PROVE PatientInv'
  BY <1>2, <1>6, RetryPending DEF BackoffEnds
<1>7. ASSUME NEW f \in Flushers, NEW n \in Nat, Drained, LeaveFlush(f, n), inflight' = inflight
      PROVE  PatientInv'
  <2>1. Backlog = {} /\ queue = <<>> /\ inflight = {}
    BY <1>7, DrainedFact
  <2>2. DOMAIN queue = {}
    BY <2>1
  <2>3. queue' = <<>> /\ flush' = [flush EXCEPT ![f] =
                            [status |-> "settling", ops |-> Len(chain'), upTo |-> n]]
    BY <1>7, <2>2 DEF LeaveFlush
  <2>4. Backlog' = {}
    BY <1>7, <2>1, <2>3 DEF Backlog, Range
  <2>5. \A g \in Flushers : flush'[g].status # "expired"
    BY <1>1, <2>3 DEF PatientInv
  <2> QED
    BY <2>4, <2>5 DEF PatientInv, FlushLeavesNothingPending
<1>8. ASSUME NEW f \in Flushers, CallFlush(f, FALSE) \/ CallFlush(f, TRUE) PROVE PatientInv'
  <2>1. CASE LeaveFlush(f, calls) /\ Drained
    BY <1>7, <1>8, <2>1, CountFact DEF CallFlush
  <2>2. CASE UNCHANGED queue /\ flush' = [flush EXCEPT ![f] =
                                  [status |-> "waiting", ops |-> 0, upTo |-> calls]]
    <3>1. Backlog' = Backlog
      BY <1>8, <2>2 DEF CallFlush, Backlog
    <3>2. \A g \in Flushers \ {f} : flush'[g] = flush[g]
      BY <1>1, <2>2
    <3>3. flush'[f].status = "waiting"
      BY <1>1, <2>2
    <3> QED
      BY <3>1, <3>2, <3>3 DEF PatientInv, FlushLeavesNothingPending
  <2> QED
    BY <1>8, <2>1, <2>2 DEF CallFlush
<1>9. ASSUME NEW f \in Flushers, FlushWakes(f) PROVE PatientInv'
  <2>1. Drained /\ LeaveFlush(f, flush[f].upTo) /\ inflight' = inflight
    BY <1>9 DEF FlushWakes, PatientInv
  <2> QED
    BY <1>1, <1>7, <2>1
<1>10. ASSUME NEW f \in Flushers, FlushResolves(f) PROVE PatientInv'
  <2>1. Backlog' = Backlog
    BY <1>10 DEF FlushResolves, work, Backlog
  <2>2. flush' = [flush EXCEPT ![f].status = "resolved"] /\ flush[f].status = "settling"
    BY <1>10 DEF FlushResolves
  <2>3. \A g \in Flushers \ {f} : flush'[g] = flush[g]
    BY <1>1, <2>2
  <2>4. flush'[f].upTo = flush[f].upTo /\ flush'[f].status = "resolved"
    BY <1>1, <2>2
  <2> QED
    BY <2>1, <2>2, <2>3, <2>4, PatientKept DEF PatientInv
<1>11. CASE DiskOpSettles
  <2>1. Backlog' = Backlog
    BY <1>11 DEF DiskOpSettles, work, Backlog
  <2>2. \A g \in Flushers : flush'[g].upTo = flush[g].upTo /\ flush'[g].status = flush[g].status
    BY <1>1, <1>11 DEF DiskOpSettles
  <2> QED
    BY <2>1, <2>2, PatientKept DEF PatientInv
<1>12. CASE Crash
  BY <1>3, <1>12 DEF Crash
<1>13. CASE Restart \/ RecoverLine \/ Recovered
  <2>1. phase # "up"
    BY <1>13 DEF Restart, RecoverLine, Recovered
  <2>2. flush = [g \in Flushers |-> Idle]
    BY <2>1 DEF OrderInv, RestInv
  <2> QED
    BY <1>3, <1>13, <2>2 DEF Restart, RecoverLine, Recovered
<1>14. \A f \in Flushers : ~DeadlinePasses(f)
  BY DEF NoDeadline, DeadlinePasses
<1>15. CASE LogDirect \/ UNCHANGED vars \/ \E e \in direct : DirectSettles(e)
  <2>1. flush' = flush /\ Backlog' = Backlog
    BY <1>15 DEF LogDirect, DirectSettles, vars, work, Backlog
  <2> QED
    BY <1>2, <2>1
<1> QED
  BY <1>4, <1>5, <1>6, <1>8, <1>9, <1>10, <1>11, <1>12, <1>13, <1>14, <1>15 DEF Next

(* When no deadline passes, a flush() or shutdown() that settled left       *)
(* nothing pending that was logged before it, queued or in flight           *)
(* (src/logger/transports/DurableAdapterTransport.ts:416-454).              *)
THEOREM FlushLeavesNothingPendingHolds ==
  ASSUME NoDeadline
  PROVE  Spec => []FlushLeavesNothingPending
<1>1. Init => FlushInv /\ PatientInv
  <2>1. calls = 0 => calls <= calls
    OBVIOUS
  <2> QED
    BY <2>1 DEF Init, FlushInv, PatientInv, FlushLeavesNothingPending, Idle
<1>2. TypeOK /\ OrderInv /\ SingleFlight /\ FlushInv /\ PatientInv /\ [Next]_vars
        => (FlushInv /\ PatientInv)'
  BY FlushStep, PatientStep
<1>3. PatientInv => FlushLeavesNothingPending
  BY DEF PatientInv
<1> QED
  BY <1>1, <1>2, <1>3, TypeCorrect, OrderCorrect, SingleFlightHolds, PTL DEF Spec

-----------------------------------------------------------------------------
(* What the file will hold once the chain has run.                          *)

Calm == Env = {}

LEMMA AppendPositions ==
  ASSUME NEW c \in Seq(Nat), NEW x \in Nat
  PROVE  /\ DOMAIN Append(c, x) = DOMAIN c \cup {Len(c) + 1}
         /\ Len(c) + 1 \notin DOMAIN c /\ Append(c, x)[Len(c) + 1] = x
         /\ \A i \in DOMAIN c : Append(c, x)[i] = c[i] /\ i < Len(c) + 1 /\ ~(Len(c) + 1 < i)
         /\ ~(Len(c) + 1 < Len(c) + 1)
         /\ Range(Append(c, x)) = Range(c) \cup {x}
<1>1. Len(c) \in Nat /\ DOMAIN c = 1..Len(c)
  OBVIOUS
<1>2. /\ DOMAIN Append(c, x) = DOMAIN c \cup {Len(c) + 1}
      /\ Len(c) + 1 \notin DOMAIN c /\ Append(c, x)[Len(c) + 1] = x
      /\ \A i \in DOMAIN c : Append(c, x)[i] = c[i] /\ i < Len(c) + 1 /\ ~(Len(c) + 1 < i)
      /\ ~(Len(c) + 1 < Len(c) + 1)
  BY <1>1
<1> QED
  BY <1>2 DEF Range

(* The append of x is asked for. *)
LEMMA WillAppend ==
  ASSUME TypeOK, NEW x \in Entries, chain' = Append(chain, x), disk' = disk
  PROVE  \A e \in Entries : WillBeSpooled(e)' <=> WillBeSpooled(e) \/ e = x
<1>1. chain \in Seq(Nat) /\ x \in Nat /\ x # 0
  BY EntriesFact DEF TypeOK
<1> DEFINE n == Len(chain) + 1
<1>2. /\ DOMAIN chain' = DOMAIN chain \cup {n} /\ n \notin DOMAIN chain /\ chain'[n] = x
      /\ \A i \in DOMAIN chain : chain'[i] = chain[i] /\ i < n /\ ~(n < i)
      /\ ~(n < n) /\ Range(chain') = Range(chain) \cup {x}
  BY <1>1, AppendPositions
<1> HIDE DEF n
<1>3. \A e \in Entries :
        (\E i \in DOMAIN chain' : chain'[i] = e /\ \A j \in DOMAIN chain' : j > i => chain'[j] # 0)
          <=> \/ e = x
              \/ \E i \in DOMAIN chain : chain[i] = e /\ \A j \in DOMAIN chain : j > i => chain[j] # 0
  BY <1>1, <1>2
<1> QED
  BY <1>1, <1>2, <1>3 DEF WillBeSpooled, Delete

(* The deletion of the file is asked for. *)
LEMMA WillClear ==
  ASSUME TypeOK, chain' = Append(chain, Delete)
  PROVE  \A e \in Entries : ~WillBeSpooled(e)'
<1>1. chain \in Seq(Nat) /\ Delete \in Nat /\ \A e \in Entries : e # Delete
  BY EntriesFact DEF TypeOK, Delete
<1> DEFINE n == Len(chain) + 1
<1>2. /\ DOMAIN chain' = DOMAIN chain \cup {n} /\ chain'[n] = Delete
      /\ \A i \in DOMAIN chain : n > i
      /\ Range(chain') = Range(chain) \cup {Delete}
  <2>1. \A i \in DOMAIN chain : i < n => n > i
    BY <1>1
  <2> QED
    BY <1>1, <2>1, AppendPositions
<1> HIDE DEF n
<1> QED
  BY <1>1, <1>2 DEF WillBeSpooled

(* The running operation succeeds: what will be in the file stays the same. *)
LEMMA WillSettle ==
  ASSUME TypeOK, ~disk.torn, chain # <<>>, chain' = Tail(chain), disk' = Done(Head(chain))
  PROVE  /\ \A e \in Entries : WillBeSpooled(e)' <=> WillBeSpooled(e)
         /\ ~disk'.torn
<1>1. /\ chain \in Seq(Nat) /\ disk.lines \in Seq(Nat) /\ Head(chain) \in Nat
      /\ \A e \in Entries : e # 0
  <2>1. chain \in Seq(Nat) /\ disk.lines \in Seq(Nat)
    BY EntriesFact DEF TypeOK
  <2> QED
    BY <2>1, EntriesFact
<1>2. /\ 1 \in DOMAIN chain /\ Head(chain) = chain[1]
      /\ \A i \in DOMAIN chain : i = 1 \/ i > 1
      /\ \A i \in DOMAIN chain' : i + 1 \in DOMAIN chain /\ i + 1 > 1 /\ chain'[i] = chain[i + 1]
      /\ \A i \in DOMAIN chain : i > 1 => i - 1 \in DOMAIN chain' /\ chain'[i - 1] = chain[i]
  <2>1. Len(chain) \in Nat /\ Len(chain) > 0 /\ DOMAIN chain = 1..Len(chain)
        /\ DOMAIN chain' = 1..Len(chain) - 1
        /\ \A i \in 1..Len(chain) - 1 : chain'[i] = chain[i + 1]
    BY <1>1
  <2>2. \A i \in 1..Len(chain) : i > 1 => i - 1 \in 1..Len(chain) - 1 /\ (i - 1) + 1 = i
    BY <2>1
  <2>3. \A i \in 1..Len(chain) : i > 1 => chain'[i - 1] = chain[i]
    BY <2>1, <2>2
  <2> QED
    BY <1>1, <2>1, <2>2, <2>3
<1> DEFINE Chained(e) == \E i \in DOMAIN chain :
                           i > 1 /\ chain[i] = e /\ \A j \in DOMAIN chain : j > i => chain[j] # 0
           Cleared == \E i \in DOMAIN chain : i > 1 /\ chain[i] = 0
<1>3. \A e \in Entries :
        (\E i \in DOMAIN chain' : chain'[i] = e /\ \A j \in DOMAIN chain' : j > i => chain'[j] # 0)
          <=> Chained(e)
  <2>1. ASSUME NEW e \in Entries, NEW i \in DOMAIN chain', chain'[i] = e,
               \A j \in DOMAIN chain' : j > i => chain'[j] # 0
        PROVE  Chained(e)
    <3>1. i + 1 \in DOMAIN chain /\ i + 1 > 1 /\ chain[i + 1] = e
      BY <1>2, <2>1
    <3>2. ASSUME NEW j \in DOMAIN chain, j > i + 1 PROVE chain[j] # 0
      <4>1. j > 1 /\ i + 1 > 1 /\ (i + 1) - 1 = i
        <5>1. j \in Nat /\ i \in Nat
          BY <1>1, <3>1
        <5> QED
          BY <3>1, <3>2, <5>1
      <4>2. j - 1 \in DOMAIN chain' /\ chain'[j - 1] = chain[j] /\ j - 1 > i
        BY <1>2, <3>1, <3>2, <4>1
      <4> QED
        BY <2>1, <4>2
    <3> QED
      BY <3>1, <3>2
  <2>2. ASSUME NEW e \in Entries, NEW i \in DOMAIN chain, i > 1, chain[i] = e,
               \A j \in DOMAIN chain : j > i => chain[j] # 0
        PROVE  \E k \in DOMAIN chain' : chain'[k] = e /\ \A j \in DOMAIN chain' : j > k => chain'[j] # 0
    <3>1. i - 1 \in DOMAIN chain' /\ chain'[i - 1] = e
      BY <1>2, <2>2
    <3>2. ASSUME NEW j \in DOMAIN chain', j > i - 1 PROVE chain'[j] # 0
      <4>1. j + 1 \in DOMAIN chain /\ chain'[j] = chain[j + 1]
        BY <1>2
      <4>2. j + 1 > i
        <5>1. j + 1 \in Nat /\ i \in Nat /\ j \in Nat
          BY <1>1, <4>1
        <5> QED
          BY <3>2, <5>1
      <4> QED
        BY <2>2, <4>1, <4>2
    <3> QED
      BY <3>1, <3>2
  <2> QED
    BY <2>1, <2>2
<1>4. 0 \in Range(chain') <=> Cleared
  BY <1>2 DEF Range
<1>5. 0 \in Range(chain) <=> Head(chain) = 0 \/ Cleared
  BY <1>2 DEF Range
<1>6. \A e \in Entries : WillBeSpooled(e) <=>
        \/ e \in Range(disk.lines) /\ Head(chain) # 0 /\ ~Cleared
        \/ Chained(e)
        \/ Head(chain) = e /\ ~Cleared
  <2> SUFFICES ASSUME NEW e \in Entries
               PROVE  (\E i \in DOMAIN chain : chain[i] = e /\ \A j \in DOMAIN chain : j > i => chain[j] # 0)
                        <=> Chained(e) \/ (Head(chain) = e /\ ~Cleared)
    BY <1>5 DEF WillBeSpooled, Delete
  <2> QED
    BY <1>1, <1>2
<1>7. \A e \in Entries : WillBeSpooled(e)' <=>
        (e \in Range(disk'.lines) /\ ~Cleared) \/ Chained(e)
  <2> HIDE DEF Chained, Cleared
  <2> QED
    BY <1>3, <1>4 DEF WillBeSpooled, Delete
<1>8. CASE Head(chain) = 0
  <2>1. disk'.lines = <<>> /\ ~disk'.torn /\ Range(disk'.lines) = {}
    BY <1>8 DEF Done, Delete, NoSpool, Range
  <2> QED
    BY <1>1, <1>6, <1>7, <1>8, <2>1
<1>9. CASE Head(chain) # 0
  <2>1. disk'.lines = Append(disk.lines, Head(chain)) /\ ~disk'.torn
    BY <1>9 DEF Done, Delete, Written
  <2>2. Range(disk'.lines) = Range(disk.lines) \cup {Head(chain)}
    <3> DEFINE x == Head(chain)
    <3>1. x \in Nat /\ disk'.lines = Append(disk.lines, x)
      BY <1>1, <2>1
    <3> HIDE DEF x
    <3>2. Range(Append(disk.lines, x)) = Range(disk.lines) \cup {x}
      BY <1>1, <3>1, AppendPositions
    <3> QED
      BY <3>1, <3>2 DEF x
  <2> HIDE DEF Chained, Cleared
  <2> QED
    BY <1>6, <1>7, <1>9, <2>1, <2>2
<1> QED
  BY <1>8, <1>9

-----------------------------------------------------------------------------
(* The spool, the backlog and the outcomes account for each other.          *)

(* The file is whole, and holds what is pending and nothing when nothing    *)
(* is; while it is replayed, what it holds is queued or still to be read.   *)
FileInv ==
  /\ ~disk.torn
  /\ ~Persist => disk.lines = <<>> /\ chain = <<>>
  /\ SpoolCoversBacklog
  /\ phase = "up" /\ Drained => \A e \in Entries : ~WillBeSpooled(e)
  /\ phase = "recovering" =>
       \A e \in Entries : e \in Range(disk.lines) <=> e \in Range(queue) \cup Range(unread)

(* Between a death and the end of the replay only the file knows of an      *)
(* entry; at any other time it has an outcome or is pending.                *)
Known(e) ==
  \/ e \in delivered \cup dlq \cup unspooled \cup Backlog
  \/ phase # "up" /\ e \in Range(disk.lines)

SpoolInv == FileInv /\ \A e \in accepted : Known(e)

(* What a step of a process that is up has to show. *)
LEMMA UpSpool ==
  ASSUME SpoolInv, phase = "up", UNCHANGED <<phase, disk, unspooled>>,
         ~Persist => chain' = <<>>,
         Persist => \A e \in Backlog' \ Unserialisable : WillBeSpooled(e)',
         Drained' => \A e \in Entries : ~WillBeSpooled(e)',
         \A e \in accepted' : e \in delivered' \cup dlq' \cup unspooled \cup Backlog'
  PROVE  SpoolInv'
<1>1. SpoolCoversBacklog'
  BY DEF SpoolCoversBacklog
<1> QED
  BY <1>1 DEF SpoolInv, FileInv, Known

(* A step that leaves the queue, the loop and the disk alone. *)
LEMMA SameSpool ==
  ASSUME SpoolInv, Backlog' = Backlog,
         UNCHANGED <<queue, processing, phase, disk, chain, unread, unspooled, accepted>>,
         delivered \subseteq delivered', dlq \subseteq dlq'
  PROVE  SpoolInv'
<1>1. \A e : WillBeSpooled(e)' <=> WillBeSpooled(e)
  BY DEF WillBeSpooled
<1>2. SpoolCoversBacklog'
  BY <1>1 DEF SpoolInv, FileInv, SpoolCoversBacklog
<1> QED
  BY <1>1, <1>2 DEF SpoolInv, FileInv, Known, Drained

LEMMA SameWill ==
  ASSUME chain' = chain, disk' = disk
  PROVE  \A e : WillBeSpooled(e)' <=> WillBeSpooled(e)
BY DEF WillBeSpooled

(* The transport comes to rest and asks for the deletion. *)
LEMMA RestSpool ==
  ASSUME TypeOK, SpoolInv, phase = "up", UNCHANGED <<phase, disk, unspooled>>,
         chain' = ClearSpool(chain), Backlog' = {},
         \A e \in accepted' : e \in delivered' \cup dlq' \cup unspooled
  PROVE  SpoolInv'
<1>1. CASE Persist
  <2>1. \A e \in Entries : ~WillBeSpooled(e)'
    BY <1>1, WillClear DEF ClearSpool
  <2> QED
    BY <1>1, <2>1, UpSpool
<1>2. CASE ~Persist
  <2>1. chain' = <<>> /\ disk'.lines = <<>>
    BY <1>2 DEF ClearSpool, SpoolInv, FileInv
  <2>2. \A e \in Entries : ~WillBeSpooled(e)'
    BY <2>1 DEF WillBeSpooled, Range
  <2> QED
    BY <1>2, <2>1, <2>2, UpSpool
<1> QED
  BY <1>1, <1>2

LEMMA LogSpool ==
  ASSUME Calm, TypeOK, OrderInv, SingleFlight, SpoolInv, LogDurable
  PROVE  SpoolInv'
<1>1. PICK e \in Nat : e = calls + 1
  BY CountFact
<1>2. /\ e \in Entries /\ phase = "up" /\ queue \in Seq(Entries)
      /\ UNCHANGED <<phase, disk, unspooled, delivered>>
  BY <1>1, BoundAssumption DEF LogDurable, TypeOK, Entries, life
<1>3. /\ Backlog' \subseteq Backlog \cup {e}
      /\ \A x \in Backlog : x \in Backlog' \cup dlq'
  BY <1>1, LogPending
<1>4. \A x \in accepted : x \in delivered \cup dlq \cup unspooled \cup Backlog
  BY <1>2 DEF SpoolInv, Known
<1>5. dlq \subseteq dlq'
  BY DEF LogDurable
<1>6. Backlog \subseteq Entries
  <2>1. Range(queue) \subseteq Entries
    BY <1>2, RangeOfEntries
  <2> QED
    BY <2>1 DEF Backlog, TypeOK
<1>7. ASSUME NEW q \in Seq(Entries), Drain(Append(q, e), AppendSpool(e)), accepted' = accepted \cup {e},
             e \in Backlog'
      PROVE  SpoolInv'
  <2>1. Append(q, e) # <<>>
    BY <1>2, <1>7
  <2>2. chain' = AppendSpool(e) /\ processing'
    BY <1>7, <2>1 DEF Drain, TypeOK
  <2>3. ~Drained'
    BY <2>2 DEF Drained
  <2>4. ~Persist => chain' = <<>>
    BY <2>2 DEF AppendSpool, SpoolInv, FileInv
  <2>5. ASSUME Persist, NEW x \in Backlog' \ Unserialisable PROVE WillBeSpooled(x)'
    <3>1. x \in Entries /\ (x = e \/ WillBeSpooled(x))
      BY <1>2, <1>3, <1>6, <2>5 DEF SpoolInv, FileInv, SpoolCoversBacklog
    <3>2. CASE e \in Unserialisable
      BY <1>2, <2>2, <2>5, <3>1, <3>2, SameWill DEF AppendSpool
    <3>3. CASE e \notin Unserialisable
      BY <1>2, <2>2, <2>5, <3>1, <3>3, WillAppend DEF AppendSpool
    <3> QED
      BY <3>2, <3>3
  <2>6. \A x \in accepted' : x \in delivered' \cup dlq' \cup unspooled \cup Backlog'
    BY <1>2, <1>3, <1>4, <1>5, <1>7
  <2> QED
    BY <1>2, <2>3, <2>4, <2>5, <2>6, UpSpool
<1>8. ASSUME NEW q \in Seq(Entries), q \in Seq(Nat), Rising(q), Under(q, e),
             Drain(Append(q, e), AppendSpool(e))
      PROVE  e \in Backlog'
  <2>1. Append(q, e) \in Seq(Entries) /\ Rising(Append(q, e))
    BY <1>1, <1>2, <1>8, AppendFact
  <2>2. Backlog' = Range(Append(q, e)) \cup Held
    BY <1>8, <2>1, DrainBacklog
  <2> QED
    BY <1>2, <1>8, <2>2, RangeFact
<1>9. /\ queue \in Seq(Nat) /\ Rising(queue) /\ Under(queue, e)
      /\ Survivors \in Seq(Entries) /\ Survivors \in Seq(Nat) /\ Rising(Survivors) /\ Under(Survivors, e)
  <2>1. queue \in Seq(Nat) /\ Rising(queue) /\ Under(queue, e)
    BY <1>1, <1>2, EntriesFact DEF OrderInv, Ordered
  <2>2. Survivors \in Seq(Entries) /\ Rising(Survivors)
    BY <1>2, <2>1, SurvivorsFact DEF Survivors
  <2>3. Survivors \in Seq(Nat) /\ Stretch(Survivors, queue)
    BY <2>1, <2>2, EntriesFact, SameStretch, TailStretch, FrontStretch DEF Survivors
  <2> QED
    BY <1>1, <2>1, <2>2, <2>3, StretchFact
<1>10. CASE Drain(Append(queue, e), AppendSpool(e)) /\ accepted' = accepted \cup {e}
  BY <1>2, <1>7, <1>8, <1>9, <1>10
<1>11. CASE Drain(Append(Survivors, e), AppendSpool(e)) /\ accepted' = accepted \cup {e}
  BY <1>7, <1>8, <1>9, <1>11
<1>12. CASE Drain(queue, chain) /\ UNCHANGED accepted
  <2>1. Backlog' = Backlog
    <3>1. Backlog' = Range(queue) \cup Held
      BY <1>2, <1>9, <1>12, DrainBacklog
    <3> QED
      BY <3>1 DEF Backlog, Held
  <2>2. \A x \in accepted' : x \in delivered' \cup dlq' \cup unspooled \cup Backlog'
    BY <1>2, <1>4, <1>5, <1>12, <2>1
  <2>3. CASE chain' = chain /\ processing'
    <3>1. ~Drained'
      BY <2>3 DEF Drained
    <3>2. Persist => \A x \in Backlog' \ Unserialisable : WillBeSpooled(x)'
      BY <1>2, <2>1, <2>3, SameWill DEF SpoolInv, FileInv, SpoolCoversBacklog
    <3>3. ~Persist => chain' = <<>>
      BY <2>3 DEF SpoolInv, FileInv
    <3> QED
      BY <1>2, <2>2, <3>1, <3>2, <3>3, UpSpool
  <2>4. CASE ~processing /\ queue = <<>> /\ chain' = ClearSpool(chain)
    <3>1. Backlog' = {}
      BY <2>1, <2>4, DrainedFact DEF Drained
    <3> QED
      BY <1>2, <2>2, <2>4, <3>1, RestSpool
  <2> QED
    BY <1>12, <2>3, <2>4 DEF Drain, TypeOK
<1>13. TRUE \notin HookOutcome
  BY DEF HookOutcome, Calm
<1> QED
  BY <1>1, <1>10, <1>11, <1>12, <1>13 DEF LogDurable

LEMMA DrainStepSpool ==
  ASSUME Calm, TypeOK, OrderInv, SingleFlight, SpoolInv, DrainStep
  PROVE  SpoolInv'
<1>1. PICK item \in inflight :
        AttemptSucceeds(item) \/ AttemptFails(item) \/ AttemptExhausted(item)
  BY DEF DrainStep
<1>2. /\ phase = "up" /\ processing
      /\ UNCHANGED <<phase, disk, unspooled, accepted, unread>>
  BY <1>1 DEF AttemptSucceeds, AttemptFails, AttemptExhausted, OrderInv, RestInv,
              SingleFlight, spool, life
<1>3. /\ Backlog' \subseteq Backlog
      /\ \A x \in Backlog : x \in Backlog' \cup delivered' \cup dlq'
  BY <1>1, DrainStepPending
<1>4. delivered \subseteq delivered' /\ dlq \subseteq dlq'
  BY <1>1 DEF AttemptSucceeds, AttemptFails, AttemptExhausted
<1>5. \A x \in accepted' : x \in delivered' \cup dlq' \cup unspooled \cup Backlog'
  BY <1>2, <1>3, <1>4 DEF SpoolInv, Known
<1>6. CASE chain' = chain /\ processing'
  <2>1. ~Drained'
    BY <1>6 DEF Drained
  <2>2. Persist => \A x \in Backlog' \ Unserialisable : WillBeSpooled(x)'
    BY <1>2, <1>3, <1>6, SameWill DEF SpoolInv, FileInv, SpoolCoversBacklog
  <2>3. ~Persist => chain' = <<>>
    BY <1>6 DEF SpoolInv, FileInv
  <2> QED
    BY <1>2, <1>5, <2>1, <2>2, <2>3, UpSpool
<1>7. CASE queue = <<>> /\ queue' = queue /\ inflight' = inflight \ {item} /\ chain' = ClearSpool(chain)
  <2>1. Backlog' = {}
    BY <1>7 DEF SingleFlight, Backlog, Range
  <2> QED
    BY <1>2, <1>5, <1>7, <2>1, RestSpool
<1>8. FALSE \in HookOutcome /\ TRUE \notin HookOutcome
  BY DEF HookOutcome, Calm
<1>9. CASE NextItem(item)
  BY <1>2, <1>6, <1>7, <1>9 DEF NextItem
<1>10. CASE AttemptFails(item)
  BY <1>2, <1>6, <1>10 DEF AttemptFails, spool
<1> QED
  BY <1>1, <1>8, <1>9, <1>10 DEF AttemptSucceeds, AttemptExhausted

LEMMA FlushSpool ==
  ASSUME Calm, TypeOK, OrderInv, SingleFlight, PatientInv, SpoolInv, NEW f \in Flushers,
         CallFlush(f, FALSE) \/ CallFlush(f, TRUE) \/ FlushWakes(f)
  PROVE  SpoolInv'
<1>1. phase = "up"
  <2>1. phase # "up" => flush[f] = Idle
    BY DEF OrderInv, RestInv
  <2> QED
    BY <2>1 DEF CallFlush, FlushWakes, Idle
<1>2. UNCHANGED <<phase, disk, unspooled, accepted, unread, inflight, processing, delivered>>
  BY DEF CallFlush, FlushWakes, life
<1>3. ASSUME NEW n, LeaveFlush(f, n), Drained PROVE SpoolInv'
  <2>1. Backlog = {} /\ queue = <<>> /\ inflight = {} /\ DOMAIN queue = {}
    BY <1>3, DrainedFact
  <2>2. queue' = <<>> /\ chain' = ClearSpool(chain) /\ dlq \subseteq dlq'
    BY <1>3, <2>1 DEF LeaveFlush
  <2>3. Backlog' = {}
    BY <1>2, <2>1, <2>2 DEF Backlog, Range
  <2>4. \A x \in accepted' : x \in delivered' \cup dlq' \cup unspooled
    BY <1>1, <1>2, <2>1, <2>2 DEF SpoolInv, Known
  <2> QED
    BY <1>1, <1>2, <2>2, <2>3, <2>4, RestSpool
<1>4. CASE UNCHANGED <<queue, chain, dlq>>
  <2>1. Backlog' = Backlog
    BY <1>2, <1>4 DEF Backlog
  <2> QED
    BY <1>2, <1>4, <2>1, SameSpool
<1> QED
  BY <1>3, <1>4 DEF CallFlush, FlushWakes, PatientInv

LEMMA DiskSpool ==
  ASSUME Calm, TypeOK, SpoolInv, DiskOpSettles
  PROVE  SpoolInv'
<1>1. /\ phase = "up" /\ chain # <<>> /\ chain' = Tail(chain) /\ disk' = Done(Head(chain))
      /\ UNCHANGED <<phase, unspooled, accepted, delivered, dlq, queue, processing, inflight>>
  BY DEF DiskOpSettles, Calm, work, life
<1>2. Persist
  BY <1>1 DEF SpoolInv, FileInv
<1>3. (\A e \in Entries : WillBeSpooled(e)' <=> WillBeSpooled(e)) /\ ~disk'.torn
  BY <1>1, WillSettle DEF SpoolInv, FileInv
<1>4. Backlog' = Backlog /\ Backlog \subseteq Entries /\ (Drained' <=> Drained)
  <2>1. Range(queue) \subseteq Entries
    BY RangeOfEntries DEF TypeOK
  <2> QED
    BY <1>1, <2>1 DEF Backlog, TypeOK, Drained
<1>5. SpoolCoversBacklog'
  BY <1>1, <1>3, <1>4 DEF SpoolInv, FileInv, SpoolCoversBacklog
<1> QED
  BY <1>1, <1>2, <1>3, <1>4, <1>5 DEF SpoolInv, FileInv, Known

LEMMA CrashSpool ==
  ASSUME Calm, TypeOK, OrderInv, SpoolInv, Crash
  PROVE  SpoolInv'
<1>1. /\ phase' = "down" /\ queue' = <<>> /\ inflight' = {} /\ chain' = <<>>
      /\ UNCHANGED <<accepted, delivered, dlq>>
      /\ unspooled' = unspooled
           \cup (Backlog \cap (IF Persist THEN Unserialisable ELSE Entries))
           \cup (Range(chain) \cap Entries)
  BY DEF Crash
<1>2. disk' = disk \/ (chain # <<>> /\ disk' = Done(Head(chain)))
  BY DEF Crash, Cut, CutShort, Calm
<1>3. /\ disk.lines \in Seq(Nat) /\ chain \in Seq(Nat)
      /\ chain # <<>> => Head(chain) \in Nat /\ Head(chain) \in Range(chain)
  <2>1. disk.lines \in Seq(Nat) /\ chain \in Seq(Nat)
    BY EntriesFact DEF TypeOK
  <2>2. chain # <<>> => Head(chain) \in Nat /\ Head(chain) = chain[1] /\ 1 \in DOMAIN chain
    BY <2>1
  <2> QED
    BY <2>1, <2>2 DEF Range
<1>4. ~disk'.torn /\ (~Persist => disk'.lines = <<>>)
  BY <1>2 DEF SpoolInv, FileInv, Done, Written, NoSpool
<1>5. 0 \notin Range(chain) => Range(disk.lines) \subseteq Range(disk'.lines)
  <2>1. CASE disk' = disk
    BY <2>1
  <2>2. CASE chain # <<>> /\ disk' = Done(Head(chain)) /\ 0 \notin Range(chain)
    <3> DEFINE x == Head(chain)
    <3>1. x \in Nat /\ x # 0
      BY <1>3, <2>2
    <3>2. disk'.lines = Append(disk.lines, x)
      BY <2>2, <3>1 DEF Done, Delete, Written, SpoolInv, FileInv
    <3> HIDE DEF x
    <3>3. Range(Append(disk.lines, x)) = Range(disk.lines) \cup {x}
      BY <1>3, <3>1, AppendPositions
    <3> QED
      BY <3>2, <3>3
  <2> QED
    BY <1>2, <2>1, <2>2
<1>6. ASSUME NEW e \in accepted PROVE Known(e)'
  <2>1. CASE e \in delivered \cup dlq \cup unspooled
    BY <1>1, <2>1 DEF Known
  <2>2. CASE e \in Backlog /\ WillBeSpooled(e)
    <3>1. e \in Entries
      BY DEF TypeOK
    <3>2. CASE e \in Range(chain)
      BY <1>1, <3>1, <3>2 DEF Known
    <3>3. CASE e \in Range(disk.lines) /\ Delete \notin Range(chain)
      <4>1. e \in Range(disk'.lines)
        BY <1>5, <3>3 DEF Delete
      <4> QED
        BY <1>1, <4>1 DEF Known
    <3> QED
      BY <2>2, <3>2, <3>3 DEF WillBeSpooled, Range
  <2>3. CASE e \in Backlog /\ ~WillBeSpooled(e)
    <3>1. e \in Entries /\ phase # "down"
      BY DEF TypeOK, Crash
    <3>2. e \in (IF Persist THEN Unserialisable ELSE Entries)
      BY <2>3, <3>1 DEF SpoolInv, FileInv, SpoolCoversBacklog
    <3> QED
      BY <1>1, <2>3, <3>2 DEF Known
  <2>4. CASE phase # "up" /\ e \in Range(disk.lines)
    <3>1. chain = <<>>
      BY <2>4 DEF OrderInv, RestInv
    <3>2. disk' = disk
      BY <1>2, <3>1
    <3> QED
      BY <1>1, <2>4, <3>2 DEF Known
  <2> QED
    BY <2>1, <2>2, <2>3, <2>4 DEF SpoolInv, Known
<1>7. SpoolCoversBacklog'
  BY <1>1 DEF SpoolCoversBacklog
<1> QED
  BY <1>1, <1>4, <1>6, <1>7 DEF SpoolInv, FileInv

LEMMA RestartSpool ==
  ASSUME Calm, OrderInv, SpoolInv, Restart
  PROVE  SpoolInv'
<1>1. /\ phase = "down" /\ phase' = "recovering" /\ unread' = disk.lines
      /\ UNCHANGED <<queue, inflight, disk, chain, unspooled, accepted, delivered, dlq>>
  BY DEF Restart, Calm, work, spool
<1>2. queue = <<>> /\ inflight = {} /\ chain = <<>>
  BY <1>1 DEF OrderInv, RestInv
<1>3. Range(queue) = {} /\ Backlog = {} /\ Backlog' = {}
  BY <1>1, <1>2 DEF Range, Backlog
<1>4. SpoolCoversBacklog'
  BY <1>3 DEF SpoolCoversBacklog
<1> QED
  BY <1>1, <1>2, <1>3, <1>4 DEF SpoolInv, FileInv, Known

LEMMA TailRange ==
  ASSUME NEW s \in Seq(Nat), s # <<>>
  PROVE  Range(s) = Range(Tail(s)) \cup {Head(s)}
<1>1. /\ Len(s) \in Nat /\ Len(s) > 0 /\ DOMAIN s = 1..Len(s) /\ Head(s) = s[1]
      /\ DOMAIN Tail(s) = 1..Len(s) - 1
      /\ \A i \in 1..Len(s) - 1 : Tail(s)[i] = s[i + 1]
  OBVIOUS
<1> DEFINE t == Tail(s)
           h == Head(s)
<1>2. DOMAIN t = 1..Len(s) - 1 /\ h = s[1] /\ \A i \in 1..Len(s) - 1 : t[i] = s[i + 1]
  BY <1>1
<1> HIDE DEF t, h
<1>3. ASSUME NEW i \in 1..Len(s) PROVE s[i] \in Range(t) \cup {h}
  <2>1. CASE i = 1
    BY <1>2, <2>1
  <2>2. CASE i # 1
    <3>1. i - 1 \in 1..Len(s) - 1 /\ (i - 1) + 1 = i
      BY <1>1, <1>3, <2>2
    <3>2. t[i - 1] = s[i]
      BY <1>2, <3>1
    <3> QED
      BY <1>2, <3>1, <3>2 DEF Range
  <2> QED
    BY <2>1, <2>2
<1>4. ASSUME NEW i \in 1..Len(s) - 1 PROVE t[i] \in Range(s)
  <2>1. i + 1 \in DOMAIN s
    BY <1>1, <1>4
  <2> QED
    BY <1>2, <2>1 DEF Range
<1>5. h \in Range(s)
  <2>1. 1 \in DOMAIN s
    BY <1>1
  <2> QED
    BY <1>2, <2>1 DEF Range
<1>6. Range(s) \subseteq Range(t) \cup {h}
  BY <1>1, <1>3 DEF Range
<1>7. Range(t) \subseteq Range(s)
  BY <1>2, <1>4 DEF Range
<1>8. Range(s) = Range(t) \cup {h}
  BY <1>5, <1>6, <1>7
<1> QED
  BY <1>8 DEF t, h

LEMMA RecoverLineSpool ==
  ASSUME TypeOK, OrderInv, SpoolInv, RecoverLine
  PROVE  SpoolInv'
<1>1. /\ phase = "recovering" /\ unread # <<>> /\ unread' = Tail(unread)
      /\ UNCHANGED <<phase, inflight, disk, chain, unspooled, accepted, delivered, dlq>>
  BY DEF RecoverLine, spool
<1> DEFINE x == Head(unread)
<1>2. /\ queue \in Seq(Nat) /\ unread \in Seq(Nat) /\ x \in Nat
      /\ Range(unread) = Range(Tail(unread)) \cup {x}
  <2>1. queue \in Seq(Nat) /\ unread \in Seq(Nat)
    BY EntriesFact DEF TypeOK
  <2>2. x \in Nat
    BY <1>1, <2>1
  <2> QED
    BY <1>1, <2>1, <2>2, TailRange
<1> HIDE DEF x
<1>3. inflight = {} /\ chain = <<>>
  BY <1>1 DEF OrderInv, RestInv
<1>4. \A e \in Entries : e # 0
  BY EntriesFact
<1>5. \A e \in Entries : e \in Range(queue) \cup Range(unread) <=> e \in Range(queue') \cup Range(unread')
  <2>1. CASE x = 0
    <3>1. queue' = queue
      BY <2>1 DEF RecoverLine, Corrupt, x
    <3> QED
      BY <1>1, <1>2, <1>4, <2>1, <3>1
  <2>2. CASE x # 0
    <3>1. queue' = Append(queue, x)
      BY <2>2 DEF RecoverLine, Corrupt, x
    <3>2. Range(Append(queue, x)) = Range(queue) \cup {x}
      BY <1>2, AppendPositions
    <3> QED
      BY <1>1, <1>2, <3>1, <3>2
  <2> QED
    BY <2>1, <2>2
<1>6. Backlog' = Range(queue') /\ Backlog = Range(queue) /\ Range(queue) \subseteq Range(queue')
      /\ Range(queue') \subseteq Entries
  <2>1. Backlog' = Range(queue') /\ Backlog = Range(queue)
    BY <1>1, <1>3 DEF Backlog
  <2>2. Range(Append(queue, x)) = Range(queue) \cup {x}
    BY <1>2, AppendPositions
  <2>3. queue' = queue \/ (queue' = Append(queue, x) /\ x \in Entries)
    <3>1. x \in Entries \cup {0}
      <4>1. unread \in Seq(Entries \cup {0})
        BY DEF TypeOK, Corrupt
      <4> QED
        BY <1>1, <4>1 DEF x
    <3> QED
      BY <3>1 DEF RecoverLine, Corrupt, x
  <2>4. Range(queue) \subseteq Entries
    BY RangeOfEntries DEF TypeOK
  <2> QED
    BY <2>1, <2>2, <2>3, <2>4
<1>7. \A e \in Entries : e \in Range(disk.lines) <=> e \in Range(queue) \cup Range(unread)
  BY <1>1 DEF SpoolInv, FileInv
<1>8. SpoolCoversBacklog'
  <2>1. \A e \in Range(queue') : e \in Range(disk.lines)
    BY <1>5, <1>6, <1>7
  <2>2. Delete \notin Range(chain)
    BY <1>3 DEF Range
  <2> QED
    BY <1>1, <1>6, <2>1, <2>2 DEF SpoolCoversBacklog, WillBeSpooled
<1> QED
  BY <1>1, <1>5, <1>6, <1>7, <1>8 DEF SpoolInv, FileInv, Known

LEMMA RecoveredSpool ==
  ASSUME TypeOK, OrderInv, SpoolInv, Recovered
  PROVE  SpoolInv'
<1>1. /\ phase = "recovering" /\ unread = <<>> /\ phase' = "up"
      /\ UNCHANGED <<disk, unspooled, accepted, delivered, dlq>>
      /\ queue \in Seq(Entries) /\ Rising(queue)
  BY DEF Recovered, TypeOK, OrderInv, Ordered
<1>2. inflight = {} /\ ~processing /\ chain = <<>> /\ Range(unread) = {}
  BY <1>1 DEF OrderInv, RestInv, Range
<1>3. Backlog = Range(queue) /\ Range(queue) \subseteq Entries
  BY <1>1, <1>2, RangeOfEntries DEF Backlog
<1>4. \A e \in Entries : e \in Range(disk.lines) <=> e \in Backlog
  BY <1>1, <1>2, <1>3 DEF SpoolInv, FileInv
<1>5. Backlog' = Backlog /\ chain' = chain /\ (queue # <<>> => processing')
  <2>1. CASE queue = <<>> /\ UNCHANGED <<work, chain>>
    BY <2>1 DEF work, Backlog
  <2>2. CASE queue # <<>> /\ Drain(queue, chain)
    <3>1. Backlog' = Range(queue) \cup Held
      BY <1>1, <2>2, DrainBacklog
    <3> QED
      BY <1>2, <1>3, <2>2, <3>1 DEF Drain, Held
  <2> QED
    BY <2>1, <2>2 DEF Recovered
<1>6. \A e : WillBeSpooled(e)' <=> WillBeSpooled(e)
  BY <1>1, <1>5, SameWill
<1>7. \A e \in Entries : WillBeSpooled(e) <=> e \in Range(disk.lines)
  BY <1>2 DEF WillBeSpooled, Range
<1>8. SpoolCoversBacklog'
  BY <1>1, <1>3, <1>4, <1>5, <1>6, <1>7 DEF SpoolCoversBacklog
<1>9. Drained' => \A e \in Entries : ~WillBeSpooled(e)'
  <2>1. queue = <<>> => Range(queue) = {}
    BY DEF Range
  <2> QED
    BY <1>3, <1>4, <1>5, <1>6, <1>7, <2>1 DEF Drained
<1>10. \A e \in accepted : e \in delivered \cup dlq \cup unspooled \cup Backlog
  BY <1>4 DEF SpoolInv, Known, TypeOK
<1> QED
  BY <1>1, <1>2, <1>5, <1>8, <1>9, <1>10 DEF SpoolInv, FileInv, Known

LEMMA SpoolStep ==
  ASSUME Calm
  PROVE  TypeOK /\ OrderInv /\ SingleFlight /\ PatientInv /\ SpoolInv /\ [Next]_vars => SpoolInv'
<1> SUFFICES ASSUME TypeOK, OrderInv, SingleFlight, PatientInv, SpoolInv, [Next]_vars
             PROVE  SpoolInv'
  OBVIOUS
<1>1. CASE \/ LogDirect \/ UNCHANGED vars \/ \E e \in direct : DirectSettles(e)
           \/ \E f \in Flushers : DeadlinePasses(f) \/ FlushResolves(f)
  <2>1. /\ UNCHANGED <<queue, inflight, processing, phase, disk, chain, unread, unspooled, accepted>>
        /\ delivered \subseteq delivered' /\ dlq \subseteq dlq'
    BY <1>1 DEF LogDirect, DirectSettles, DeadlinePasses, FlushResolves, vars, work, spool, life
  <2>2. Backlog' = Backlog
    BY <2>1 DEF Backlog
  <2> QED
    BY <2>1, <2>2, SameSpool
<1>2. ASSUME NEW item \in inflight, BackoffEnds(item) PROVE SpoolInv'
  <2>1. Backlog' = Backlog
    BY <1>2, RetryPending DEF BackoffEnds
  <2> QED
    BY <1>2, <2>1, SameSpool DEF BackoffEnds, spool, life
<1> QED
  BY <1>1, <1>2, LogSpool, DrainStepSpool, FlushSpool, DiskSpool, CrashSpool, RestartSpool,
     RecoverLineSpool, RecoveredSpool DEF Next

LEMMA SpoolCorrect ==
  ASSUME Calm
  PROVE  Spec => []SpoolInv
<1>1. Init => FlushInv /\ PatientInv /\ SpoolInv
  <2> SUFFICES ASSUME Init PROVE FlushInv /\ PatientInv /\ SpoolInv
    OBVIOUS
  <2>1. calls = 0 => calls <= calls
    OBVIOUS
  <2>2. Range(<<>>) = {}
    BY DEF Range
  <2>3. disk.lines = <<>> /\ ~disk.torn
    BY DEF Init, NoSpool
  <2>4. \A e : ~WillBeSpooled(e)
    BY <2>2, <2>3 DEF Init, WillBeSpooled
  <2>5. Backlog = {}
    BY <2>2 DEF Init, Backlog
  <2> QED
    BY <2>1, <2>3, <2>4, <2>5 DEF Init, FlushInv, PatientInv, FlushLeavesNothingPending, Idle,
       SpoolInv, FileInv, Known, SpoolCoversBacklog
<1>2. NoDeadline
  BY DEF NoDeadline, Calm
<1>3. TypeOK /\ OrderInv /\ SingleFlight /\ FlushInv /\ PatientInv /\ SpoolInv /\ [Next]_vars
        => (FlushInv /\ PatientInv /\ SpoolInv)'
  BY <1>2, FlushStep, PatientStep, SpoolStep
<1> QED
  BY <1>1, <1>3, TypeCorrect, OrderCorrect, SingleFlightHolds, PTL DEF Spec

(* The file holds, or will when the chained operations are done, whatever   *)
(* is pending (src/logger/transports/DurableAdapterTransport.ts:258-284).   *)
THEOREM SpoolCoversBacklogHolds ==
  ASSUME Calm
  PROVE  Spec => []SpoolCoversBacklog
<1>1. SpoolInv => SpoolCoversBacklog
  BY DEF SpoolInv, FileInv
<1> QED
  BY <1>1, SpoolCorrect, PTL

(* Through any number of deaths an accepted entry is delivered, dropped,    *)
(* pending, in the file for the next process, or was lost before its append *)
(* was done (src/logger/transports/DurableAdapterTransport.ts:229-284).     *)
THEOREM AtLeastOnceHolds ==
  ASSUME Calm
  PROVE  Spec => []AtLeastOnce
<1>1. OrderInv /\ SpoolInv => AtLeastOnce
  <2> SUFFICES ASSUME OrderInv, SpoolInv, NEW e \in accepted, phase # "up", e \in Range(disk.lines)
               PROVE  WillBeSpooled(e)
    BY DEF AtLeastOnce, SpoolInv, Known
  <2>1. chain = <<>>
    BY DEF OrderInv, RestInv
  <2> QED
    BY <2>1 DEF WillBeSpooled, Range
<1> QED
  BY <1>1, OrderCorrect, SpoolCorrect, PTL

(* When nothing is pending and the disk is quiet the file holds no entry    *)
(* (src/logger/transports/DurableAdapterTransport.ts:387).                  *)
THEOREM SpoolEmptiesItselfHolds ==
  ASSUME Calm
  PROVE  Spec => []SpoolEmptiesItself
<1>1. TypeOK /\ SpoolInv => SpoolEmptiesItself
  <2> SUFFICES ASSUME TypeOK, SpoolInv, phase = "up", Drained, chain = <<>>
               PROVE  Range(disk.lines) \subseteq {Corrupt}
    BY DEF SpoolEmptiesItself
  <2>1. \A e \in Entries : ~WillBeSpooled(e)
    BY DEF SpoolInv, FileInv
  <2>2. \A e \in Entries : e \notin Range(disk.lines)
    BY <2>1 DEF WillBeSpooled, Range
  <2>3. Range(disk.lines) \subseteq Entries \cup {Corrupt}
    BY RangeOfEntries DEF TypeOK
  <2> QED
    BY <2>2, <2>3
<1> QED
  BY <1>1, TypeCorrect, SpoolCorrect, PTL
=============================================================================
