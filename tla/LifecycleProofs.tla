---------------------------- MODULE LifecycleProofs ----------------------------
(***************************************************************************)
(* Proofs about the lifecycle, for any callers, children, transports and   *)
(* surroundings.                                                           *)
(***************************************************************************)
EXTENDS Lifecycle, SequenceTheorems, TLAPS

-----------------------------------------------------------------------------
(* What the waits of a shutdown have achieved.                              *)

(* A child the shutdown found is still waited for, or it has ended, or it   *)
(* has been sent SIGKILL, or its termination was cut short.  Its own wait   *)
(* may outlast the shutdown's only in the last case; a wait that is under   *)
(* way is one of terminateExternalProcesses().                              *)
ChildInv ==
  /\ ending # {} => terminating
  /\ \A p \in tracked \cup due : child[p] # "new"
  /\ \A p \in due : \/ p \in ending /\ stage = "terminating"
                   \/ child[p] # "running"
                   \/ p \in sigkill \cup spared

(* Where no transport threw, the sets of transports follow the stage.  The  *)
(* conjunct on transports_drained is the property to prove; the others say  *)
(* that when a round begins nothing is pending, and that what a round still *)
(* waits for is exactly what it has not settled.                            *)
RoundInv ==
  /\ stage \in {"aborted", "broken"} => threw
  /\ ~threw =>
       /\ stage # "flushing" => flushing = {}
       /\ stage # "closing" => closing = {}
       /\ stage = "flushing" => Transports \subseteq flushing \cup flushed
       /\ stage = "closing" => Transports \subseteq flushed
       /\ stage = "closing" => Transports \subseteq closing \cup closed
       /\ "transports_drained" \in Range(events) =>
            Transports \subseteq flushed /\ Transports \subseteq closed

-----------------------------------------------------------------------------
(* Lemmas about the history of events.                                      *)

LEMMA AppendEvents ==
  ASSUME NEW s \in Seq(Emitted), NEW e \in Emitted
  PROVE  /\ Append(s, e) \in Seq(Emitted)
         /\ Range(Append(s, e)) = Range(s) \cup {e}
<1>1. Append(s, e) \in Seq(Emitted)
  OBVIOUS
<1>2. \A i \in 1..Len(s) : Append(s, e)[i] = s[i]
  OBVIOUS
<1>3. Append(s, e)[Len(s) + 1] = e /\ DOMAIN Append(s, e) = 1..(Len(s) + 1)
        /\ DOMAIN s = 1..Len(s) /\ Len(s) \in Nat
  OBVIOUS
<1>4. \A x : x \in Range(Append(s, e)) <=> x \in Range(s) \/ x = e
  BY <1>2, <1>3 DEF Range
<1> QED
  BY <1>1, <1>4

LEMMA FailEvents ==
  ASSUME NEW s \in Seq(Emitted), NEW t \in Seq(Emitted)
  PROVE  /\ s \o Append(t, "error") \in Seq(Emitted)
         /\ Range(s \o Append(t, "error")) = Range(s) \cup Range(t) \cup {"error"}
<1> DEFINE u == Append(t, "error")
<1>1. u \in Seq(Emitted) /\ Range(u) = Range(t) \cup {"error"}
  BY AppendEvents DEF Emitted
<1> HIDE DEF u
<1>2. s \o u \in Seq(Emitted)
  BY <1>1
<1>3. /\ DOMAIN s = 1..Len(s) /\ DOMAIN u = 1..Len(u) /\ Len(s) \in Nat /\ Len(u) \in Nat
      /\ DOMAIN (s \o u) = 1..(Len(s) + Len(u))
  BY <1>1
<1>4. \A i \in 1..(Len(s) + Len(u)) :
        (s \o u)[i] = IF i <= Len(s) THEN s[i] ELSE u[i - Len(s)]
  BY <1>1
<1>5. ASSUME NEW x \in Range(s \o u) PROVE x \in Range(s) \cup Range(u)
  <2>1. PICK i \in 1..(Len(s) + Len(u)) : (s \o u)[i] = x
    BY <1>3 DEF Range
  <2>2. CASE i <= Len(s)
    BY <1>3, <1>4, <2>1, <2>2 DEF Range
  <2>3. CASE i > Len(s)
    <3>1. i - Len(s) \in 1..Len(u) /\ u[i - Len(s)] = x
      BY <1>3, <1>4, <2>1, <2>3
    <3> QED
      BY <1>3, <3>1 DEF Range
  <2> QED
    BY <1>3, <2>2, <2>3
<1>6. ASSUME NEW x \in Range(s) PROVE x \in Range(s \o u)
  BY <1>3, <1>4 DEF Range
<1>7. ASSUME NEW x \in Range(u) PROVE x \in Range(s \o u)
  <2>1. PICK i \in 1..Len(u) : u[i] = x
    BY <1>3 DEF Range
  <2>2. i + Len(s) \in 1..(Len(s) + Len(u)) /\ ~(i + Len(s) <= Len(s))
          /\ (i + Len(s)) - Len(s) = i
    BY <1>3
  <2>3. (s \o u)[i + Len(s)] = x
    BY <1>4, <2>1, <2>2
  <2> QED
    BY <1>3, <2>2, <2>3 DEF Range
<1>8. Range(s \o u) = Range(s) \cup Range(u)
  BY <1>5, <1>6, <1>7
<1> QED
  BY <1>1, <1>2, <1>8 DEF u

(* Every sequence of events an action adds is one of these. *)
LEMMA AddedEvents ==
  /\ <<>> \in Seq(Emitted) /\ Range(<<>>) = {}
  /\ <<"transports_drained">> \in Seq(Emitted)
  /\ <<"transports_drained", "shutdown">> \in Seq(Emitted)
  /\ <<"ready">> \in Seq(Emitted) /\ Range(<<"ready">>) = {"ready"}
  /\ <<"error">> \in Seq(Emitted) /\ Range(<<"error">>) = {"error"}
  /\ <<"ready", "error">> \in Seq(Emitted)
  /\ <<"shutting_down">> \in Seq(Emitted) /\ Range(<<"shutting_down">>) = {"shutting_down"}
  /\ Range(<<"ready", "error">>) = {"ready", "error"}
<1>1. /\ <<>> \in Seq(Emitted) /\ <<"transports_drained">> \in Seq(Emitted)
      /\ <<"transports_drained", "shutdown">> \in Seq(Emitted)
      /\ <<"ready">> \in Seq(Emitted) /\ <<"error">> \in Seq(Emitted)
      /\ <<"ready", "error">> \in Seq(Emitted) /\ <<"shutting_down">> \in Seq(Emitted)
  BY DEF Emitted
<1>2. /\ Range(<<>>) = {} /\ Range(<<"ready">>) = {"ready"}
      /\ Range(<<"error">>) = {"error"} /\ Range(<<"shutting_down">>) = {"shutting_down"}
      /\ Range(<<"ready", "error">>) = {"ready", "error"}
  BY DEF Range
<1> QED
  BY <1>1, <1>2

-----------------------------------------------------------------------------
(* Types                                                                    *)

LEMMA AbortStage ==
  FactoryAborts => stage' \in {"aborted", "broken"} /\ threw' = TRUE
BY DEF FactoryAborts

LEMMA FlushAllType ==
  ASSUME TypeOK, FlushAll
  PROVE  /\ flushing' \subseteq Transports /\ closing' \subseteq Transports
         /\ stage' \in {"flushing", "aborted", "broken"} /\ threw' \in BOOLEAN
BY AbortStage DEF TypeOK, FlushAll, CalledBeforeThrow

LEMMA AnswerType ==
  ASSUME NEW calls \in [Callers -> {"idle", "running", "returned", "rejected"}],
         NEW status \in {"returned", "rejected"}
  PROVE  Answered(calls, status) \in [Callers -> {"idle", "running", "returned", "rejected"}]
BY DEF Answered

(* What the catch block leaves, whatever it emits. *)
LEMMA FailType ==
  ASSUME TypeOK, NEW emitted \in Seq(Emitted),
         NEW calls \in [Callers -> {"idle", "running", "returned", "rejected"}],
         Fail(emitted, calls)
  PROVE  /\ state' = "ERROR" /\ rescue' \in BOOLEAN
         /\ call' \in [Callers -> {"idle", "running", "returned", "rejected"}]
         /\ events' \in Seq(Emitted)
         /\ flushing' \subseteq Transports /\ closing' \subseteq Transports
         /\ stage' \in {"none", "flushing", "aborted", "broken"}
         /\ threw' \in BOOLEAN
<1>1. state' = "ERROR" /\ events' \in Seq(Emitted)
  BY FailEvents DEF TypeOK, Fail
<1>2. CASE stage' = "none" /\ call' = Answered(calls, "rejected")
             /\ UNCHANGED <<rescue, flushing, closing, threw>>
  BY <1>1, <1>2, AnswerType DEF TypeOK
<1>3. CASE rescue' = TRUE /\ FlushAll /\ call' = calls
  BY <1>1, <1>3, FlushAllType DEF TypeOK
<1> QED
  BY <1>2, <1>3 DEF Fail

LEMMA TerminateType ==
  ASSUME TypeOK, Terminate
  PROVE  ending' \subseteq tracked /\ terminating' \in BOOLEAN
BY DEF TypeOK, Terminate

LEMMA CallType ==
  ASSUME TypeOK, NEW c \in Callers,
         CallIgnored(c) \/ CallRejected(c) \/ CallFails(c) \/ CallShutdown(c)
  PROVE  TypeOK'
<1> DEFINE running == [call EXCEPT ![c] = "running"]
<1>1. Append(events, "shutting_down") \in Seq(Emitted)
  BY AppendEvents DEF TypeOK, Emitted
<1>2. CASE CallIgnored(c) \/ CallRejected(c)
  BY <1>2 DEF TypeOK, CallIgnored, CallRejected, children, transports
<1>3. CASE CallFails(c)
  BY <1>1, <1>3 DEF TypeOK, CallFails, States, children, transports
<1>4. CASE CallShutdown(c)
  <2>1. running \in [Callers -> {"idle", "running", "returned", "rejected"}]
    BY DEF TypeOK
  <2> HIDE DEF running
  <2>2. /\ ending' \subseteq tracked /\ terminating' \in BOOLEAN /\ due' = tracked
        /\ UNCHANGED <<child, tracked, sigkill, flushed, closed>>
        /\ state = "READY"
    BY <1>4, TerminateType DEF CallShutdown
  <2>3. CASE /\ state' = "SHUTTING_DOWN"
             /\ events' = Append(events, "shutting_down")
             /\ spared' = tracked \ ending'
             /\ stage' = "terminating" /\ call' = running
             /\ UNCHANGED <<rescue, flushing, closing, threw>>
    BY <1>1, <2>1, <2>2, <2>3 DEF TypeOK, States
  <2>4. CASE spared' = tracked /\ Fail(<<"shutting_down">>, running)
    BY <2>1, <2>2, <2>4, FailType, AddedEvents DEF TypeOK, States
  <2> QED
    BY <1>4, <2>3, <2>4 DEF CallShutdown, running
<1> QED
  BY <1>2, <1>3, <1>4

LEMMA ChildType ==
  ASSUME TypeOK, NEW p \in Children,
         RegisterChild(p) \/ ChildEnds(p) \/ GraceEnds(p)
  PROVE  TypeOK'
<1>1. CASE RegisterChild(p)
  BY <1>1 DEF TypeOK, RegisterChild, machine, transports
<1>2. CASE ChildEnds(p)
  BY <1>2 DEF TypeOK, ChildEnds, machine, transports
<1>3. CASE GraceEnds(p)
  BY <1>3 DEF TypeOK, GraceEnds, machine, transports
<1> QED
  BY <1>1, <1>2, <1>3

LEMMA EndType ==
  ASSUME TypeOK, ShutdownDone \/ ShutdownBroken \/ RescueDone \/ RescueBroken
  PROVE  TypeOK'
<1>1. CASE ShutdownDone
  <2>1. CASE /\ state' = "SHUTDOWN"
             /\ events' = events \o <<"transports_drained", "shutdown">>
             /\ stage' = "none" /\ Answer("returned")
             /\ UNCHANGED <<rescue, flushing, closing, threw>>
    <3>1. events' \in Seq(Emitted)
      BY <2>1, AddedEvents DEF TypeOK
    <3>2. ~rescue
      BY <1>1 DEF ShutdownDone
    <3> QED
      BY <1>1, <2>1, <3>1, <3>2, AnswerType
      DEF TypeOK, ShutdownDone, Answer, States, children
  <2>2. CASE Fail(<<"transports_drained">>, call)
    BY <1>1, <2>2, FailType, AddedEvents DEF TypeOK, ShutdownDone, States, children
  <2>3. CASE Fail(<<"transports_drained", "shutdown">>, call)
    BY <1>1, <2>3, FailType, AddedEvents DEF TypeOK, ShutdownDone, States, children
  <2> QED
    BY <1>1, <2>1, <2>2, <2>3 DEF ShutdownDone
<1>2. CASE ShutdownBroken
  BY <1>2, FailType, AddedEvents DEF TypeOK, ShutdownBroken, States, children
<1>3. CASE RescueDone
  <2>1. events' \in Seq(Emitted)
    BY <1>3, AppendEvents DEF TypeOK, RescueDone, Emitted
  <2>2. call' \in [Callers -> {"idle", "running", "returned", "rejected"}]
    BY <1>3, AnswerType DEF TypeOK, RescueDone, Answer
  <2> QED
    BY <1>3, <2>1, <2>2 DEF TypeOK, RescueDone, children, transports
<1>4. CASE RescueBroken
  BY <1>4, AnswerType DEF TypeOK, RescueBroken, Answer, children, transports
<1> QED
  BY <1>1, <1>2, <1>3, <1>4

(* The variables keep their types, and a shutdown on its error path is in   *)
(* the state ERROR.                                                         *)
THEOREM TypeCorrect == Spec => []TypeOK
<1>1. Init => TypeOK
  BY AddedEvents DEF Init, TypeOK, States
<1>2. ASSUME TypeOK, [Next]_vars PROVE TypeOK'
  <2>1. CASE InitSucceeds
    BY <1>2, <2>1, AddedEvents
    DEF TypeOK, InitSucceeds, States, children, transports
  <2>2. CASE InitFails
    BY <1>2, <2>2, AddedEvents DEF TypeOK, InitFails, States, children, transports
  <2>3. CASE \E p \in Children : RegisterChild(p) \/ ChildEnds(p) \/ GraceEnds(p)
    BY <1>2, <2>3, ChildType
  <2>4. CASE \E c \in Callers : CallIgnored(c) \/ CallRejected(c) \/ CallFails(c)
                                 \/ CallShutdown(c)
    BY <1>2, <2>4, CallType
  <2>5. CASE ChildrenEnded
    <3>1. CASE FlushAll /\ UNCHANGED <<state, call, rescue, events>>
      BY <1>2, <2>5, <3>1, FlushAllType DEF TypeOK, ChildrenEnded, children
    <3>2. CASE Fail(<<>>, call)
      BY <1>2, <2>5, <3>2, FailType, AddedEvents
      DEF TypeOK, ChildrenEnded, States, children
    <3> QED
      BY <2>5, <3>1, <3>2 DEF ChildrenEnded
  <2>6. CASE \E t \in Transports : FlushSettles(t)
    BY <1>2, <2>6 DEF TypeOK, FlushSettles, machine, children
  <2>7. CASE CloseAll
    BY <1>2, <2>7, AbortStage
    DEF TypeOK, CloseAll, CloseEach, CalledBeforeThrow, children
  <2>8. CASE \E t \in Transports : CloseSettles(t)
    BY <1>2, <2>8 DEF TypeOK, CloseSettles, machine, children
  <2>9. CASE ShutdownDone \/ ShutdownBroken \/ RescueDone \/ RescueBroken
    BY <1>2, <2>9, EndType
  <2>10. CASE UNCHANGED vars
    BY <1>2, <2>10 DEF TypeOK, vars, machine, children, transports
  <2>11. CASE TerminationEnds
    BY <1>2, <2>11 DEF TypeOK, TerminationEnds, machine, transports
  <2> QED
    BY <1>2, <2>1, <2>2, <2>3, <2>4, <2>5, <2>6, <2>7, <2>8, <2>9, <2>10, <2>11 DEF Next
<1> QED
  BY <1>1, <1>2, PTL DEF Spec

-----------------------------------------------------------------------------
(* One shutdown                                                             *)

(* No shutdown runs while the state is one it could start from. *)
NotBegun == state \in {"NOT_INITIALIZED", "READY"} => stage = "none"

(* The catch block keeps the calls it is given, of which one runs, or       *)
(* answers that one.                                                        *)
LEMMA FailOne ==
  ASSUME NEW calls \in [Callers -> {"idle", "running", "returned", "rejected"}],
         \A c, d \in Callers : calls[c] = "running" /\ calls[d] = "running" => c = d,
         \E c \in Callers : calls[c] = "running",
         NEW emitted, Fail(emitted, calls)
  PROVE  OneShutdown' /\ NotBegun'
<1>1. CASE stage' = "none" /\ call' = Answered(calls, "rejected")
  BY <1>1 DEF Answered, OneShutdown, NotBegun
<1>2. CASE FlushAll /\ call' = calls
  <2>1. stage' # "none"
    BY <1>2, AbortStage DEF FlushAll
  <2> QED
    BY <1>2, <2>1 DEF Fail, OneShutdown, NotBegun
<1> QED
  BY <1>1, <1>2 DEF Fail

LEMMA CallOne ==
  ASSUME TypeOK, OneShutdown, NotBegun, NEW c \in Callers,
         CallIgnored(c) \/ CallRejected(c) \/ CallFails(c) \/ CallShutdown(c)
  PROVE  OneShutdown' /\ NotBegun'
<1> DEFINE running == [call EXCEPT ![c] = "running"]
<1>1. CASE CallIgnored(c) \/ CallRejected(c) \/ CallFails(c)
  BY <1>1 DEF TypeOK, OneShutdown, NotBegun, CallIgnored, CallRejected, CallFails
<1>2. CASE CallShutdown(c)
  <2>1. \A d \in Callers : call[d] # "running"
    BY <1>2 DEF OneShutdown, NotBegun, CallShutdown
  <2>2. \A d \in Callers : running[d] = "running" <=> d = c
    BY <2>1 DEF TypeOK
  <2>3. running \in [Callers -> {"idle", "running", "returned", "rejected"}]
    BY DEF TypeOK
  <2>4. \/ stage' = "terminating" /\ call' = running /\ state' = "SHUTTING_DOWN"
        \/ Fail(<<"shutting_down">>, running)
    BY <1>2 DEF CallShutdown
  <2> HIDE DEF running
  <2>5. CASE stage' = "terminating" /\ call' = running /\ state' = "SHUTTING_DOWN"
    BY <2>2, <2>5 DEF OneShutdown, NotBegun
  <2>6. CASE Fail(<<"shutting_down">>, running)
    BY <2>2, <2>3, <2>6, FailOne
  <2> QED
    BY <2>4, <2>5, <2>6
<1> QED
  BY <1>1, <1>2

(* The call that ran is answered, and none runs. *)
LEMMA AnsweredOne ==
  ASSUME NEW status \in {"returned", "rejected"}, Answer(status),
         stage' = "none"
  PROVE  OneShutdown' /\ NotBegun'
BY DEF Answer, Answered, OneShutdown, NotBegun

(* The call that runs goes on. *)
LEMMA GoesOn ==
  ASSUME OneShutdown, NotBegun, UNCHANGED call, stage # "none", stage' # "none",
         state' \in {state, "ERROR"}
  PROVE  OneShutdown' /\ NotBegun'
BY DEF OneShutdown, NotBegun

(* The call that runs has failed. *)
LEMMA FailsOne ==
  ASSUME TypeOK, OneShutdown, NEW emitted, Fail(emitted, call), stage # "none"
  PROVE  OneShutdown' /\ NotBegun'
BY FailOne DEF TypeOK, OneShutdown

LEMMA EndOne ==
  ASSUME TypeOK, OneShutdown, NotBegun,
         ShutdownDone \/ ShutdownBroken \/ RescueDone \/ RescueBroken
  PROVE  OneShutdown' /\ NotBegun'
<1>1. stage # "none"
  BY DEF ShutdownDone, ShutdownBroken, RescueDone, RescueBroken, FactoryDone
<1>2. CASE ShutdownDone
  <2>1. CASE stage' = "none" /\ Answer("returned")
    BY <2>1, AnsweredOne
  <2>2. CASE \E emitted \in Seq(Emitted) : Fail(emitted, call)
    BY <1>1, <2>2, FailsOne
  <2> QED
    BY <1>2, <2>1, <2>2, AddedEvents DEF ShutdownDone
<1>3. CASE ShutdownBroken
  BY <1>1, <1>3, FailsOne DEF ShutdownBroken
<1>4. CASE RescueDone \/ RescueBroken
  BY <1>4, AnsweredOne DEF RescueDone, RescueBroken
<1> QED
  BY <1>2, <1>3, <1>4

LEMMA NotBegunHolds == Spec => [](OneShutdown /\ NotBegun)
<1>1. Init => OneShutdown /\ NotBegun
  BY DEF Init, OneShutdown, NotBegun
<1>2. ASSUME TypeOK, OneShutdown, NotBegun, [Next]_vars
      PROVE  OneShutdown' /\ NotBegun'
  <2>1. CASE InitSucceeds \/ InitFails
    BY <1>2, <2>1 DEF OneShutdown, NotBegun, InitSucceeds, InitFails
  <2>2. CASE \/ \E p \in Children : RegisterChild(p) \/ ChildEnds(p) \/ GraceEnds(p)
             \/ \E t \in Transports : FlushSettles(t) \/ CloseSettles(t)
             \/ TerminationEnds
    BY <1>2, <2>2 DEF OneShutdown, NotBegun, RegisterChild, ChildEnds, GraceEnds,
                      TerminationEnds, FlushSettles, CloseSettles, machine
  <2>3. CASE \E c \in Callers : CallIgnored(c) \/ CallRejected(c) \/ CallFails(c)
                                 \/ CallShutdown(c)
    BY <1>2, <2>3, CallOne
  <2>4. CASE ChildrenEnded
    <3>1. CASE FlushAll /\ UNCHANGED <<state, call>>
      <4>1. stage # "none" /\ stage' # "none"
        BY <2>4, <3>1, AbortStage DEF ChildrenEnded, FlushAll
      <4> QED
        BY <1>2, <3>1, <4>1, GoesOn
    <3>2. CASE Fail(<<>>, call)
      <4>1. stage # "none"
        BY <2>4 DEF ChildrenEnded
      <4> QED
        BY <1>2, <3>2, <4>1, FailsOne
    <3> QED
      BY <2>4, <3>1, <3>2 DEF ChildrenEnded
  <2>5. CASE CloseAll
    <3>1. stage # "none" /\ stage' # "none" /\ UNCHANGED <<call, state>>
      BY <2>5, AbortStage DEF CloseAll, CloseEach
    <3> QED
      BY <1>2, <3>1, GoesOn
  <2>6. CASE ShutdownDone \/ ShutdownBroken \/ RescueDone \/ RescueBroken
    BY <1>2, <2>6, EndOne
  <2>7. CASE UNCHANGED vars
    BY <1>2, <2>7 DEF OneShutdown, NotBegun, vars, machine
  <2> QED
    BY <1>2, <2>1, <2>2, <2>3, <2>4, <2>5, <2>6, <2>7 DEF Next
<1> QED
  BY <1>1, <1>2, TypeCorrect, PTL DEF Spec

(* At most one call of shutdown() is ever running, and one is while the     *)
(* steps of a shutdown are under way.                                       *)
THEOREM OneShutdownHolds == Spec => []OneShutdown
BY NotBegunHolds, PTL

-----------------------------------------------------------------------------
(* Children end before the transports                                       *)

(* Once the shutdown has left "terminating", each child it found tracked    *)
(* has ended or has been sent SIGKILL, unless its own termination, or the   *)
(* wait of the shutdown, was cut short by what threw.                       *)
THEOREM ChildrenEndFirstHolds == Spec => []ChildrenEndFirst
<1>1. Init => ChildInv
  BY DEF Init, ChildInv
<1>2. ASSUME TypeOK, ChildInv, [Next]_vars PROVE ChildInv'
  <2>1. CASE InitSucceeds \/ InitFails
    BY <1>2, <2>1 DEF ChildInv, InitSucceeds, InitFails, children
  <2>2. CASE \E p \in Children : RegisterChild(p) \/ ChildEnds(p)
    BY <1>2, <2>2 DEF TypeOK, ChildInv, RegisterChild, ChildEnds, machine
  <2>3. CASE \E p \in Children : GraceEnds(p)
    BY <1>2, <2>3 DEF TypeOK, ChildInv, GraceEnds, machine
  <2>4. CASE \E c \in Callers : CallIgnored(c) \/ CallRejected(c) \/ CallFails(c)
    BY <1>2, <2>4 DEF ChildInv, CallIgnored, CallRejected, CallFails, children
  <2>5. CASE \E c \in Callers : CallShutdown(c)
    <3>1. PICK c \in Callers : CallShutdown(c)
      BY <2>5
    <3>2. ending' # {} => terminating'
      BY <3>1 DEF CallShutdown, Terminate
    <3>3. \/ stage' = "terminating" /\ spared' = tracked \ ending'
          \/ spared' = tracked
      BY <3>1 DEF CallShutdown
    <3>4. due' = tracked /\ UNCHANGED <<child, tracked, sigkill>>
      BY <3>1 DEF CallShutdown
    <3> QED
      BY <1>2, <3>2, <3>3, <3>4 DEF ChildInv
  <2>6. CASE ChildrenEnded
    BY <1>2, <2>6 DEF ChildInv, ChildrenEnded, children
  <2>7. CASE \E t \in Transports : FlushSettles(t) \/ CloseSettles(t)
    BY <1>2, <2>7 DEF ChildInv, FlushSettles, CloseSettles, machine, children
  <2>8. CASE CloseAll
    BY <1>2, <2>8, AbortStage DEF ChildInv, CloseAll, CloseEach, children
  <2>9. CASE ShutdownDone \/ ShutdownBroken \/ RescueDone \/ RescueBroken
    <3>1. UNCHANGED children /\ stage # "terminating"
      BY <2>9 DEF ShutdownDone, ShutdownBroken, RescueDone, RescueBroken, FactoryDone
    <3> QED
      BY <1>2, <3>1 DEF ChildInv, children
  <2>10. CASE UNCHANGED vars
    BY <1>2, <2>10 DEF ChildInv, vars, machine, children
  <2>11. CASE TerminationEnds
    BY <1>2, <2>11 DEF ChildInv, TerminationEnds, machine
  <2> QED
    BY <1>2, <2>1, <2>2, <2>3, <2>4, <2>5, <2>6, <2>7, <2>8, <2>9, <2>10, <2>11 DEF Next
<1>3. ChildInv => ChildrenEndFirst
  BY DEF ChildInv, ChildrenEndFirst
<1> QED
  BY <1>1, <1>2, <1>3, TypeCorrect, PTL DEF Spec

-----------------------------------------------------------------------------
(* Transports are flushed, then shut down, then reported drained            *)

(* A round of flushes begins with nothing pending, or marks that a          *)
(* transport threw.                                                         *)
LEMMA FlushAllRound ==
  ASSUME TypeOK, RoundInv, stage \notin {"flushing", "closing"}
           \/ (stage = "closing" /\ closing = {}),
         FlushAll, UNCHANGED <<flushed, closed>>,
         "transports_drained" \in Range(events') /\ ~threw =>
           Transports \subseteq flushed /\ Transports \subseteq closed
  PROVE  RoundInv'
<1>1. CASE flushing' = Transports /\ stage' = "flushing" /\ UNCHANGED threw
  BY <1>1 DEF RoundInv, FlushAll
<1>2. CASE FactoryAborts
  BY <1>2, AbortStage DEF RoundInv
<1> QED
  BY <1>1, <1>2 DEF FlushAll

(* The end of a round of the factory that was not broken: everything is     *)
(* flushed and shut down, unless a transport threw.                         *)
LEMMA DoneRound ==
  ASSUME RoundInv, FactoryDone, ~threw
  PROVE  Transports \subseteq flushed /\ Transports \subseteq closed
BY DEF RoundInv, FactoryDone

LEMMA FailRound ==
  ASSUME TypeOK, RoundInv, NEW emitted \in Seq(Emitted), NEW calls, Fail(emitted, calls),
         stage \notin {"flushing", "closing"} \/ (stage = "closing" /\ closing = {}),
         "transports_drained" \in Range(emitted) /\ ~threw =>
           Transports \subseteq flushed /\ Transports \subseteq closed,
         UNCHANGED <<flushed, closed>>
  PROVE  RoundInv'
<1>1. Range(events') = Range(events) \cup Range(emitted) \cup {"error"}
  BY FailEvents DEF TypeOK, Fail
<1>2. "transports_drained" \in Range(events') /\ ~threw =>
        Transports \subseteq flushed /\ Transports \subseteq closed
  BY <1>1 DEF RoundInv
<1>3. CASE stage' = "none" /\ UNCHANGED <<rescue, flushing, closing, threw>>
  BY <1>2, <1>3 DEF RoundInv
<1>4. CASE rescue' = TRUE /\ FlushAll
  BY <1>2, <1>4, FlushAllRound
<1> QED
  BY <1>3, <1>4 DEF Fail

LEMMA EndRound ==
  ASSUME TypeOK, RoundInv, ShutdownDone \/ ShutdownBroken \/ RescueDone \/ RescueBroken
  PROVE  RoundInv'
<1>1. CASE ShutdownDone
  <2>1. CASE stage' = "none" /\ UNCHANGED <<rescue, flushing, closing, threw>>
    BY <1>1, <2>1, DoneRound DEF RoundInv, ShutdownDone, FactoryDone
  <2>2. CASE Fail(<<"transports_drained">>, call)
    BY <1>1, <2>2, FailRound, DoneRound, AddedEvents DEF ShutdownDone, FactoryDone
  <2>3. CASE Fail(<<"transports_drained", "shutdown">>, call)
    BY <1>1, <2>3, FailRound, DoneRound, AddedEvents DEF ShutdownDone, FactoryDone
  <2> QED
    BY <1>1, <2>1, <2>2, <2>3 DEF ShutdownDone
<1>2. CASE ShutdownBroken
  BY <1>2, FailRound, AddedEvents DEF ShutdownBroken, FactoryDone
<1>3. CASE RescueDone
  BY <1>3, DoneRound DEF RoundInv, RescueDone, FactoryDone, transports
<1>4. CASE RescueBroken
  BY <1>4 DEF RoundInv, RescueBroken, transports
<1> QED
  BY <1>1, <1>2, <1>3, <1>4

LEMMA RoundsHold == Spec => []RoundInv
<1>1. Init => RoundInv
  BY AddedEvents DEF Init, RoundInv
<1>2. ASSUME TypeOK, NotBegun, RoundInv, [Next]_vars PROVE RoundInv'
  <2>1. CASE InitSucceeds \/ InitFails
    BY <1>2, <2>1, AddedEvents DEF RoundInv, InitSucceeds, InitFails, transports
  <2>2. CASE \/ \E p \in Children : RegisterChild(p) \/ ChildEnds(p) \/ GraceEnds(p)
             \/ TerminationEnds
    BY <1>2, <2>2
    DEF RoundInv, RegisterChild, ChildEnds, GraceEnds, TerminationEnds, machine,
        transports
  <2>3. CASE \E c \in Callers : CallIgnored(c) \/ CallRejected(c)
    BY <1>2, <2>3 DEF RoundInv, CallIgnored, CallRejected, transports
  <2>4. CASE \E c \in Callers : CallFails(c) \/ CallShutdown(c)
    <3>1. PICK c \in Callers : CallFails(c) \/ CallShutdown(c)
      BY <2>4
    <3>2. Range(Append(events, "shutting_down")) = Range(events) \cup {"shutting_down"}
      BY <1>2, AppendEvents DEF TypeOK, Emitted
    <3>3. stage = "none" /\ UNCHANGED <<flushed, closed>>
      BY <1>2, <3>1 DEF NotBegun, CallFails, CallShutdown, transports
    <3>4. \/ /\ events' = Append(events, "shutting_down")
             /\ stage' \in {"none", "terminating"}
             /\ UNCHANGED <<flushing, closing, threw>>
          \/ Fail(<<"shutting_down">>, [call EXCEPT ![c] = "running"])
      BY <3>1, <3>3 DEF CallFails, CallShutdown, transports
    <3>5. CASE Fail(<<"shutting_down">>, [call EXCEPT ![c] = "running"])
      BY <1>2, <3>3, <3>5, FailRound, AddedEvents
    <3>6. CASE /\ events' = Append(events, "shutting_down")
               /\ stage' \in {"none", "terminating"}
               /\ UNCHANGED <<flushing, closing, threw>>
      <4>1. "transports_drained" \in Range(events') => "transports_drained" \in Range(events)
        BY <3>2, <3>6
      <4> QED
        BY <1>2, <3>3, <3>6, <4>1 DEF RoundInv
    <3> QED
      BY <3>4, <3>5, <3>6
  <2>5. CASE ChildrenEnded
    <3>1. CASE FlushAll /\ UNCHANGED events
      BY <1>2, <2>5, <3>1, FlushAllRound DEF RoundInv, ChildrenEnded
    <3>2. CASE Fail(<<>>, call)
      BY <1>2, <2>5, <3>2, FailRound, AddedEvents DEF ChildrenEnded
    <3> QED
      BY <2>5, <3>1, <3>2 DEF ChildrenEnded
  <2>6. CASE \E t \in Transports : FlushSettles(t)
    BY <1>2, <2>6 DEF RoundInv, FlushSettles, machine
  <2>7. CASE CloseAll
    BY <1>2, <2>7, AbortStage DEF RoundInv, CloseAll, CloseEach
  <2>8. CASE \E t \in Transports : CloseSettles(t)
    BY <1>2, <2>8 DEF RoundInv, CloseSettles, machine
  <2>9. CASE ShutdownDone \/ ShutdownBroken \/ RescueDone \/ RescueBroken
    BY <1>2, <2>9, EndRound
  <2>10. CASE UNCHANGED vars
    BY <1>2, <2>10 DEF RoundInv, vars, machine, transports
  <2> QED
    BY <1>2, <2>1, <2>2, <2>3, <2>4, <2>5, <2>6, <2>7, <2>8, <2>9, <2>10 DEF Next
<1> QED
  BY <1>1, <1>2, TypeCorrect, NotBegunHolds, PTL DEF Spec

(* transports_drained is only emitted when every transport has been flushed *)
(* and shut down, whatever listeners throw and on the error path too.       *)
THEOREM DrainedMeansClosedHolds == Spec => []DrainedMeansClosed
<1>1. TypeOK /\ RoundInv => DrainedMeansClosed
  BY DEF TypeOK, RoundInv, DrainedMeansClosed
<1> QED
  BY <1>1, TypeCorrect, RoundsHold, PTL

(* No transport is shut down while another is still being flushed.          *)
THEOREM FlushBeforeCloseHolds == Spec => []FlushBeforeClose
<1>1. TypeOK /\ RoundInv => FlushBeforeClose
  BY DEF TypeOK, RoundInv, FlushBeforeClose
<1> QED
  BY <1>1, TypeCorrect, RoundsHold, PTL
=============================================================================
