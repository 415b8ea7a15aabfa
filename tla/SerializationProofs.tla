-------------------------- MODULE SerializationProofs --------------------------
(***************************************************************************)
(* Proofs about serialization, for any number of instances in a process,   *)
(* any rules, transports, exemptions and addons, and whichever hooks throw.*)
(***************************************************************************)
EXTENDS Serialization, TLAPS

Stages == {"unchecked", "compiled", "on", "off", "refused"}

-----------------------------------------------------------------------------
(* What the parts of an action do.                                          *)

(* Counting keeps the type and takes nothing away from anybody.             *)
LEMMA CountGrows ==
  ASSUME TypeOK, NEW i \in Instances, NEW told \in SUBSET Failures, Count(i, told)
  PROVE  /\ failures' \in [Instances -> SUBSET Failures]
         /\ \A j \in Instances : failures[j] \subseteq failures'[j]
         /\ told \subseteq failures'[i]
BY DEF TypeOK, Count

LEMMA ResolveType ==
  ASSUME TypeOK, NEW i \in Instances, NEW outcome \in Stages, Resolve(i, outcome)
  PROVE  /\ native' \in [Instances -> [Managers -> Stages]]
         /\ \A j \in Instances, m \in Managers :
              native'[j][m] = IF j = i /\ m = Manager(i) THEN outcome ELSE native[j][m]
<1>1. Manager(i) \in Managers
  BY DEF Manager, Managers
<1>2. native \in [Instances -> [Managers -> Stages]]
  BY DEF TypeOK, Stages
<1> QED
  BY <1>1, <1>2 DEF Resolve

(* An entry about an error, or nothing, is handed out, and counted.         *)
Apologizes(i) ==
  /\ op' = [op EXCEPT ![i] = None]
  /\ "log" \in failures'[i]
  /\ \E targets : \E entry \in {ErrorEntry, Nothing} :
       last' = [instance |-> i, got |-> [t \in targets |-> entry]]

LEMMA LogThrowsStep ==
  ASSUME TypeOK, NEW i \in Instances, NEW targets, NEW told \in SUBSET Failures,
         LogThrows(i, targets, told)
  PROVE  /\ failures' \in [Instances -> SUBSET Failures]
         /\ \A j \in Instances : failures[j] \subseteq failures'[j]
         /\ Apologizes(i)
<1>1. told \cup {"log"} \in SUBSET Failures
  BY DEF Failures
<1>2. Count(i, told \cup {"log"})
  BY DEF LogThrows
<1>3. /\ failures' \in [Instances -> SUBSET Failures]
      /\ \A j \in Instances : failures[j] \subseteq failures'[j]
      /\ "log" \in failures'[i]
  BY <1>1, <1>2, CountGrows
<1>4. PICK entry \in {ErrorEntry, Nothing} : Deliver(i, [t \in targets |-> entry])
  BY DEF LogThrows
<1>5. /\ op' = [op EXCEPT ![i] = None]
      /\ last' = [instance |-> i, got |-> [t \in targets |-> entry]]
  BY <1>4 DEF Deliver
<1>6. \E those : \E one \in {ErrorEntry, Nothing} :
        last' = [instance |-> i, got |-> [t \in those |-> one]]
  BY <1>5, Zenon
<1>7. Apologizes(i)
  BY <1>3, <1>5, <1>6, Zenon DEF Apologizes
<1> QED
  BY <1>3, <1>7

(* What choosing an engine does besides: nothing is taken from the          *)
(* counters, and either the call goes on, or getStats() throws, or the log  *)
(* call does.                                                               *)
Told(i) ==
  /\ failures' \in [Instances -> SUBSET Failures]
  /\ \A j \in Instances : failures[j] \subseteq failures'[j]
  /\ \/ last' = last /\ op' \in {op, [op EXCEPT ![i] = None]}
     \/ Apologizes(i)

LEMMA FallbackStep ==
  ASSUME TypeOK, NEW i \in Instances,
         \/ FallbackTold(i)
         \/ FallbackThrows(i)
         \/ UNCHANGED <<failures, op, last>>
  PROVE  Told(i)
<1>1. {"fallback"} \in SUBSET Failures
  BY DEF Failures
<1>2. CASE FallbackTold(i)
  BY <1>1, <1>2, CountGrows DEF FallbackTold, Told
<1>3. CASE FallbackThrows(i)
  <2>1. CASE \E targets \in Targets : LogThrows(i, targets, {"fallback"})
    BY <1>1, <2>1, LogThrowsStep DEF Told
  <2>2. CASE Count(i, {"fallback"}) /\ op' = [op EXCEPT ![i] = None] /\ UNCHANGED last
    BY <1>1, <2>2, CountGrows DEF Told
  <2> QED
    BY <1>3, <2>1, <2>2 DEF FallbackThrows
<1>4. CASE UNCHANGED <<failures, op, last>>
  BY <1>4 DEF TypeOK, Told
<1> QED
  BY <1>2, <1>3, <1>4

(* A step that chooses an engine, or installs a configuration for it.       *)
LEMMA ResolveStep ==
  ASSUME TypeOK, NEW i \in Instances, WithoutNative(i) \/ Configure(i) \/ Install(i)
  PROVE  /\ op[i] # None /\ UNCHANGED setup /\ Told(i)
         /\ cell' = IF cell = None /\ Install(i) THEN rules[i] ELSE cell
         /\ \E outcome \in Stages :
              /\ Resolve(i, outcome)
              /\ outcome = "on" => cell' = rules[i]
              /\ outcome = "refused" => "fallback" \in Unsafe
              /\ cell' # cell => outcome = "on"
<1>1. ASSUME Refused(i)
      PROVE  /\ Told(i)
             /\ \/ Resolve(i, "off")
                \/ Resolve(i, "refused") /\ "fallback" \in Unsafe
  <2>1. CASE Resolve(i, "off") /\ FallbackTold(i)
    BY <2>1, FallbackStep
  <2>2. CASE Resolve(i, "refused") /\ FallbackThrows(i)
    BY <2>2, FallbackStep DEF FallbackThrows
  <2> QED
    BY <1>1, <2>1, <2>2 DEF Refused
<1>2. CASE WithoutNative(i)
  <2>1. Told(i)
    BY <1>2, FallbackStep DEF WithoutNative
  <2>2. Resolve(i, "off") /\ op[i] # None /\ UNCHANGED <<setup, cell>>
    BY <1>2 DEF WithoutNative, Unresolved
  <2>3. ~Install(i)
    BY <1>2 DEF WithoutNative, Install, Unresolved
  <2> QED
    BY <2>1, <2>2, <2>3 DEF Stages
<1>3. CASE Configure(i)
  <2>1. op[i] # None /\ UNCHANGED <<setup, cell>> /\ ~Install(i)
    BY <1>3 DEF Configure, Install, Unresolved
  <2>2. CASE Refused(i)
    BY <1>1, <2>1, <2>2 DEF Stages
  <2>3. CASE /\ IF cell # None THEN MatchesInstalled(rules[i]) /\ Resolve(i, "on")
                ELSE rules[i] \notin Uncompilable /\ Resolve(i, "compiled")
             /\ UNCHANGED <<failures, op, last>>
    <3>1. Told(i)
      BY <2>3, FallbackStep
    <3>2. \/ Resolve(i, "on") /\ cell = rules[i]
          \/ Resolve(i, "compiled")
      BY <2>3 DEF MatchesInstalled
    <3> QED
      BY <2>1, <3>1, <3>2 DEF Stages
  <2> QED
    BY <1>3, <2>2, <2>3 DEF Configure
<1>4. CASE Install(i)
  <2>1. op[i] # None /\ UNCHANGED setup /\ cell' = IF cell = None THEN rules[i] ELSE cell
    BY <1>4 DEF Install, Unresolved
  <2>2. CASE /\ cell = None \/ MatchesInstalled(rules[i])
             /\ Resolve(i, "on") /\ UNCHANGED <<failures, op, last>>
    <3>1. Told(i)
      BY <2>2, FallbackStep
    <3>2. cell' = rules[i]
      BY <2>1, <2>2 DEF MatchesInstalled
    <3> QED
      BY <1>4, <2>1, <2>2, <3>1, <3>2 DEF Stages
  <2>3. CASE cell # None /\ Refused(i)
    BY <1>1, <1>4, <2>1, <2>3 DEF Stages
  <2> QED
    BY <1>4, <2>2, <2>3 DEF Install
<1> QED
  BY <1>2, <1>3, <1>4

-----------------------------------------------------------------------------
(* What a log call hands out and counts.                                    *)

(* The conjuncts of the properties about one call. *)
Safe(got, i) ==
  \A t \in DOMAIN got :
    /\ got[t].as = "masked" =>
         got[t].by = rules[i] \/ (native[i]["loggers"] = "refused" /\ "fallback" \in Unsafe)
    /\ got[t].as = "raw" => Exempted(t)

Counted(got, i) ==
  (\E t \in DOMAIN got : ~got[t].message) =>
    failures[i] \cap {"masking", "step", "log"} # {}

LEMMA ExemptIsExempted ==
  ASSUME NEW t, IsExempt(t)
  PROVE  Exempted(t)
BY DEF IsExempt, Exempted

(* An entry about an error shows nothing, whatever the rules and engines. *)
LEMMA ApologyIsSafe ==
  ASSUME NEW i, Apologizes(i)
  PROVE  \E got : /\ last' = [instance |-> i, got |-> got]
                  /\ Safe(got, i)' /\ Counted(got, i)'
<1>0. PICK targets : \E entry \in {ErrorEntry, Nothing} :
        last' = [instance |-> i, got |-> [t \in targets |-> entry]]
  BY DEF Apologizes
<1>1. PICK entry \in {ErrorEntry, Nothing} :
        last' = [instance |-> i, got |-> [t \in targets |-> entry]]
  BY <1>0
<1> DEFINE got == [t \in targets |-> entry]
<1>2. \A t \in DOMAIN got : got[t].as \notin {"masked", "raw"}
  BY DEF ErrorEntry, Nothing
<1>3. "log" \in failures'[i]
  BY DEF Apologizes
<1> QED
  BY <1>1, <1>2, <1>3 DEF Safe, Counted

(* What the end of a log call leaves behind. *)
Handed(i) ==
  /\ op' = [op EXCEPT ![i] = None]
  /\ failures' \in [Instances -> SUBSET Failures]
  /\ \E got : /\ last' = [instance |-> i, got |-> got]
              /\ Safe(got, i)' /\ Counted(got, i)'

(* A call that hands out what is safe and keeps the message, or has counted *)
(* a loss.                                                                  *)
LEMMA DeliverStep ==
  ASSUME TypeOK, NEW i \in Instances, NEW got, Deliver(i, got), Safe(got, i),
         NEW told \in SUBSET Failures, Count(i, told), UNCHANGED <<setup, native>>,
         \/ \A t \in DOMAIN got : got[t].message
         \/ told \cap {"masking", "step"} # {}
  PROVE  Handed(i)
<1>1. Safe(got, i)'
  BY DEF Safe, Exempted, setup
<1>2. failures' \in [Instances -> SUBSET Failures] /\ told \subseteq failures'[i]
  BY CountGrows
<1>3. Counted(got, i)'
  BY <1>2 DEF Counted
<1> QED
  BY <1>1, <1>2, <1>3 DEF Handed, Deliver

LEMMA ApologyStep ==
  ASSUME TypeOK, NEW i \in Instances, NEW targets, NEW told \in SUBSET Failures,
         LogThrows(i, targets, told)
  PROVE  Handed(i)
BY LogThrowsStep, ApologyIsSafe DEF Handed, Apologizes

LEMMA StepErrorsType ==
  ASSUME NEW entry
  PROVE  /\ StepErrors(entry) \in SUBSET {"step"}
         /\ ~Readable(entry) => StepErrors(entry) = {"step"}
         /\ Readable(entry) \in BOOLEAN
<1>1. CASE entry = "hostile"
  BY <1>1 DEF StepErrors, Readable, Pipeline, AfterHygiene, AfterSanitization, AfterTimeout
<1>2. CASE entry # "hostile"
  BY <1>2 DEF StepErrors, Readable, Pipeline, AfterHygiene, AfterSanitization, AfterTimeout
<1> QED
  BY <1>1, <1>2

LEMMA ToldByAddonType ==
  ASSUME NEW entry, NEW simple \in BOOLEAN, NEW told \in ToldByAddon(entry, simple)
  PROVE  told \in SUBSET Failures
BY StepErrorsType DEF ToldByAddon, Failures

(* A line of the addon is by the rules of the instance, or the instance     *)
(* kept a refused addon.                                                    *)
LEMMA AddonRules ==
  ASSUME NativeServesOwnRules, NEW i \in Instances, WithAddon(i)
  PROVE  cell = rules[i] \/ (native[i]["loggers"] = "refused" /\ "fallback" \in Unsafe)
BY DEF NativeServesOwnRules, WithAddon, InUse, Managers

LEMMA LogNativeStep ==
  ASSUME TypeOK, NativeServesOwnRules, NEW i \in Instances, NEW entry, NEW targets,
         NEW simple \in BOOLEAN, UNCHANGED <<setup, native>>,
         LogDual(i, entry, targets) \/ LogNative(i, entry, targets, simple)
           \/ LogFallbackThrows(i, entry, targets, simple)
  PROVE  Handed(i)
<1>1. ASSUME UNCHANGED failures PROVE Count(i, {})
  BY <1>1 DEF Count, TypeOK
<1>2. CASE LogDual(i, entry, targets)
  <2>1. Safe(EmitNativePair(targets), i)
    BY <1>2, AddonRules, ExemptIsExempted
    DEF LogDual, Safe, EmitNativePair, Raw, MaskedBy
  <2>2. \A t \in DOMAIN EmitNativePair(targets) : EmitNativePair(targets)[t].message
    BY DEF EmitNativePair, Raw, MaskedBy
  <2> QED
    BY <1>1, <1>2, <2>1, <2>2, DeliverStep DEF LogDual
<1>3. CASE LogNative(i, entry, targets, simple)
  <2> DEFINE got == [t \in targets |-> NativeLine]
  <2>1. Safe(got, i) /\ \A t \in DOMAIN got : got[t].message
    BY <1>3, AddonRules DEF LogNative, Safe, NativeLine, MaskedBy
  <2>2. Deliver(i, got)
    BY <1>3 DEF LogNative
  <2>3. \E told \in SUBSET Failures : Count(i, told)
    BY <1>1, <1>3, ToldByAddonType DEF LogNative
  <2> HIDE DEF got
  <2> QED
    BY <2>1, <2>2, <2>3, DeliverStep
<1>4. CASE LogFallbackThrows(i, entry, targets, simple)
  BY <1>4, ToldByAddonType, ApologyStep DEF LogFallbackThrows
<1> QED
  BY <1>2, <1>3, <1>4

LEMMA LogJavaScriptStep ==
  ASSUME TypeOK, NEW i \in Instances, NEW entry, NEW targets, UNCHANGED <<setup, native>>,
         LogJavaScript(i, entry, targets)
  PROVE  Handed(i)
<1>1. PICK message \in BOOLEAN,
           told \in {StepErrors(entry), StepErrors(entry) \cup {"fallback"}} :
        /\ message # Readable(entry) => message /\ "step" \in Unsafe
        /\ \/ Count(i, told) /\ EmitMasked(i, targets, message)
           \/ Count(i, told \cup {"masking"}) /\ EmitMarker(i, targets, message)
           \/ LogThrows(i, targets, told \cup {"masking"})
  BY DEF LogJavaScript
<1>2. told \in SUBSET Failures /\ told \cup {"masking"} \in SUBSET Failures
  BY StepErrorsType DEF Failures
<1>3. CASE Count(i, told) /\ EmitMasked(i, targets, message)
  <2> DEFINE got == [t \in targets |->
               IF IsExempt(t) THEN Raw(message) ELSE MaskedBy(rules[i], message)]
  <2>1. Deliver(i, got)
    BY <1>3 DEF EmitMasked
  <2>2. Safe(got, i)
    BY ExemptIsExempted DEF Safe, Raw, MaskedBy
  <2>3. message => \A t \in DOMAIN got : got[t].message
    BY DEF Raw, MaskedBy
  <2>4. ~message => "step" \in told
    BY <1>1, StepErrorsType
  <2> HIDE DEF got
  <2> QED
    BY <1>2, <1>3, <2>1, <2>2, <2>3, <2>4, DeliverStep
<1>4. CASE Count(i, told \cup {"masking"}) /\ EmitMarker(i, targets, message)
  <2> DEFINE got == [t \in targets |-> IF IsExempt(t) THEN Raw(message) ELSE Marker]
  <2>1. Deliver(i, got)
    BY <1>4 DEF EmitMarker
  <2>2. Safe(got, i)
    BY ExemptIsExempted DEF Safe, Raw, Marker
  <2> HIDE DEF got
  <2> QED
    BY <1>2, <1>4, <2>1, <2>2, DeliverStep
<1>5. CASE LogThrows(i, targets, told \cup {"masking"})
  BY <1>2, <1>5, ApologyStep
<1> QED
  BY <1>1, <1>3, <1>4, <1>5

LEMMA LogStep ==
  ASSUME TypeOK, NativeServesOwnRules, NEW i \in Instances, Log(i)
  PROVE  Handed(i) /\ UNCHANGED <<setup, cell, native>>
<1>1. PICK entry \in Entries, targets \in Targets, simple \in BOOLEAN :
        \/ LogDual(i, entry, targets)
        \/ LogNative(i, entry, targets, simple)
        \/ LogFallbackThrows(i, entry, targets, simple)
        \/ LogJavaScript(i, entry, targets)
  BY DEF Log
<1>2. UNCHANGED <<setup, cell, native>>
  BY DEF Log
<1> QED
  BY <1>1, <1>2, LogNativeStep, LogJavaScriptStep

-----------------------------------------------------------------------------
(* Types, and the rules an instance is served by.                           *)

(* An instance that uses the addon uses it with its own rules, unless it    *)
(* was refused: only an empty cell is written, and while it is empty nobody *)
(* uses an addon that was not refused.                                      *)
LEMMA TypeAndOwnRules == Spec => [](TypeOK /\ NativeServesOwnRules)
<1>1. Init => TypeOK /\ NativeServesOwnRules
  BY RuleSetAssumption DEF Init, TypeOK, NativeServesOwnRules, InUse, Managers
<1>2. ASSUME TypeOK, NativeServesOwnRules, [Next]_vars
      PROVE  TypeOK' /\ NativeServesOwnRules'
  <2>1. CASE UNCHANGED vars
    BY <1>2, <2>1 DEF TypeOK, NativeServesOwnRules, InUse, vars, setup
  <2>2. ASSUME NEW i \in Instances, NEW call \in {"log", "stats"}, Begin(i, call)
        PROVE  TypeOK' /\ NativeServesOwnRules'
    BY <1>2, <2>2 DEF TypeOK, NativeServesOwnRules, InUse, Begin, setup
  <2>3. ASSUME NEW i \in Instances, WithoutNative(i) \/ Configure(i) \/ Install(i)
        PROVE  TypeOK' /\ NativeServesOwnRules'
    <3>1. PICK outcome \in Stages :
            /\ Resolve(i, outcome)
            /\ outcome = "on" => cell' = rules[i]
            /\ outcome = "refused" => "fallback" \in Unsafe
            /\ cell' # cell => outcome = "on"
      BY <1>2, <2>3, ResolveStep
    <3>2. /\ native' \in [Instances -> [Managers -> Stages]]
          /\ \A j \in Instances, m \in Managers :
               native'[j][m] = IF j = i /\ m = Manager(i) THEN outcome ELSE native[j][m]
      BY <1>2, <3>1, ResolveType
    <3>3. UNCHANGED setup /\ Told(i) /\ cell' \in {cell, rules[i]}
            /\ (cell' # cell => cell = None)
      BY <1>2, <2>3, ResolveStep
    <3>4. op' \in [Instances -> {None, "log", "stats"}]
            /\ failures' \in [Instances -> SUBSET Failures]
      BY <1>2, <3>3 DEF Told, Apologizes, TypeOK
    <3>5. TypeOK'
      BY <1>2, <3>2, <3>3, <3>4 DEF TypeOK, setup, Stages
    <3>6. \A j \in Instances : rules[j] # None
      BY <1>2, RuleSetAssumption DEF TypeOK
    <3>7. ASSUME NEW j \in Instances, NEW m \in Managers, InUse(j, m)'
          PROVE  (cell = rules[j] \/ (native[j][m] = "refused" /\ "fallback" \in Unsafe))'
      <4>1. rules'[j] = rules[j]
        BY <3>3 DEF setup
      <4>2. CASE j = i /\ m = Manager(i)
        BY <3>1, <3>2, <3>7, <4>1, <4>2 DEF InUse
      <4>3. CASE ~(j = i /\ m = Manager(i))
        <5>1. native'[j][m] = native[j][m]
          BY <3>2, <4>3
        <5>2. cell = rules[j] \/ (native[j][m] = "refused" /\ "fallback" \in Unsafe)
          BY <1>2, <3>7, <5>1 DEF NativeServesOwnRules, InUse
        <5> QED
          BY <3>3, <3>6, <4>1, <5>1, <5>2
      <4> QED
        BY <4>2, <4>3
    <3> QED
      BY <3>5, <3>7 DEF NativeServesOwnRules
  <2>4. ASSUME NEW i \in Instances, AnswerStats(i)
        PROVE  TypeOK' /\ NativeServesOwnRules'
    BY <1>2, <2>4 DEF TypeOK, NativeServesOwnRules, InUse, AnswerStats, setup
  <2>5. ASSUME NEW i \in Instances, Log(i)
        PROVE  TypeOK' /\ NativeServesOwnRules'
    <3>1. Handed(i) /\ UNCHANGED <<setup, cell, native>>
      BY <1>2, <2>5, LogStep
    <3> QED
      BY <1>2, <3>1 DEF Handed, TypeOK, NativeServesOwnRules, InUse, setup
  <2> QED
    BY <1>2, <2>1, <2>2, <2>3, <2>4, <2>5 DEF Next
<1> QED
  BY <1>1, <1>2, PTL DEF Spec

(* The type invariant, for any instances, rule sets, addons and hooks.      *)
THEOREM TypeCorrect == Spec => []TypeOK
BY TypeAndOwnRules, PTL

(* An instance is served by the addon under its own rules, or after its     *)
(* configuration was refused and its fallback hook threw twice.             *)
THEOREM NativeServesOwnRulesHolds == Spec => []NativeServesOwnRules
BY TypeAndOwnRules, PTL

-----------------------------------------------------------------------------
(* What the transports of the last log call were handed.                    *)

(* The last log call is over, was safe, and counted what it lost.           *)
LastInv ==
  last # None =>
    /\ last.instance \in Instances /\ op[last.instance] = None
    /\ Safe(last.got, last.instance)
    /\ Counted(last.got, last.instance)

(* A step of another call changes nothing of what the last one left. *)
LEMMA LastKept ==
  ASSUME LastInv, last' = last, rules' = rules,
         last # None =>
           /\ op'[last.instance] = None
           /\ native'[last.instance]["loggers"] = native[last.instance]["loggers"]
           /\ failures[last.instance] \subseteq failures'[last.instance]
  PROVE  LastInv'
<1>1. CASE last = None
  BY <1>1 DEF LastInv
<1>2. CASE last # None
  <2>1. Safe(last.got, last.instance)' /\ Counted(last.got, last.instance)'
    BY <1>2 DEF LastInv, Safe, Counted, Exempted
  <2> QED
    BY <1>2, <2>1 DEF LastInv
<1> QED
  BY <1>1, <1>2

LEMMA LastHanded ==
  ASSUME TypeOK, NEW i \in Instances, op' = [op EXCEPT ![i] = None],
         \E got : /\ last' = [instance |-> i, got |-> got]
                  /\ Safe(got, i)' /\ Counted(got, i)'
  PROVE  LastInv'
<1>1. op'[i] = None
  BY DEF TypeOK
<1>2. PICK got : last' = [instance |-> i, got |-> got] /\ Safe(got, i)' /\ Counted(got, i)'
  OBVIOUS
<1>3. last'.instance = i /\ last'.got = got
  BY <1>2
<1>4. Safe(last.got, last.instance)' /\ Counted(last.got, last.instance)'
  BY <1>2, <1>3 DEF Safe, Counted
<1> QED
  BY <1>1, <1>3, <1>4 DEF LastInv

LEMMA LastHolds == Spec => []LastInv
<1>1. Init => LastInv
  BY DEF Init, LastInv
<1>2. ASSUME TypeOK, NativeServesOwnRules, LastInv, [Next]_vars PROVE LastInv'
  <2>1. CASE UNCHANGED vars
    BY <1>2, <2>1, LastKept DEF LastInv, vars, setup
  <2>2. ASSUME NEW i \in Instances, NEW call, Begin(i, call) PROVE LastInv'
    <3>1. \/ last' = None
          \/ last' = last /\ (last # None => last.instance # i)
      BY <2>2 DEF Begin
    <3>2. CASE last' = None
      BY <3>2 DEF LastInv
    <3>3. CASE last' = last /\ (last # None => last.instance # i)
      BY <1>2, <2>2, <3>3, LastKept DEF LastInv, Begin, TypeOK, setup
    <3> QED
      BY <3>1, <3>2, <3>3
  <2>3. ASSUME NEW i \in Instances, WithoutNative(i) \/ Configure(i) \/ Install(i)
        PROVE  LastInv'
    <3>1. PICK outcome \in Stages : Resolve(i, outcome)
      BY <1>2, <2>3, ResolveStep
    <3>2. op[i] # None /\ UNCHANGED setup /\ Told(i)
      BY <1>2, <2>3, ResolveStep
    <3>3. CASE Apologizes(i)
      BY <1>2, <3>3, ApologyIsSafe, LastHanded DEF Apologizes
    <3>4. CASE last' = last /\ op' \in {op, [op EXCEPT ![i] = None]}
      <4>1. \A j \in Instances : failures[j] \subseteq failures'[j]
        BY <3>2 DEF Told
      <4>2. ASSUME last # None
            PROVE  /\ op'[last.instance] = None
                   /\ native'[last.instance]["loggers"] = native[last.instance]["loggers"]
        <5>1. last.instance \in Instances /\ op[last.instance] = None /\ last.instance # i
          BY <1>2, <3>2, <4>2 DEF LastInv
        <5> QED
          BY <1>2, <3>1, <3>4, <5>1, ResolveType DEF TypeOK, Managers
      <4> QED
        BY <1>2, <3>2, <3>4, <4>1, <4>2, LastKept DEF LastInv, setup
    <3> QED
      BY <3>2, <3>3, <3>4 DEF Told
  <2>4. ASSUME NEW i \in Instances, AnswerStats(i) PROVE LastInv'
    BY <1>2, <2>4, LastKept DEF LastInv, AnswerStats, TypeOK, setup
  <2>5. ASSUME NEW i \in Instances, Log(i) PROVE LastInv'
    BY <1>2, <2>5, LogStep, LastHanded DEF Handed
  <2> QED
    BY <1>2, <2>1, <2>2, <2>3, <2>4, <2>5 DEF Next
<1> QED
  BY <1>1, <1>2, TypeAndOwnRules, PTL DEF Spec

(* No transport is handed a line masked by the rules of another instance,   *)
(* unless its own kept a refused addon, nor an unmasked one that its        *)
(* application did not exempt it for.                                       *)
THEOREM NothingLeaksHolds == Spec => []NothingLeaks
<1>1. LastInv => NothingLeaks
  BY DEF LastInv, Safe, NothingLeaks
<1> QED
  BY <1>1, LastHolds, PTL

(* A transport that gets an entry without its message, or none: the         *)
(* statistics say so, whichever hooks throw and whatever the other          *)
(* instances do meanwhile.                                                  *)
THEOREM LossIsCountedHolds == Spec => []LossIsCounted
<1>1. LastInv => LossIsCounted
  BY DEF LastInv, Counted, LossIsCounted
<1> QED
  BY <1>1, LastHolds, PTL
================================================================================
