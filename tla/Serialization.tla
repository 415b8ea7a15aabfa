----------------------------- MODULE Serialization -----------------------------
(***************************************************************************)
(* From a log call to what each transport is handed: the choice between    *)
(* the native addon and the JavaScript pipeline                            *)
(* (src/serialization/SerializationManager.ts and its steps), the          *)
(* process-wide configuration cell of the addon                            *)
(* (syntropylog-native/src/lib.rs), the exemption of transports from       *)
(* masking and the emission (src/logger/Logger.ts), and the failure        *)
(* counters (src/observability/StatsCollector.ts).                         *)
(*                                                                         *)
(* Several instances share one process: one after the other, side by side, *)
(* or on worker threads.  A log call is synchronous; only configureNative()*)
(* reads the cell, compiles, and writes it, with other threads in between. *)
(* Every instance has two serialization managers with the same             *)
(* configuration, one for its loggers and one for its lifecycle manager.   *)
(* Which transports a call reaches, and transports that throw, are the     *)
(* business of Logging; what a rule does to a value, that of Masking.  The *)
(* user's hooks may throw wherever they are called.                        *)
(***************************************************************************)

CONSTANTS
  Instances,
  RuleSets,     (* masking configurations: rules, as the addon is sent them  *)
  JsOnly,       (* those with a customMask function                          *)
  Uncompilable, (* those with a pattern the regex crate rejects              *)
  Throwing,     (* those whose customMask may throw                          *)
  Transports,
  NameOf,       (* Transport.name                                            *)
  KeyOf,        (* its key in the pool                                       *)
  Declared,     (* masking.exemptTransports                                  *)
  Addons,       (* what require('syntropylog-native') may find               *)
  Entries,      (* the kinds of metadata an application logs                 *)
  Unsafe,       (* the hooks of the user that may throw                      *)
  None

Managers == {"loggers", "lifecycle"}

(* resolveExemptTransports(): every name declared is a name or a key, else  *)
(* init() throws.                                                           *)
Known == {NameOf[t] : t \in Transports} \cup {KeyOf[t] : t \in Transports}

ASSUME RuleSetAssumption ==
  /\ JsOnly \subseteq RuleSets /\ Uncompilable \subseteq RuleSets
  /\ Throwing \subseteq JsOnly /\ None \notin RuleSets
ASSUME ExemptAssumption == Declared \subseteq Known
ASSUME AddonAssumption ==
  (* not there or not loadable; only fastSerialize(); fastSerializeFromJson() *)
  (* too; the dual entry point too                                            *)
  Addons \subseteq {"absent", "legacy", "single", "dual"}
ASSUME EntryAssumption ==
  (* "circular", "bigint": JSON.stringify() throws.  "surrogate": serde_json  *)
  (* rejects what it wrote.  "hostile": a nested getter throws.               *)
  Entries \subseteq {"plain", "circular", "bigint", "surrogate", "hostile"}

ASSUME UnsafeAssumption ==
  (* onSerializationFallback, onStepError, onMaskingError, onLogFailure       *)
  Unsafe \subseteq {"fallback", "step", "masking", "log"}

VARIABLES
  addon,     \* what this process found
  rules,     \* instance -> its masking configuration
  disabled,  \* instances with disableNativeAddon
  cell,      \* NATIVE_CONFIG
  native,    \* instance, manager -> nativeChecked and nativeAddon
  op,        \* instance -> the call in progress: None, "log" or "stats"
  last,      \* the last log call: its instance, and what each transport got
  failures   \* instance -> the counters of StatsCollector that its last call,
             \* or the one in progress, has increased

vars == <<addon, rules, disabled, cell, native, op, last, failures>>
setup == <<addon, rules, disabled>>

Failures == {"fallback", "step", "masking", "log"}

Init ==
  /\ addon \in Addons
  /\ rules \in [Instances -> RuleSets]
  /\ disabled \in SUBSET Instances
  /\ cell = None
  /\ native = [i \in Instances |-> [m \in Managers |-> "unchecked"]]
  /\ op = [i \in Instances |-> None]
  /\ last = None
  /\ failures = [i \in Instances |-> {}]

(* The hooks wrapped by wrapHooksForStats() count, then call the user's,    *)
(* which may throw.                                                         *)
Count(i, told) == failures' = [failures EXCEPT ![i] = @ \cup told]

-----------------------------------------------------------------------------
(* A log call, or getStats(), which asks the lifecycle's manager whether    *)
(* the addon is in use.                                                     *)
Begin(i, call) ==
  /\ op[i] = None
  /\ op' = [op EXCEPT ![i] = call]
  /\ failures' = [failures EXCEPT ![i] = {}]
  /\ last' = IF last # None /\ last.instance = i THEN None ELSE last
  /\ UNCHANGED <<setup, cell, native>>

(* What a transport is handed. *)
Raw(message)         == [as |-> "raw",    by |-> None, message |-> message]
MaskedBy(r, message) == [as |-> "masked", by |-> r,    message |-> message]
Marker               == [as |-> "marker", by |-> None, message |-> FALSE]
ErrorEntry           == [as |-> "error",  by |-> None, message |-> FALSE]
Nothing              == [as |-> "nothing", by |-> None, message |-> FALSE]

Targets == SUBSET Transports \ {{}}

Deliver(i, got) ==
  /\ last' = [instance |-> i, got |-> got]
  /\ op' = [op EXCEPT ![i] = None]

(* A hook throws out of the call, after what it has told.  A log call tells *)
(* onLogFailure and hands every target an entry about the error, or nothing *)
(* if that hook throws too.                                                 *)
LogThrows(i, targets, told) ==
  /\ Count(i, told \cup {"log"})
  /\ \E entry \in {ErrorEntry, Nothing} :
       /\ entry = Nothing => "log" \in Unsafe
       /\ Deliver(i, [t \in targets |-> entry])

(* onSerializationFallback() throws while the engine is chosen: getStats()  *)
(* throws to its caller.                                                    *)
FallbackThrows(i) ==
  /\ "fallback" \in Unsafe
  /\ \/ op[i] = "log" /\ \E targets \in Targets : LogThrows(i, targets, {"fallback"})
     \/ /\ op[i] = "stats" /\ Count(i, {"fallback"})
        /\ op' = [op EXCEPT ![i] = None] /\ UNCHANGED last

-----------------------------------------------------------------------------
(* Which engine a manager uses                                              *)

Manager(i) == IF op[i] = "log" THEN "loggers" ELSE "lifecycle"
Resolve(i, outcome) == native' = [native EXCEPT ![i][Manager(i)] = outcome]
Unresolved(i, stage) == op[i] # None /\ native[i][Manager(i)] = stage

FallbackTold(i) == Count(i, {"fallback"}) /\ UNCHANGED <<op, last>>

(* getNativeAddon(), the first time: switched off, rules only JavaScript    *)
(* can honour, no addon; the last two are told.                             *)
WithoutNative(i) ==
  /\ Unresolved(i, "unchecked")
  /\ Resolve(i, "off")
  /\ \/ i \in disabled /\ UNCHANGED <<failures, op, last>>
     \/ /\ i \notin disabled
        /\ rules[i] \in JsOnly \/ addon = "absent"
        /\ FallbackTold(i) \/ FallbackThrows(i)
  /\ UNCHANGED <<setup, cell>>

(* configureNative() refused.  The hook is told inside the try block, and   *)
(* again by the catch block if it throws; if it throws there too, nothing   *)
(* takes the addon back.                                                    *)
Refused(i) ==
  \/ Resolve(i, "off") /\ FallbackTold(i)
  \/ Resolve(i, "refused") /\ FallbackThrows(i)

(* Mutant: whatever configuration is installed will do. *)
MatchesAny(config) == TRUE

(* Exact match: the only safe answer once a configuration is installed. *)
MatchesInstalled(config) == cell = config

(* configure_native(), up to the compiled configuration.                    *)
Configure(i) ==
  /\ Unresolved(i, "unchecked")
  /\ i \notin disabled /\ rules[i] \notin JsOnly /\ addon # "absent"
  /\ \/ /\ IF cell # None THEN ~MatchesInstalled(rules[i])
                           ELSE rules[i] \in Uncompilable
        /\ Refused(i)
     \/ /\ IF cell # None THEN MatchesInstalled(rules[i]) /\ Resolve(i, "on")
                           ELSE rules[i] \notin Uncompilable /\ Resolve(i, "compiled")
        /\ UNCHANGED <<failures, op, last>>
  /\ UNCHANGED <<setup, cell>>

(* OnceCell::set(): the first writer wins, a late one is served only if its *)
(* configuration is identical.                                              *)
Install(i) ==
  /\ Unresolved(i, "compiled")
  /\ cell' = IF cell = None THEN rules[i] ELSE cell
  /\ \/ /\ cell = None \/ MatchesInstalled(rules[i])
        /\ Resolve(i, "on") /\ UNCHANGED <<failures, op, last>>
     \/ cell # None /\ ~MatchesInstalled(rules[i]) /\ Refused(i)
  /\ UNCHANGED setup

AnswerStats(i) ==
  /\ op[i] = "stats" /\ native[i]["lifecycle"] \in {"on", "off", "refused"}
  /\ op' = [op EXCEPT ![i] = None]
  /\ UNCHANGED <<setup, cell, native, last, failures>>

-----------------------------------------------------------------------------
(* What a log call hands out                                                *)

(* isExemptFromMasking() and hasExemptTransport() know only names. *)
IsExempt(t) == NameOf[t] \in Declared
WantUnmasked(targets) == \E t \in targets : IsExempt(t)

(* The manager of the loggers has an addon to call, or none. *)
WithAddon(i) == op[i] = "log" /\ native[i]["loggers"] \in {"on", "refused"}
InJavaScript(i) == op[i] = "log" /\ native[i]["loggers"] = "off"

(* serializeDualNative(): both renderings, of metadata that can be          *)
(* stringified and parsed; otherwise null.                                  *)
DualWorks(entry, targets) ==
  addon = "dual" /\ entry = "plain" /\ WantUnmasked(targets)

(* Mutant: one exempt target opens the raw line to all. *)
EmitNativePairOpen(targets) == [t \in targets |-> Raw(TRUE)]

(* emitNativeLine() with two lines. *)
EmitNativePair(targets) ==
  [t \in targets |-> IF IsExempt(t) THEN Raw(TRUE) ELSE MaskedBy(cell, TRUE)]

LogDual(i, entry, targets) ==
  /\ WithAddon(i) /\ DualWorks(entry, targets)
  /\ Deliver(i, EmitNativePair(targets))
  /\ UNCHANGED failures

(* A line of the addon with one output: by what is in the cell, whoever     *)
(* asks; without rules while it is empty.                                   *)
NativeLine == MaskedBy(cell, TRUE)

(* The pipeline.  No serializer is registered with the manager of the       *)
(* loggers, so an entry comes to HygieneStep as it is: a graph with cycles  *)
(* is broken up, one that cannot be read becomes a string.                  *)
AfterHygiene(entry) == IF entry = "hostile" THEN "string" ELSE "entry"

(* SanitizationStep and TimeoutStep add their fields, to a string by making *)
(* an object of these fields alone: the message is gone.                    *)
AfterSanitization(data) == IF data = "string" THEN "fields" ELSE data
AfterTimeout(data) == IF data = "string" THEN "fields" ELSE data

Pipeline(entry) == AfterTimeout(AfterSanitization(AfterHygiene(entry)))
Readable(entry) == Pipeline(entry) = "entry"

(* Mutant: hygiene says nothing. *)
StepErrorsUntold(entry) == {}

StepErrors(entry) == IF AfterHygiene(entry) = "entry" THEN {} ELSE {"step"}

(* The addon is asked once or twice in serializeDirect() and serialize(),   *)
(* and all of that again after the fast path of a message alone has run the *)
(* pipeline.  Each time yields a line, whatever the metadata (an error      *)
(* marker from the JSON entry point falls to the object one), except that a *)
(* getter that throws ends it, or costs it the metadata.  This is what has  *)
(* been told after some attempts that failed.                               *)
ToldByAddon(entry, simple) ==
  {{"fallback"}} \cup (IF simple THEN {{"fallback"} \cup StepErrors(entry)} ELSE {})

(* The addon gives a line, at the first attempt or a later one. *)
LogNative(i, entry, targets, simple) ==
  /\ WithAddon(i) /\ ~DualWorks(entry, targets)
  /\ \/ UNCHANGED failures
     \/ entry = "hostile" /\ \E told \in ToldByAddon(entry, simple) : Count(i, told)
  /\ Deliver(i, [t \in targets |-> NativeLine])

(* An attempt fails, and the hook told of that throws. *)
LogFallbackThrows(i, entry, targets, simple) ==
  /\ WithAddon(i) /\ ~DualWorks(entry, targets)
  /\ entry = "hostile" /\ "fallback" \in Unsafe
  /\ \E told \in ToldByAddon(entry, simple) : LogThrows(i, targets, told)

(* MaskingEngine.process() is given the result of the pipeline, with or     *)
(* without the message: the exempt see that, the others its answer.         *)
EmitMasked(i, targets, message) ==
  Deliver(i, [t \in targets |->
    IF IsExempt(t) THEN Raw(message) ELSE MaskedBy(rules[i], message)])

(* It fails on a customMask, or a getter, that throws, and answers with its *)
(* marker.                                                                  *)
EmitMarker(i, targets, message) ==
  Deliver(i, [t \in targets |-> IF IsExempt(t) THEN Raw(message) ELSE Marker])

(* serialize() without a line of the addon.  HygieneStep calls onStepError  *)
(* again when it throws; when it throws twice, the pipeline gives the entry *)
(* back as it came, with its getter.                                        *)
LogJavaScript(i, entry, targets) ==
  \E message \in BOOLEAN, told \in {StepErrors(entry), StepErrors(entry) \cup {"fallback"}} :
    /\ IF "fallback" \in told THEN WithAddon(i) /\ entry = "hostile" ELSE InJavaScript(i)
    /\ message # Readable(entry) => message /\ "step" \in Unsafe
    /\ \/ Count(i, told) /\ EmitMasked(i, targets, message)
       \/ /\ rules[i] \in Throwing \/ message # Readable(entry)
          /\ \/ Count(i, told \cup {"masking"}) /\ EmitMarker(i, targets, message)
             \/ "masking" \in Unsafe /\ LogThrows(i, targets, told \cup {"masking"})

Log(i) ==
  /\ \E entry \in Entries, targets \in Targets, simple \in BOOLEAN :
       \/ LogDual(i, entry, targets)
       \/ LogNative(i, entry, targets, simple)
       \/ LogFallbackThrows(i, entry, targets, simple)
       \/ LogJavaScript(i, entry, targets)
  /\ UNCHANGED <<setup, cell, native>>

Next ==
  \E i \in Instances :
    \/ \E call \in {"log", "stats"} : Begin(i, call)
    \/ WithoutNative(i) \/ Configure(i) \/ Install(i)
    \/ AnswerStats(i) \/ Log(i)

Spec == Init /\ [][Next]_vars

-----------------------------------------------------------------------------
TypeOK ==
  /\ addon \in Addons /\ rules \in [Instances -> RuleSets]
  /\ disabled \subseteq Instances /\ cell \in RuleSets \cup {None}
  /\ native \in [Instances ->
                 [Managers -> {"unchecked", "compiled", "on", "off", "refused"}]]
  /\ op \in [Instances -> {None, "log", "stats"}]
  /\ failures \in [Instances -> SUBSET Failures]

InUse(i, m) == native[i][m] \in {"on", "refused"}

(* An instance that uses the addon uses it with its own rules, whoever      *)
(* configured it first ("a second instance whose config differs must be     *)
(* told native is unavailable for it", lib.rs:209), as long as its          *)
(* onSerializationFallback does not throw when it is told so.               *)
NativeServesOwnRules ==
  \A i \in Instances, m \in Managers :
    InUse(i, m) => cell = rules[i] \/ (native[i][m] = "refused" /\ "fallback" \in Unsafe)

Exempted(t) == {NameOf[t], KeyOf[t]} \cap Declared # {}

(* What a transport is handed is masked by the rules of the instance that   *)
(* logs, or replaced whole; unmasked only where the application exempted    *)
(* the transport (src/logger/Logger.ts:373).  The exception is an instance  *)
(* that kept a refused addon.                                               *)
NothingLeaks ==
  last # None =>
    \A t \in DOMAIN last.got :
      /\ last.got[t].as = "masked" =>
           \/ last.got[t].by = rules[last.instance]
           \/ native[last.instance]["loggers"] = "refused" /\ "fallback" \in Unsafe
      /\ last.got[t].as = "raw" => Exempted(t)

(* A transport that gets an entry without its message, or an entry about an *)
(* error, or nothing: a failure has been counted during the call, whichever *)
(* hooks throw (src/observability/StatsCollector.ts).                       *)
LossIsCounted ==
  last # None /\ (\E t \in DOMAIN last.got : ~last.got[t].message)
    => failures[last.instance] \cap {"masking", "step", "log"} # {}

(* A transport that the application exempted is handed the entry unmasked,  *)
(* whatever the addon can do: "Never a masked-only answer for an exempt     *)
(* transport" (CHANGELOG.md:50).                                           *)
ExemptSeesTruth ==
  last # None => \A t \in DOMAIN last.got : Exempted(t) => last.got[t].as = "raw"
================================================================================
