----------------------------- MODULE Configuration -----------------------------
(***************************************************************************)
(* What init() makes of the object it is given: parseConfig(), built from  *)
(* combinators (src/config), and sanitizeConfig()                          *)
(* (src/utils/sanitizeConfig.ts), whose result is what the framework runs  *)
(* with.                                                                   *)
(*                                                                         *)
(* A configuration says of what kind the value at each path of keys and    *)
(* positions is.  "dsn" is a text that holds credentials, "level" one that *)
(* a list of options allows.  A Transport or a RegExp, which is an object  *)
(* too, has no parts here, and passes for an object only where the code    *)
(* looks no further.                                                       *)
(***************************************************************************)
EXTENDS Sequences, FiniteSets, SequencesExt, Tasks

CONSTANTS
  Names,       (* keys of objects, and positions in arrays                   *)
  RawConfigs,  (* the objects given to init()                                *)
  Sensitive,   (* SENSITIVE_KEYS, in any case of their letters               *)
  UrlKeys      (* keys that contain "url" or "uri"                           *)

Branches == {"object", "array"}
TextKinds == {"text", "level", "dsn"}
NotGiven == {"null", "undefined"}

(* Only objects and arrays have parts, and a position in an array is not a   *)
(* name of any meaning.                                                      *)
IsConfig(c) ==
  /\ DOMAIN c \subseteq Seq(Names)
  /\ <<>> \in DOMAIN c /\ c[<<>>] = "object"
  /\ \A p \in DOMAIN c \ {<<>>} :
       /\ Front(p) \in DOMAIN c /\ c[Front(p)] \in Branches
       /\ c[Front(p)] = "array" => Last(p) \notin Sensitive \cup UrlKeys

At(c, p) == IF p \in DOMAIN c THEN c[p] ELSE "undefined"
Keys(c)  == {p[1] : p \in {q \in DOMAIN c : Len(q) = 1}}
Under(k, paths) == {<<k>> \o p : p \in paths}
Part(c, k) == [p \in {Tail(q) : q \in {r \in DOMAIN c \ {<<>>} : r[1] = k}} |-> c[<<k>> \o p]]
Only(c, k) == Restrict(c, {p \in DOMAIN c : p # <<>> => p[1] = k})

-----------------------------------------------------------------------------
(* A validator tells of a value the places of its issues, and those of the   *)
(* nulls it takes for undefined; a place is a path from the value.           *)
Ok  == [issues |-> {}, none |-> {}]
Err == [issues |-> {<<>>}, none |-> {}]
Gathered(results) ==
  [issues |-> UNION {Under(k, results[k].issues) : k \in DOMAIN results},
   none   |-> UNION {Under(k, results[k].none) : k \in DOMAIN results}]

(* The combinators optional(), arrayOf(), recordOf() and object(): every     *)
(* element and every field of the schema is validated, whatever the others   *)
(* came to, and keys that the schema does not know stay as they are.         *)
Optional(result, c) == IF At(c, <<>>) \in NotGiven THEN [Ok EXCEPT !.none = {<<>>}] ELSE result
ArrayOf(results, c)    == IF At(c, <<>>) = "array" THEN Gathered(results) ELSE Err
RecordOf(results, c)   == IF At(c, <<>>) = "object" THEN Gathered(results) ELSE Err
ObjectWith(results, c) == IF At(c, <<>>) = "object" THEN Gathered(results) ELSE Err

-----------------------------------------------------------------------------
(* isString() and the other primitive validators. *)
Kind(kinds, c) == IF At(c, <<>>) \in kinds THEN Ok ELSE Err
IsString(c)         == Kind(TextKinds, c)
IsBoolean(c)        == Kind({"boolean"}, c)
IsFunction(c)       == Kind({"function"}, c)
IsPositiveInt(c)    == Kind({"positive"}, c)
IsStringOrRegExp(c) == Kind(TextKinds \cup {"regexp"}, c)
IsStringOrArray(c)  == Kind(TextKinds \cup {"array"}, c)
IsRecord(c)         == Kind({"object", "transport", "regexp"}, c)
IsTransport(c)      == Kind({"transport"}, c)
OneOf(c)            == Kind({"level"}, c)

Strings(c)     == ArrayOf([k \in Keys(c) |-> IsString(Part(c, k))], c)
StringLists(c) == RecordOf([k \in Keys(c) |-> Strings(Part(c, k))], c)
HeaderMap(c)   == RecordOf([k \in Keys(c) |-> IsString(Part(c, k))], c)
HeaderMaps(c)  == RecordOf([k \in Keys(c) |-> HeaderMap(Part(c, k))], c)
Transports(c)  == RecordOf([k \in Keys(c) |-> IsTransport(Part(c, k))], c)
Records(c)     == RecordOf([k \in Keys(c) |-> IsRecord(Part(c, k))], c)

(* A Transport, or a descriptor of one. *)
DescriptorKeys == {"transport", "env"}
DescriptorField(k, c) == IF k = "transport" THEN IsTransport(c) ELSE Optional(IsStringOrArray(c), c)
ValidateTransportEntry(c) ==
  IF IsTransport(c) = Ok THEN Ok
  ELSE ObjectWith([k \in DescriptorKeys |-> DescriptorField(k, Part(c, k))], c)

TransportEntries(c) == ArrayOf([k \in Keys(c) |-> ValidateTransportEntry(Part(c, k))], c)

(* The lists of a record of routes are not looked at. *)
ValidateTransports(c) ==
  IF At(c, <<>>) = "array" THEN TransportEntries(c) ELSE IsRecord(c)

MaskingRuleKeys ==
  {"pattern", "strategy", "preserveLength", "maskChar", "customMask"}
MaskingRuleField(k, c) ==
  CASE k = "pattern"        -> IsStringOrRegExp(c)
    [] k = "strategy"       -> OneOf(c)
    [] k = "preserveLength" -> Optional(IsBoolean(c), c)
    [] k = "maskChar"       -> Optional(IsString(c), c)
    [] k = "customMask"     -> Optional(IsFunction(c), c)
ValidateMaskingRule(c) ==
  ObjectWith([k \in MaskingRuleKeys |-> MaskingRuleField(k, Part(c, k))], c)
MaskingRules(c) == ArrayOf([k \in Keys(c) |-> ValidateMaskingRule(Part(c, k))], c)

PrettyPrintKeys == {"enabled"}
EnabledField(k, c) == Optional(IsBoolean(c), c)
PrettyPrint(c) == ObjectWith([k \in PrettyPrintKeys |-> EnabledField(k, Part(c, k))], c)

LoggerKeys ==
  {"name", "serviceName", "environment", "level", "transportList", "env",
   "transports", "serializerTimeoutMs", "prettyPrint", "disableNativeAddon"}
LoggerField(k, c) ==
  CASE k \in {"name", "serviceName", "environment"} -> Optional(IsString(c), c)
    [] k = "level"               -> Optional(OneOf(c), c)
    [] k = "transportList"       -> Optional(Transports(c), c)
    [] k = "env"                 -> Optional(StringLists(c), c)
    [] k = "transports"          -> Optional(ValidateTransports(c), c)
    [] k = "serializerTimeoutMs" -> Optional(IsPositiveInt(c), c)
    [] k = "prettyPrint"         -> Optional(PrettyPrint(c), c)
    [] k = "disableNativeAddon"  -> Optional(IsBoolean(c), c)
ValidateLoggerOptions(c) == ObjectWith([k \in LoggerKeys |-> LoggerField(k, Part(c, k))], c)

MaskingKeys ==
  {"rules", "maskChar", "preserveLength", "enableDefaultRules",
   "regexTimeoutMs", "exemptTransports", "onMaskingError"}
MaskingField(k, c) ==
  CASE k = "rules"            -> Optional(MaskingRules(c), c)
    [] k = "maskChar"         -> Optional(IsString(c), c)
    [] k \in {"preserveLength", "enableDefaultRules"} -> Optional(IsBoolean(c), c)
    [] k = "regexTimeoutMs"   -> Optional(IsPositiveInt(c), c)
    [] k = "exemptTransports" -> Optional(Strings(c), c)
    [] k = "onMaskingError"   -> Optional(IsFunction(c), c)
ValidateMasking(c) == ObjectWith([k \in MaskingKeys |-> MaskingField(k, Part(c, k))], c)

MatrixKeys == {"default", "trace", "debug", "info", "warn", "error", "fatal"}
MatrixField(k, c) == Optional(Strings(c), c)
ValidateLoggingMatrix(c) == ObjectWith([k \in MatrixKeys |-> MatrixField(k, Part(c, k))], c)

ContextKeys ==
  {"correlationIdHeader", "transactionIdHeader", "inbound", "outbound",
   "customHeaders"}
ContextField(k, c) ==
  CASE k \in {"correlationIdHeader", "transactionIdHeader"} -> Optional(IsString(c), c)
    [] k \in {"inbound", "outbound"} -> Optional(HeaderMaps(c), c)
    [] k = "customHeaders"           -> Optional(Strings(c), c)
ValidateContext(c) == ObjectWith([k \in ContextKeys |-> ContextField(k, Part(c, k))], c)

RetentionKeys == {"version", "emitRules", "emitUntil"}
RetentionField(k, c) == IF k = "version" THEN Optional(IsString(c), c) ELSE Optional(IsBoolean(c), c)
ValidateRetentionEmission(c) ==
  ObjectWith([k \in RetentionKeys |-> RetentionField(k, Part(c, k))], c)

SectionKeys ==
  {"logger", "loggingMatrix", "masking", "context", "shutdownTimeout",
   "retentionPolicies", "retention",
   "onLogFailure", "onTransportError", "onStepError", "onSerializationFallback"}
SectionField(k, c) ==
  CASE k = "logger"            -> Optional(ValidateLoggerOptions(c), c)
    [] k = "loggingMatrix"     -> Optional(ValidateLoggingMatrix(c), c)
    [] k = "masking"           -> Optional(ValidateMasking(c), c)
    [] k = "context"           -> Optional(ValidateContext(c), c)
    [] k = "shutdownTimeout"   -> Optional(IsPositiveInt(c), c)
    [] k = "retentionPolicies" -> Optional(Records(c), c)
    [] k = "retention"         -> Optional(ValidateRetentionEmission(c), c)
    [] OTHER                   -> Optional(IsFunction(c), c)
ValidateSyntropyLogConfig(c) ==
  ObjectWith([k \in SectionKeys |-> SectionField(k, Part(c, k))], c)

SchemaKeys ==
  UNION {DescriptorKeys, MaskingRuleKeys, PrettyPrintKeys, LoggerKeys, MaskingKeys, MatrixKeys,
         ContextKeys, RetentionKeys, SectionKeys}

ASSUME ConfigAssumption == SchemaKeys \subseteq Names /\ \A raw \in RawConfigs : IsConfig(raw)

-----------------------------------------------------------------------------
(* sanitizeConfig() of a value: a copy, of which a RegExp would have no key. *)
Copied(kind) == IF kind = "regexp" THEN "object" ELSE kind

(* Mutant: a RegExp is copied like any object. *)
SanitizeFieldCopying(k, kind) ==
  IF k \in Sensitive THEN "[CONFIG_MASKED]"
  ELSE IF k \in UrlKeys /\ kind = "dsn" THEN "redacted"
  ELSE Copied(kind)

(* ... and of the value at a key of an object. *)
SanitizeField(k, kind) ==
  IF k \in Sensitive THEN "[CONFIG_MASKED]"
  ELSE IF k \in UrlKeys /\ kind = "dsn" THEN "redacted"
  ELSE IF kind = "regexp" THEN kind
  ELSE Copied(kind)

(* The calls of sanitizeConfig() that lead to a place: where one of them did *)
(* not go on into an object or an array, the copy has nothing.               *)
PlaceInCopy(c, p) ==
  LET kind == [i \in 0..Len(p) |-> At(c, SubSeq(p, 1, i))]
      copy[i \in 0..Len(p)] ==
        IF i = 0 THEN Copied(kind[0])
        ELSE IF copy[i - 1] = "object" THEN SanitizeField(p[i], kind[i])
        ELSE IF copy[i - 1] = "array" THEN Copied(kind[i])
        ELSE "undefined"
  IN  copy[Len(p)]

SanitizeConfig(c) == [p \in DOMAIN c |-> PlaceInCopy(c, p)]

(* parseConfig(), then sanitizeConfig(); a configuration with an issue      *)
(* throws.                                                                  *)
Start(raw) ==
  /\ task = Idle
  /\ LET parsed == ValidateSyntropyLogConfig(raw)
     IN  task' = [do |-> "start", raw |-> raw, issues |-> parsed.issues,
                  config |-> IF parsed.issues # {} THEN <<>>
                             ELSE SanitizeConfig(Restrict(raw, DOMAIN raw \ parsed.none))]

StartSpec == Init /\ [][\E raw \in RawConfigs : Start(raw)]_task

-----------------------------------------------------------------------------
(* A configuration is refused with every fault of it, those a first fault   *)
(* could hide included; one that is accepted is in force down to each       *)
(* pattern, hook and transport in it, except that nothing is left of what   *)
(* stands under a sensitive name, nor of credentials in the text of a URL,  *)
(* that of a RegExp in a list an empty object is left, and that a null may  *)
(* stand for a value not given                                              *)
(* (src/utils/sanitizeConfig.ts, whose copy the framework runs with).       *)
SettingsTakeEffect ==
  task.do = "start" =>
    /\ task.issues =
         UNION {ValidateSyntropyLogConfig(Only(task.raw, k)).issues : k \in Keys(task.raw)}
    /\ task.issues = {} =>
         \A p \in {q \in DOMAIN task.raw : task.raw[q] \notin Branches} :
           LET set    == task.raw[p]
               masked == {i \in DOMAIN p : p[i] \in Sensitive}
           IN  \/ set \in NotGiven /\ At(task.config, p) = "undefined"
               \/ IF masked # {}
                    THEN /\ \E i \in masked :
                              At(task.config, SubSeq(p, 1, i)) = "[CONFIG_MASKED]"
                         /\ At(task.config, p) \in {"[CONFIG_MASKED]", "undefined"}
                  ELSE IF set = "dsn" /\ Last(p) \in UrlKeys
                    THEN At(task.config, p) = "redacted"
                  ELSE IF set = "regexp" /\ task.raw[Front(p)] = "array"
                    THEN At(task.config, p) = "object"
                  ELSE At(task.config, p) = set
================================================================================
