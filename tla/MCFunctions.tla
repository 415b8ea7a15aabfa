------------------------------- MODULE MCFunctions -------------------------------
(* One run for everything that is a function of its arguments.               *)
EXTENDS Masks, Resolution, Configuration, TLC

CONSTANTS MaxTokens, MaxMisread, t1, t2, t3, yearly, ttl

(* Values of up to four characters and one of six, whose last four digits    *)
(* may be kept; texts of characters of one to four bytes.                    *)
SomeChars  == {"a", "1", "2", "@"}
SomeDigits == {"1", "2"}
AllValues  == UNION {[1..n -> SomeChars] : n \in 0..4} \cup {<<"1", "2", "a", "1", "2", "1">>}
AllTexts   == UNION {[1..n -> 1..4] : n \in 0..4}
Lengths    == 0..9

SpecsWith(delimiters) ==
  {[redact |-> r, unmaskStart |-> a, unmaskEnd |-> z, scope |-> sc,
    keepAfter |-> d, preserveLength |-> p] :
     r \in BOOLEAN, a \in 0..2, z \in 0..2, sc \in {"all", "digits"},
     d \in delimiters, p \in BOOLEAN}
DelimitedSpecs ==
  {s \in SpecsWith({{}, {<<"@">>}, {<<"@", "a">>}}) :
     /\ s.redact => s.unmaskStart + s.unmaskEnd = 0
     /\ <<"@", "a">> \in s.keepAfter => s.preserveLength /\ ~s.redact}
Presets == {StrategyToSpec(s, p) :
              s \in Range(DefaultStrategies) \cup {"custom"},
              p \in BOOLEAN}
AllSpecs == DelimitedSpecs \cup Presets

(* Every well-formed pattern of some tokens up to a length: one token more,  *)
(* where a regular expression may have it.                                   *)
MayFollow(p, token) ==
  LET atoms == {"atom", "class", "empty", "point"}
  IN  CASE token \in atoms \cup {"("} -> TRUE
        [] token = ")" -> Depth(p, Len(p)) > 0 /\ Last(p) # "("
        [] token = "?" -> p # <<>> /\ Last(p) \in atoms \cup {")"} \cup Repeats
        [] OTHER       -> p # <<>> /\ Last(p) \in atoms \cup {")"}

PatternsUpTo(max, tokens) ==
  LET upTo[n \in 0..max] ==
        IF n = 0 THEN {<<>>}
        ELSE {<<>>} \cup {Append(x[1], x[2]) :
               x \in {y \in upTo[n - 1] \X tokens : MayFollow(y[1], y[2])}}
  IN  {p \in upTo[max] : Depth(p, Len(p)) = 0}

(* Patterns without what the scan misreads; with it, around and inside of a  *)
(* group that is nested in this way; and shorter ones of any tokens.         *)
AllPatterns ==
  PatternsUpTo(MaxTokens, Tokens \ ({"class"} \cup Misread))
    \cup PatternsUpTo(MaxMisread, {"class", "(", ")", "+"} \cup Misread)
    \cup PatternsUpTo(MaxMisread - 1, Tokens)

(* Three transports, two of one name; lists, routes, and neither.            *)
TransportNames == (t1 :> "first") @@ (t2 :> "first") @@ (t3 :> "console")
Envs == {"dev", "prod", "test"}
Entry == [transport : {t1, t2, t3}, envs : {{}, {"prod"}, Envs}]
SomeEntries == UNION {[1..n -> Entry] : n \in 0..2}
Routed == {<<[route |-> "default", entries |-> e]>> : e \in SomeEntries}
            \cup {<<[route |-> "default", entries |-> e], [route |-> "audit", entries |-> f]>> :
                    e \in [1..1 -> Entry], f \in [1..1 -> Entry]}
Lists == {<<>>, ("a" :> t1) @@ ("b" :> t2)}
NamesOf == {<<>>, ("dev" :> <<"a">>) @@ ("prod" :> <<"a", "b", "c">>)}
AllConfigs == [list : Lists, env : NamesOf, routes : Routed \cup {None}]

AllArguments == {"text", "empty", "plain", "error", "array", "number", "null"}
AllCalls == UNION {[1..n -> AllArguments] : n \in 0..3}

(* Entries of days around the end of February, in years around a leap year   *)
(* and a century that is none.                                               *)
Policies == (yearly :> 1) @@ (ttl :> NoYears) @@ ("long" :> 5) @@ ("broken" :> 0)
SomePolicyNames == DOMAIN Policies \cup {"unknown"}
AllTaggings == UNION {[1..n -> Tagging] : n \in 0..2}
SomeDays == {[y |-> y, m |-> md[1], d |-> md[2]] :
               y \in {1999, 2000, 2003, 2096, 2099},
               md \in {<<1, 1>>, <<2, 28>>, <<3, 1>>, <<12, 31>>}}
            \cup {[y |-> y, m |-> 2, d |-> 29] : y \in {2000, 2096}}

Headers == <<"x-trace-id", "x-request-id">>
SomeHeaderValues == {Blank, Bad, Zero, "id1", "id2", "trace"}
SomeValues == UNION {[1..n -> {Blank, "id1", "id2"}] : n \in 0..2}
TraceValues == {<<>>} \cup {<<v>> : v \in {Blank, Bad, Zero, "trace"}} \cup {<<Bad, "trace">>}
AllRequests == {("x-trace-id" :> a) @@ ("x-request-id" :> b) @@ ("traceparent" :> c) :
                  a \in SomeValues, b \in SomeValues, c \in TraceValues}

(* Configurations with up to four sections, each right, or wrong in one or   *)
(* several places; names of an application's own that are sensitive, or hold *)
(* a URL.                                                                    *)
Leaf(kind) == [p \in {<<>>} |-> kind]
Branch(is, f) ==
  [p \in {<<>>} \cup UNION {Under(k, DOMAIN f[k]) : k \in DOMAIN f} |->
     IF p = <<>> THEN is ELSE f[p[1]][Tail(p)]]
Node(f)  == Branch("object", f)
Array(f) == Branch("array", f)
Lf(kinds) == {Leaf(k) : k \in kinds}
Made(fields) == {Node(f) : f \in fields}
SomeEntriesRaw == {Leaf("transport"), Node([transport |-> Leaf("transport"), env |-> Leaf("text")]),
                   Node([env |-> Leaf("positive")]), Leaf("text")}
SomeRules ==
  Made([pattern : Lf({"regexp", "positive"}), strategy : Lf({"level", "null"}),
        customMask : Lf({"function", "null"})])
  \cup Made([pattern : Lf({"text"})])
SomeLoggers ==
  Made([level : Lf({"level", "text", "null"}),
        transportList : Made([main : Lf({"transport"})])
                          \cup Made([main : Lf({"text", "transport"}), token : Lf({"transport"})]),
        transports : Made([default : {Leaf("text")}]) \cup Lf({"text", "null"})
                       \cup {Array([i \in {"0"} |-> a]) : a \in SomeEntriesRaw}
                       \cup {Array(("0" :> a) @@ ("1" :> b)) : a, b \in SomeEntriesRaw}])
  \cup Made([disableNativeAddon : Lf({"boolean", "text"}), serializerTimeoutMs : Lf({"zero", "positive"}),
              env : Made([prod : {Array(<<>>), Array([i \in {"0"} |-> Leaf("text")])} \cup Lf({"text"})]),
              prettyPrint : Made([enabled : Lf({"boolean", "zero"})])])
SomeMaskings == {Leaf("null"), Node([rules |-> Leaf("text")])}
  \cup {Node([rules |-> Array([i \in {"0"} |-> a])]) : a \in SomeRules}
  \cup {Node([rules |-> Array(("0" :> a) @@ ("1" :> b))]) : a \in SomeRules, b \in SomeRules}
SomeContexts ==
  Made([outbound : Made([http : Made([tenantId : Lf({"text", "zero"}), apiKey : Lf({"text"})])])])
SomePolicies == Made([sox : Made([years : Lf({"positive"}), url : Lf({"dsn", "text"})])
                              \cup Lf({"text", "regexp"})
                              \cup {Node([tags |-> Array([i \in {"0"} |-> Leaf("regexp")])])}])
SomeConfigs ==
  {Node([logger |-> l, shutdownTimeout |-> s]) : l \in SomeLoggers, s \in Lf({"zero", "positive"})}
  \cup {Node([masking |-> m, context |-> c, retentionPolicies |-> p]) :
           m \in SomeMaskings, c \in SomeContexts, p \in SomePolicies}
  \cup Made([onLogFailure : Lf({"function", "text"}),
              loggingMatrix : Made([default : {Array(<<>>), Array([i \in {"0"} |-> Leaf("text")])} \cup Lf({"text"}),
                                    audit : Lf({"positive"})]),
              retention : Made([version : Lf({"text", "zero"}), emitUntil : Lf({"boolean", "null"})]),
              retentionPolicies : SomePolicies])

SomeNames == SchemaKeys \cup UNION {UNION {Range(p) : p \in DOMAIN c} : c \in SomeConfigs}

Next == Transform \/ Resolve \/ \E raw \in RawConfigs : Start(raw)
Spec == Init /\ [][Next]_task
================================================================================
