------------------------------- MODULE Resolution -------------------------------
(***************************************************************************)
(* What the framework works out by functions, before an entry exists or    *)
(* while it is put together: the transports of an environment              *)
(* (src/logger/LoggerFactory.ts), the message and the metadata of a call   *)
(* and its retention fields (src/logger/Logger.ts,                         *)
(* src/logger/retentionUntil.ts), and the correlation id of a request      *)
(* (src/middleware/correlation.ts).                                        *)
(***************************************************************************)
EXTENDS Integers, Sequences, FiniteSets, SequencesExt, FiniteSetsExt, Functions, Tasks

CONSTANTS
  TransportName, (* transport -> its name                                    *)
  Environments,  (* values of logger.environment                             *)
  Configs,       (* configurations of transports                             *)
  Console,       (* the transport of a configuration without any             *)
  Argument,      (* kinds of arguments of a log call                         *)
  Calls,         (* log calls: sequences of arguments                        *)
  Registry,      (* retention policy -> its years, NoYears when not whole    *)
  NoYears,
  InlineYears,   (* years of rules given inline                              *)
  PolicyNames,   (* names getRetentionUntil() is given                       *)
  Taggings,      (* sequences of withRetention() and withMeta() calls        *)
  Days,          (* dates on which entries are written                       *)
  HeaderNames,   (* incomingHeaders, in order                                *)
  HeaderValue,   (* values of a header, blank ones and bad ones included     *)
  Requests,      (* headers of requests: name -> values                      *)
  Traceparent,   (* the header of that name                                  *)
  Blank, Bad, Zero, (* a blank value, a malformed traceparent, an all-zero one *)
  None

ASSUME CallAssumption ==
  /\ Argument = {"text", "empty", "plain", "error", "array", "number", "null"}
  /\ Calls \subseteq Seq(Argument)

(* The elements of s at the given positions, in their order: what filter()  *)
(* leaves of an array.                                                      *)
Picked(s, at) ==
  LET upTo[i \in 0..Len(s)] ==
        IF i = 0 THEN <<>> ELSE IF i \in at THEN Append(upTo[i - 1], s[i]) ELSE upTo[i - 1]
  IN  upTo[Len(s)]

-----------------------------------------------------------------------------
(* A configuration: transportList and env; or the routes of transports,     *)
(* each a sequence of entries with the environments they are for (None: no  *)
(* transports at all).                                                      *)
RouteEntry == [transport : DOMAIN TransportName, envs : SUBSET Environments]

ASSUME TransportsAssumption ==
  /\ Console \in DOMAIN TransportName
  /\ \A c \in Configs :
       /\ c.list \in [DOMAIN c.list -> DOMAIN TransportName]
       /\ c.env \in [DOMAIN c.env -> Seq(STRING)]
       /\ c.routes = None \/ c.routes \in Seq([route : STRING, entries : Seq(RouteEntry)])

Entries(config) == FlattenSeq([i \in DOMAIN config.routes |-> config.routes[i].entries])

(* Mutant: an empty list of environments counts as none given. *)
ResolveTransportsForEnvFalsy(entries, env) ==
  LET kept == Picked(entries, {i \in DOMAIN entries : env \in entries[i].envs \/ entries[i].envs = {}})
  IN  [i \in DOMAIN kept |-> kept[i].transport]

(* resolveTransportsForEnv() *)
ResolveTransportsForEnv(entries, env) ==
  LET kept == Picked(entries, {i \in DOMAIN entries : env \in entries[i].envs})
  IN  [i \in DOMAIN kept |-> kept[i].transport]

UsesList(config) == DOMAIN config.list # {} /\ DOMAIN config.env # {}

(* collectTransport(): under its name, the last of a name.                  *)
Collected(entries) ==
  [n \in {TransportName[entries[i].transport] : i \in DOMAIN entries} |->
     entries[Max({i \in DOMAIN entries : TransportName[entries[i].transport] = n})].transport]

(* resolveTransports() *)
ResolveTransports(config, env) ==
  IF UsesList(config)
    THEN LET names == IF env \in DOMAIN config.env THEN config.env[env] ELSE <<>>
             known == Picked(names, {i \in DOMAIN names : names[i] \in DOMAIN config.list})
         IN  [routes |-> <<[route |-> "default",
                            to |-> [i \in DOMAIN known |-> config.list[known[i]]]]>>,
              pool   |-> config.list]
  ELSE IF config.routes # None
    THEN [routes |-> [i \in DOMAIN config.routes |->
                        [route |-> config.routes[i].route,
                         to |-> ResolveTransportsForEnv(config.routes[i].entries, env)]],
          pool   |-> Collected(Entries(config))]
  ELSE [routes |-> <<[route |-> "default", to |-> <<Console>>]>>,
        pool   |-> [n \in {TransportName[Console]} |-> Console]]

Configure(config, env) ==
  /\ task = Idle
  /\ task' = [do |-> "configure", config |-> config, env |-> env,
              result |-> ResolveTransports(config, env)]

-----------------------------------------------------------------------------
Truthy(arg) == arg \notin {"empty", "null"}
IsPlainObject(arg) == arg = "plain"
MetadataFirst(args) == args[1] \in {"plain", "error"}

(* parseLogArgs(): which argument is the metadata (0: none), which is the   *)
(* message (0: none), and which are put into its text by util.format().     *)
Parsed(metadata, message, text) == [metadata |-> metadata, message |-> message, text |-> text]

(* Mutant: a trailing object is one more argument of the format. *)
ParseLogArgsFormatting(args) ==
  LET n == Len(args)
  IN  IF n = 0 THEN Parsed(0, 0, {})
      ELSE IF MetadataFirst(args)
        THEN IF n > 1 /\ Truthy(args[2]) THEN Parsed(1, 2, IF n > 2 THEN 2..n ELSE {}) ELSE Parsed(1, 0, {})
      ELSE IF Truthy(args[1]) THEN Parsed(0, 1, IF n > 1 THEN 1..n ELSE {}) ELSE Parsed(0, 0, {})

ParseLogArgs(args) ==
  LET n       == Len(args)
      first   == IF MetadataFirst(args) THEN 2 ELSE 1
      message == IF first <= n /\ Truthy(args[first]) THEN first ELSE 0
      text    == IF message # 0 /\ first < n THEN first..n ELSE {}
  IN  CASE n = 0 -> Parsed(0, 0, {})
        [] n > 0 /\ MetadataFirst(args) -> Parsed(1, message, text)
        [] n = 2 /\ ~MetadataFirst(args) /\ IsPlainObject(args[2]) -> Parsed(2, message, {})
        [] OTHER -> Parsed(0, message, text)

Parse(args) ==
  /\ task = Idle
  /\ task' = [do |-> "parse", args |-> args, result |-> ParseLogArgs(args)]

-----------------------------------------------------------------------------
(* The days of the Gregorian calendar, numbered. *)
Leap(y) == y % 4 = 0 /\ (y % 100 # 0 \/ y % 400 = 0)
DaysIn(y, m) == CASE m = 2 -> IF Leap(y) THEN 29 ELSE 28
                  [] m \in {4, 6, 9, 11} -> 30
                  [] OTHER -> 31
DaysBefore(y, m) ==
  LET through[k \in 0..12] == IF k = 0 THEN 0 ELSE through[k - 1] + DaysIn(y, k)
  IN  365 * y + ((y - 1) \div 4) - ((y - 1) \div 100) + ((y - 1) \div 400) + through[m - 1]
DayNumber(y, m, d) == DaysBefore(y, m) + d

(* Mutant: the 29th of February becomes the 28th. *)
RetentionUntilClamped(at, years) ==
  IF years = NoYears \/ years <= 0 THEN None
  ELSE DayNumber(at.y + years, at.m, Min({at.d, DaysIn(at.y + years, at.m)}))

(* retentionUntil(): setUTCFullYear() carries a day the month has not over  *)
(* into the next one.                                                       *)
RetentionUntil(at, years) ==
  IF years = NoYears \/ years <= 0 THEN None ELSE DayNumber(at.y + years, at.m, at.d)

(* withRetention() by name and inline, and the one-argument withMeta().      *)
Tagging == [by : {"name"}, policy : PolicyNames, emitRules : BOOLEAN]
             \cup [by : {"inline"}, years : InlineYears] \cup [by : {"meta"}]

ASSUME RetentionAssumption ==
  /\ \A p \in DOMAIN Registry : Registry[p] \in Int \cup {NoYears}
  /\ None \notin DOMAIN Registry
  /\ InlineYears \subseteq Int \cup {NoYears}
  /\ Taggings \subseteq Seq(Tagging)
  /\ \A at \in Days : /\ at \in [y : Nat, m : 1..12, d : 1..31]
                     /\ at.d <= DaysIn(at.y, at.m)

(* The bindings of a logger that concern retention: the field "retention",  *)
(* a policy's name, or Object after the one-argument withMeta(); and        *)
(* "retentionRules".                                                        *)
Object == "object"
Untagged == [retention |-> None, rules |-> NoYears]

(* A call for an unknown policy throws and binds nothing.                   *)
Tagged(bindings, call) ==
  CASE call.by = "name" /\ call.policy \notin DOMAIN Registry -> bindings
    [] call.by = "name" /\ call.policy \in DOMAIN Registry ->
         [retention |-> call.policy,
          rules |-> IF call.emitRules THEN Registry[call.policy] ELSE bindings.rules]
    [] call.by = "inline" -> [bindings EXCEPT !.rules = call.years]
    [] call.by = "meta"   -> [bindings EXCEPT !.retention = Object]

(* resolveRetentionYears() *)
ResolveRetentionYears(bindings) ==
  IF bindings.retention \in DOMAIN Registry THEN Registry[bindings.retention] ELSE bindings.rules

Bindings(calls) ==
  LET upTo[i \in 0..Len(calls)] == IF i = 0 THEN Untagged ELSE Tagged(upTo[i - 1], calls[i])
  IN  upTo[Len(calls)]

Tag(calls, at) ==
  /\ task = Idle
  /\ LET bindings == Bindings(calls)
     IN  task' = [do |-> "tag", calls |-> calls, at |-> at, bindings |-> bindings,
                  until |-> RetentionUntil(at, ResolveRetentionYears(bindings))]

(* getRetentionUntil(): a name that is not registered throws. *)
GetRetentionUntil(name, at) ==
  IF name \in DOMAIN Registry THEN RetentionUntil(at, Registry[name]) ELSE "throws"

LookUp(name, at) ==
  /\ task = Idle
  /\ task' = [do |-> "lookUp", policy |-> name, at |-> at,
              until |-> GetRetentionUntil(name, at)]

-----------------------------------------------------------------------------
(* A header has a sequence of values, none when it is absent. *)
ASSUME HeaderAssumption ==
  /\ HeaderNames \in Seq(Range(HeaderNames)) /\ None \notin HeaderValue
  /\ Requests \subseteq [Range(HeaderNames) \cup {Traceparent} -> Seq(HeaderValue)]

(* Mutant: only the first of several values is looked at. *)
FirstHeaderValueHead(values) ==
  IF values = <<>> \/ Head(values) = Blank THEN None ELSE Head(values)

(* firstHeaderValue() *)
FirstHeaderValue(values) ==
  LET filled == SelectInSeq(values, LAMBDA v : v # Blank)
  IN  IF filled = 0 THEN None ELSE values[filled]

(* traceIdFromTraceparent() looks at the first value alone. *)
TraceIdFromTraceparent(values) ==
  IF values = <<>> \/ Head(values) \in {Blank, Bad, Zero} THEN None ELSE Head(values)

Generated == "generated"

(* resolveCorrelationId() *)
ResolveCorrelationId(headers, parseTraceparent) ==
  LET found   == SelectInSeq(HeaderNames, LAMBDA n : FirstHeaderValue(headers[n]) # None)
      traceId == TraceIdFromTraceparent(headers[Traceparent])
  IN  CASE found # 0 -> FirstHeaderValue(headers[HeaderNames[found]])
        [] found = 0 /\ parseTraceparent /\ traceId # None -> traceId
        [] OTHER -> Generated

Correlate(headers, parseTraceparent) ==
  /\ task = Idle
  /\ task' = [do |-> "correlate", headers |-> headers, parse |-> parseTraceparent,
              id |-> ResolveCorrelationId(headers, parseTraceparent)]

Resolve ==
  \/ \E c \in Configs, e \in Environments : Configure(c, e)
  \/ \E c \in Calls : Parse(c)
  \/ \E t \in Taggings, d \in Days : Tag(t, d)
  \/ \E n \in PolicyNames, d \in Days : LookUp(n, d)
  \/ \E r \in Requests, p \in BOOLEAN : Correlate(r, p)

ResolveSpec == Init /\ [][Resolve]_task

-----------------------------------------------------------------------------
(* By default an entry goes to the transports that the configuration names  *)
(* for the environment, and to no other; and each transport of any environment  *)
(* can be addressed by a name, unless a later one has taken it              *)
(* (examples/TRANSPORT_POOL_AND_ENV.md).                                    *)
RoutesFitEnvironment ==
  task.do = "configure" =>
    LET config == task.config
        pool   == task.result.pool
        routes == task.result.routes
    IN  /\ \A i \in DOMAIN routes, t \in DOMAIN TransportName :
             t \in Range(routes[i].to) <=>
               CASE UsesList(config) ->
                      /\ task.env \in DOMAIN config.env
                      /\ \E n \in Range(config.env[task.env]) \cap DOMAIN config.list :
                           config.list[n] = t
                 [] ~UsesList(config) /\ config.routes # None ->
                      \E e \in Range(config.routes[i].entries) :
                        e.transport = t /\ task.env \in e.envs
                 [] OTHER -> t = Console
        /\ ~UsesList(config) /\ config.routes # None =>
             \A i \in DOMAIN Entries(config) :
               LET t == Entries(config)[i].transport
               IN  \/ t \in Range(pool)
                   \/ \E j \in DOMAIN Entries(config) :
                        j > i /\ TransportName[Entries(config)[j].transport] = TransportName[t]

(* In a call of one or two arguments no plain object ends in the text of    *)
(* the message, where no rule would mask it ("routed to metadata so it goes *)
(* through masking, instead of being inlined", CHANGELOG.md:142), whatever  *)
(* stands beside it.                                                        *)
ObjectsReachMasking ==
  task.do = "parse" /\ Len(task.args) <= 2 =>
    \A i \in task.result.text : task.args[i] # "plain"

(* The first day on which a number of years have passed since a date. *)
Anniversary(at, years) ==
  LET later == {date \in (1..12) \X (1..31) :
                  /\ date[2] <= DaysIn(at.y + years, date[1])
                  /\ date[1] > at.m \/ (date[1] = at.m /\ date[2] >= at.d)}
  IN  Min({DayNumber(at.y + years, date[1], date[2]) : date \in later})

(* However a logger was tagged, the date on its entries belongs to the      *)
(* policy they name, else to the rules they carry; it is the date that      *)
(* getRetentionUntil() gives for that policy, and never a day short of the  *)
(* whole years of it (src/logger/retentionUntil.ts:19).                     *)
WindowMatchesLabel ==
  LET window(years) == IF years = NoYears \/ years <= 0 THEN None
                       ELSE Anniversary(task.at, years)
  IN  /\ task.do = "tag" =>
           LET b == task.bindings
           IN  task.until = window(IF b.retention \in DOMAIN Registry
                                     THEN Registry[b.retention] ELSE b.rules)
      /\ task.do = "lookUp" /\ task.policy \in DOMAIN Registry =>
           task.until = window(Registry[task.policy])

(* An id that the caller sent is kept: the first header that has one        *)
(* decides, in its first value that is not blank, then a valid traceparent; *)
(* only without any is one made up (docs/context.md:109).                   *)
CallerIdKept ==
  task.do = "correlate" =>
    LET h       == task.headers
        ids(n)  == Range(h[n]) \ {Blank}
        rank    == {i \in DOMAIN HeaderNames : ids(HeaderNames[i]) # {}}
        valid   == h[Traceparent] # <<>> /\ h[Traceparent][1] \notin {Blank, Bad, Zero}
    IN  IF rank # {}
          THEN LET values == h[HeaderNames[Min(rank)]]
               IN  \E i \in DOMAIN values :
                     task.id = values[i] /\ \A j \in 1..i - 1 : values[j] = Blank
          ELSE task.id = IF task.parse /\ valid THEN h[Traceparent][1] ELSE Generated
================================================================================
