---------------------------- MODULE LoggingProofs ----------------------------
(***************************************************************************)
(* Proofs about the loggers and their factory, for any transports, names,  *)
(* routes, bounds and surroundings.                                        *)
(***************************************************************************)
EXTENDS Logging, SequenceTheorems, TLAPS

-----------------------------------------------------------------------------
(* Auxiliary invariants.                                                    *)

(* The snapshot, once taken, is the configuration; without one nothing has  *)
(* been reconfigured.                                                       *)
SnapshotInv ==
  /\ snapshot = NoSnapshot => ~debugging
  /\ snapshot = NoSnapshot \/ (snapshot.routes = Routes /\ snapshot.pool = Configured)

(* pendingRouting says of a sequence of operations what they mean.          *)
PendingFits(pending, ops) ==
  /\ pending.kind = IF ops = <<>> THEN "none"
                    ELSE IF EndsInOverride(ops) THEN "override" ELSE "change"
  /\ pending.add = Given(ops, "add")
  /\ pending.remove = Given(ops, "remove")
  /\ EndsInOverride(ops) => pending.override = Given(ops, "override")

PendingInv == \A l \in DOMAIN loggers : PendingFits(loggers[l].pending, loggers[l].asked)

(* A call in progress serves the transports it was meant for: those it has  *)
(* served and those it has still to serve make up the ones that take the    *)
(* level.                                                                   *)
CallSound(log) ==
  /\ log.targets = log.meant
  /\ log.got \cup log.told \cup log.todo \subseteq log.meant
  /\ log.stage = "dispatching" => log.got \cup log.todo = EnabledFor(log.meant, log.level)
  /\ log.stage = "telling" =>
       EnabledFor(log.meant, "error") \subseteq log.told \cup log.threw \cup log.todo
  /\ log.stage = "serializing" => log.got = {} /\ log.told = {}

CallsInv == \A i \in DOMAIN running : CallSound(running[i])

-----------------------------------------------------------------------------
(* Lemmas about sequences.                                                  *)

LEMMA AppendFacts ==
  ASSUME NEW S, NEW s \in Seq(S), NEW e \in S
  PROVE  /\ Append(s, e) \in Seq(S)
         /\ DOMAIN Append(s, e) = 1..(Len(s) + 1) /\ DOMAIN s = 1..Len(s) /\ Len(s) \in Nat
         /\ \A i \in 1..(Len(s) + 1) : Append(s, e)[i] = IF i = Len(s) + 1 THEN e ELSE s[i]
  OBVIOUS

LEMMA AppendTo ==
  ASSUME NEW S, NEW s \in Seq(S), NEW e \in S, NEW n \in Nat, Len(s) = n - 1
  PROVE  /\ DOMAIN Append(s, e) = 1..n /\ Len(Append(s, e)) = n /\ Append(s, e)[n] = e
         /\ \A j \in 1..(n - 1) : Append(s, e)[j] = s[j]
  OBVIOUS

LEMMA WiderSeq ==
  ASSUME NEW S, NEW T, S \subseteq T, NEW s \in Seq(S)
  PROVE  s \in Seq(T)
  OBVIOUS

LEMMA RemoveAtFacts ==
  ASSUME NEW S, NEW s \in Seq(S), NEW i \in DOMAIN s
  PROVE  /\ RemoveAt(s, i) \in Seq(S)
         /\ Len(RemoveAt(s, i)) = Len(s) - 1
         /\ \A j \in 1..(Len(s) - 1) :
              RemoveAt(s, i)[j] = IF j < i THEN s[j] ELSE s[j + 1]
<1> DEFINE a == SubSeq(s, 1, i - 1)
           b == SubSeq(s, i + 1, Len(s))
<1>1. i \in 1..Len(s) /\ Len(s) \in Nat /\ DOMAIN s = 1..Len(s)
  OBVIOUS
<1>2. /\ a \in Seq(S) /\ Len(a) = i - 1
      /\ \A j \in 1..(i - 1) : a[j] = s[j]
  <2>1. \A j \in 1..(i - 1) : s[j] \in S
    BY <1>1
  <2>2. Len(a) = IF 1 <= i - 1 THEN i - 1 - 1 + 1 ELSE 0
    BY <1>1, <2>1, SubSeqProperties
  <2>3. a \in Seq(S) /\ \A j \in 1..(i - 1 - 1 + 1) : a[j] = s[1 + j - 1]
    BY <1>1, <2>1, SubSeqProperties
  <2> QED
    BY <1>1, <2>2, <2>3
<1>3. /\ b \in Seq(S) /\ Len(b) = Len(s) - i
      /\ \A j \in 1..(Len(s) - i) : b[j] = s[i + j]
  <2>1. \A j \in (i + 1)..Len(s) : s[j] \in S
    BY <1>1
  <2>2. Len(b) = IF i + 1 <= Len(s) THEN Len(s) - (i + 1) + 1 ELSE 0
    BY <1>1, <2>1, SubSeqProperties
  <2>3. b \in Seq(S) /\ \A j \in 1..(Len(s) - (i + 1) + 1) : b[j] = s[i + 1 + j - 1]
    BY <1>1, <2>1, SubSeqProperties
  <2> QED
    BY <1>1, <2>2, <2>3
<1> HIDE DEF a, b
<1>4. RemoveAt(s, i) = a \o b
  BY DEF RemoveAt, a, b
<1>5. /\ a \o b \in Seq(S) /\ Len(a \o b) = Len(s) - 1 /\ DOMAIN (a \o b) = 1..(Len(s) - 1)
      /\ \A j \in 1..(Len(s) - 1) : (a \o b)[j] = IF j <= i - 1 THEN a[j] ELSE b[j - (i - 1)]
  <2>1. /\ a \o b \in Seq(S) /\ Len(a \o b) = Len(a) + Len(b)
        /\ \A j \in 1..(Len(a) + Len(b)) :
             (a \o b)[j] = IF j <= Len(a) THEN a[j] ELSE b[j - Len(a)]
    BY <1>2, <1>3, ConcatProperties
  <2>2. Len(a) + Len(b) = Len(s) - 1
    BY <1>1, <1>2, <1>3
  <2>3. DOMAIN (a \o b) = 1..Len(a \o b)
    BY <2>1
  <2> QED
    BY <1>2, <2>1, <2>2, <2>3
<1>6. ASSUME NEW j \in 1..(Len(s) - 1)
      PROVE  (a \o b)[j] = IF j < i THEN s[j] ELSE s[j + 1]
  <2>1. CASE j <= i - 1
    <3>1. (a \o b)[j] = a[j]
      BY <1>5, <2>1
    <3>2. j \in 1..(i - 1) /\ j < i
      BY <1>1, <2>1
    <3>3. a[j] = s[j]
      BY <1>2, <3>2
    <3> QED
      BY <3>1, <3>2, <3>3
  <2>2. CASE ~(j <= i - 1)
    <3> DEFINE m == j - (i - 1)
    <3>1. m \in 1..(Len(s) - i) /\ i + m = j + 1
      BY <1>1, <2>2
    <3>2. (a \o b)[j] = b[m] /\ b[m] = s[i + m]
      BY <1>3, <1>5, <2>2, <3>1
    <3> QED
      BY <1>1, <2>2, <3>1, <3>2
  <2> QED
    BY <2>1, <2>2
<1> QED
  BY <1>4, <1>5, <1>6

-----------------------------------------------------------------------------
(* Types.                                                                   *)

LEMMA RouteOfType ==
  ASSUME IsRoutes(routes), NEW name
  PROVE  RouteOf(name) \in SUBSET Transports
BY ConfigAssumption DEF RouteOf, IsRoutes

LEMMA RouteType ==
  ASSUME NEW pending \in PendingRouting, NEW op \in Operation
  PROVE  Route(pending, op) \in PendingRouting
<1>1. op.names \in SUBSET Names /\ op.do \in {"override", "add", "remove"}
  BY DEF Operation
<1>2. CASE op.do = "override"
  BY <1>1, <1>2 DEF Route, Overridden, PendingRouting
<1>3. CASE op.do = "add"
  BY <1>1, <1>3 DEF Route, Added, PendingRouting
<1>4. CASE op.do = "remove"
  BY <1>1, <1>4 DEF Route, Removed, PendingRouting
<1> QED
  BY <1>1, <1>2, <1>3, <1>4

LEMMA ResolveType ==
  ASSUME NEW defaults \in SUBSET Transports, NEW p, IsPool(p), NEW pending \in PendingRouting
  PROVE  Resolve(defaults, p, pending) \in SUBSET Transports
<1>1. \A names : Found(p, names) \in SUBSET Transports
  BY DEF Found, IsPool
<1>2. pending.kind \in {"none", "override", "change"}
  BY DEF PendingRouting
<1> QED
  BY <1>1, <1>2 DEF Resolve

LEMMA MeantType ==
  ASSUME NEW defaults \in SUBSET Transports, NEW p, IsPool(p), NEW ops
  PROVE  Meant(defaults, p, ops) \in SUBSET Transports
<1>1. \A names : Found(p, names) \in SUBSET Transports
  BY DEF Found, IsPool
<1> QED
  BY <1>1 DEF Meant

LEMMA NewLoggerType ==
  ASSUME NEW name \in LoggerNames, NEW level \in Levels, NEW defaults \in SUBSET Transports
  PROVE  NewLogger(name, level, defaults) \in Logger
<1>1. NoRouting \in PendingRouting
  BY DEF NoRouting, PendingRouting
<1>2. <<>> \in Seq(Operation)
  OBVIOUS
<1> QED
  BY <1>1, <1>2 DEF NewLogger, Logger

(* The innermost call in progress, and what changes when it goes on. *)
LEMMA OnTop ==
  ASSUME running \in Seq(Log), running # <<>>
  PROVE  /\ Len(running) \in 1..Len(running) /\ DOMAIN running = 1..Len(running)
         /\ This \in Log
         /\ \A log \in Log : Becomes(log) =>
              /\ running' \in Seq(Log) /\ DOMAIN running' = 1..Len(running)
              /\ \A i \in 1..Len(running) :
                   running'[i] = IF i = Len(running) THEN log ELSE running[i]
<1>1. Len(running) \in Nat /\ Len(running) # 0 /\ DOMAIN running = 1..Len(running)
  OBVIOUS
<1>2. Len(running) \in 1..Len(running)
  BY <1>1
<1>3. This \in Log
  BY <1>1, <1>2 DEF This
<1>4. ASSUME NEW log \in Log, Becomes(log)
      PROVE  /\ running' \in Seq(Log) /\ DOMAIN running' = 1..Len(running)
             /\ \A i \in 1..Len(running) :
                  running'[i] = IF i = Len(running) THEN log ELSE running[i]
  <2>1. running' = [running EXCEPT ![Len(running)] = log]
    BY <1>4 DEF Becomes
  <2>2. running' \in Seq(Log)
    BY <1>1, <1>2, <2>1, ExceptSeq
  <2> QED
    BY <1>1, <1>2, <2>1, <2>2
<1> QED
  BY <1>1, <1>2, <1>3, <1>4

(* What is left when the innermost call is over. *)
LEMMA Popped ==
  ASSUME running \in Seq(Log), running # <<>>, Return
  PROVE  /\ running' \in Seq(Log)
         /\ \A i \in DOMAIN running' : i \in DOMAIN running /\ running'[i] = running[i]
<1>1. Len(running) \in Nat /\ Len(running) # 0 /\ DOMAIN running = 1..Len(running)
  OBVIOUS
<1>2. running' = SubSeq(running, 1, Len(running) - 1)
  BY DEF Return, Front
<1>3. \A i \in 1..(Len(running) - 1) : running[i] \in Log
  BY <1>1
<1>4. /\ SubSeq(running, 1, Len(running) - 1) \in Seq(Log)
      /\ Len(SubSeq(running, 1, Len(running) - 1)) =
           IF 1 <= Len(running) - 1 THEN Len(running) - 1 - 1 + 1 ELSE 0
      /\ \A i \in 1..(Len(running) - 1 - 1 + 1) :
           SubSeq(running, 1, Len(running) - 1)[i] = running[1 + i - 1]
  BY <1>1, <1>3, SubSeqProperties
<1>5. Len(running') = Len(running) - 1 /\ running' \in Seq(Log)
  BY <1>1, <1>2, <1>4
<1>6. DOMAIN running' = 1..(Len(running) - 1)
  BY <1>5
<1>7. \A i \in 1..(Len(running) - 1) : running'[i] = running[i]
  BY <1>1, <1>2, <1>4
<1> QED
  BY <1>1, <1>5, <1>6, <1>7

(* One logger replaced by another record. *)
LEMMA LoggerChanged ==
  ASSUME loggers \in Seq(Logger), NEW l \in DOMAIN loggers, NEW logger \in Logger,
         loggers' = [loggers EXCEPT ![l] = logger]
  PROVE  /\ loggers' \in Seq(Logger) /\ DOMAIN loggers' = DOMAIN loggers
         /\ \A k \in DOMAIN loggers : loggers'[k] = IF k = l THEN logger ELSE loggers[k]
<1>1. DOMAIN loggers = 1..Len(loggers)
  OBVIOUS
<1> QED
  BY <1>1, ExceptSeq

(* A logger more; the pool stays well typed. *)
LEMMA LoggerAppended ==
  ASSUME loggers \in Seq(Logger), NEW logger \in Logger, loggers' = Append(loggers, logger)
  PROVE  /\ loggers' \in Seq(Logger)
         /\ DOMAIN loggers = 1..Len(loggers) /\ Len(loggers) \in Nat
         /\ DOMAIN loggers' = 1..(Len(loggers) + 1)
         /\ \A k \in DOMAIN loggers' :
              loggers'[k] = IF k = Len(loggers) + 1 THEN logger ELSE loggers[k]
BY AppendFacts

Entry(n) == [name : LoggerNames, logger : 1..n]

LEMMA EntriesGrow ==
  ASSUME NEW n \in Nat, NEW s \in Seq(Entry(n))
  PROVE  s \in Seq(Entry(n + 1))
<1>1. Entry(n) \subseteq Entry(n + 1)
  BY DEF Entry
<1> QED
  BY <1>1, SeqMonotonic

LEMMA RememberType ==
  ASSUME recent \in Seq(LoggerNames), NEW name \in LoggerNames, Remember(name)
  PROVE  recent' \in Seq(LoggerNames)
<1>1. CASE recent' = Append(recent, name)
  BY <1>1
<1>2. CASE \E i \in DOMAIN recent : recent' = Append(RemoveAt(recent, i), name)
  <2>1. PICK i \in DOMAIN recent : recent' = Append(RemoveAt(recent, i), name)
    BY <1>2
  <2>2. RemoveAt(recent, i) \in Seq(LoggerNames)
    BY RemoveAtFacts
  <2> QED
    BY <2>1, <2>2
<1> QED
  BY <1>1, <1>2 DEF Remember

LEMMA ReconfiguredType ==
  ASSUME IsRoutes(routes), IsPool(pool), NEW t \in DebugTransports, Reconfigure(t)
  PROVE  IsRoutes(routes)' /\ IsPool(pool)'
<1>1. t \in Transports /\ NameOf[t] \in Names
  BY ConfigAssumption, NameAssumption
<1>2. IsRoutes(routes)'
  BY <1>1, ConfigAssumption DEF IsRoutes, Reconfigure
<1>3. IsPool(pool)'
  <2>1. pool' = [n \in DOMAIN pool \cup {NameOf[t]} |-> IF n = NameOf[t] THEN t ELSE pool[n]]
    BY DEF Reconfigure
  <2>2. DOMAIN pool' = DOMAIN pool \cup {NameOf[t]}
    BY <2>1
  <2>3. \A n \in DOMAIN pool' : pool'[n] \in Transports
    BY <1>1, <2>1, <2>2 DEF IsPool
  <2> QED
    BY <1>1, <2>1, <2>2, <2>3 DEF IsPool
<1> QED
  BY <1>2, <1>3

(* What a call in progress may become. *)
LEMMA LogStepType ==
  ASSUME running \in Seq(Log), Serialize \/ Dispatch \/ Report \/ Tell \/ LogReturns \/ LogThrows
  PROVE  running' \in Seq(Log)
<1>0. running # <<>>
  BY DEF Serialize, Dispatch, Report, Tell, LogReturns, LogThrows
<1>1. This \in Log
  BY <1>0, OnTop
<1>2. \A log \in Log : Becomes(log) => running' \in Seq(Log)
  BY <1>0, OnTop
<1>3. CASE Serialize
  <2>1. /\ [This EXCEPT !.stage = "dispatching", !.todo = EnabledFor(This.targets, This.level)] \in Log
        /\ [This EXCEPT !.stage = "failed"] \in Log
    BY <1>1 DEF Log, EnabledFor
  <2> QED
    BY <1>2, <1>3, <2>1 DEF Serialize
<1>4. CASE Dispatch
  <2>1. PICK t \in This.todo :
          \/ Becomes([This EXCEPT !.todo = @ \ {t}, !.got = @ \cup {t}])
          \/ Becomes([This EXCEPT !.stage = "failed", !.threw = @ \cup {t}])
    BY <1>4 DEF Dispatch
  <2>2. /\ [This EXCEPT !.todo = @ \ {t}, !.got = @ \cup {t}] \in Log
        /\ [This EXCEPT !.stage = "failed", !.threw = @ \cup {t}] \in Log
    BY <1>1 DEF Log
  <2> QED
    BY <1>2, <2>1, <2>2
<1>5. CASE Report
  <2>1. [This EXCEPT !.stage = "telling", !.todo = EnabledFor(This.targets, "error")] \in Log
    BY <1>1 DEF Log, EnabledFor
  <2> QED
    BY <1>2, <1>5, <2>1 DEF Report
<1>6. CASE Tell
  <2>1. PICK t \in This.todo :
          \/ Becomes([This EXCEPT !.todo = @ \ {t}, !.told = @ \cup {t}])
          \/ Becomes([This EXCEPT !.todo = @ \ {t}, !.threw = @ \cup {t}])
    BY <1>6 DEF Tell
  <2>2. /\ [This EXCEPT !.todo = @ \ {t}, !.told = @ \cup {t}] \in Log
        /\ [This EXCEPT !.todo = @ \ {t}, !.threw = @ \cup {t}] \in Log
    BY <1>1 DEF Log
  <2> QED
    BY <1>2, <2>1, <2>2
<1>7. CASE LogReturns \/ LogThrows
  BY <1>0, <1>7, Popped DEF LogReturns, LogThrows
<1> QED
  BY <1>3, <1>4, <1>5, <1>6, <1>7

(* The type of the pool of loggers, in terms of the number of loggers. *)
LEMMA PoolType ==
  ASSUME loggers \in Seq(Logger)
  PROVE  /\ Len(loggers) \in Nat /\ DOMAIN loggers = 1..Len(loggers)
         /\ [name : LoggerNames, logger : DOMAIN loggers] = Entry(Len(loggers))
<1>1. Len(loggers) \in Nat /\ DOMAIN loggers = 1..Len(loggers)
  OBVIOUS
<1>2. [name : LoggerNames, logger : DOMAIN loggers] = Entry(Len(loggers))
  BY <1>1, Zenon DEF Entry
<1> QED
  BY <1>1, <1>2

LEMMA GetPooledType ==
  ASSUME TypeOK, NEW name \in LoggerNames, GetPooledLogger(name)
  PROVE  TypeOK'
<1>1. PICK i \in DOMAIN loggerPool :
        loggerPool' = Append(RemoveAt(loggerPool, i), loggerPool[i])
  BY DEF GetPooledLogger
<1> DEFINE E == [name : LoggerNames, logger : DOMAIN loggers]
           rest == RemoveAt(loggerPool, i)
<1>8. loggerPool \in Seq(E)
  BY DEF TypeOK
<1> HIDE DEF E, rest
<1>2. loggerPool \in Seq(E) /\ loggerPool[i] \in E
  BY <1>8
<1>3. rest \in Seq(E) /\ Len(rest) = Len(loggerPool) - 1
  BY <1>2, RemoveAtFacts DEF rest
<1>4. Append(rest, loggerPool[i]) \in Seq(E) /\ Len(Append(rest, loggerPool[i])) = Len(rest) + 1
  BY <1>2, <1>3, AppendProperties
<1>5. Len(loggerPool) \in Nat
  BY <1>2
<1>6. loggerPool' \in Seq(E) /\ Len(loggerPool') <= MaxPoolSize
  BY <1>1, <1>3, <1>4, <1>5 DEF rest, TypeOK
<1>7. recent' \in Seq(LoggerNames)
  BY RememberType DEF TypeOK, GetPooledLogger
<1> QED
  BY <1>6, <1>7 DEF TypeOK, GetPooledLogger, E

LEMMA GetNewType ==
  ASSUME TypeOK, NEW name \in LoggerNames, GetNewLogger(name)
  PROVE  TypeOK'
<1> DEFINE n == Len(loggers)
           kept == IF Len(loggerPool) >= MaxPoolSize THEN Tail(loggerPool) ELSE loggerPool
           new == [name |-> name, logger |-> n + 1]
<1>1. n \in Nat /\ DOMAIN loggers = 1..n /\ loggerPool \in Seq(Entry(n))
  BY PoolType DEF TypeOK
<1>2. RouteOf(name) \in SUBSET Transports
  BY RouteOfType DEF TypeOK
<1>3. loggers' \in Seq(Logger) /\ DOMAIN loggers' = 1..(n + 1)
  BY <1>2, NewLoggerType, LoggerAppended, LoggerAssumption DEF TypeOK, GetNewLogger
<1>4. /\ kept \in Seq(Entry(n)) /\ Len(kept) \in Nat
      /\ Len(kept) < MaxPoolSize
  <2>1. CASE Len(loggerPool) >= MaxPoolSize
    <3>1. loggerPool # <<>> /\ Len(loggerPool) = MaxPoolSize
      BY <1>1, <2>1, BoundAssumption DEF TypeOK
    <3>2. Tail(loggerPool) \in Seq(Entry(n)) /\ Len(Tail(loggerPool)) = Len(loggerPool) - 1
      BY <1>1, <3>1, HeadTailProperties
    <3> QED
      BY <2>1, <3>1, <3>2, BoundAssumption
  <2>2. CASE ~(Len(loggerPool) >= MaxPoolSize)
    BY <1>1, <2>2, BoundAssumption
  <2> QED
    BY <2>1, <2>2
<1>6. loggerPool' = Append(kept, new)
  BY DEF GetNewLogger
<1>5. kept \in Seq(Entry(n + 1)) /\ new \in Entry(n + 1)
  <2>1. new \in Entry(n + 1)
    BY <1>1 DEF Entry
  <2> HIDE DEF kept, n, new
  <2>2. kept \in Seq(Entry(n + 1))
    BY <1>1, <1>4, EntriesGrow
  <2> QED
    BY <2>1, <2>2
<1> HIDE DEF kept, new
<1>7. Append(kept, new) \in Seq(Entry(n + 1)) /\ Len(Append(kept, new)) = Len(kept) + 1
  BY <1>5, AppendProperties
<1>8. Len(loggerPool') <= MaxPoolSize
  BY <1>4, <1>6, <1>7, BoundAssumption
<1>9. loggerPool' \in Seq([name : LoggerNames, logger : DOMAIN loggers'])
  BY <1>3, <1>6, <1>7 DEF Entry
<1>10. recent' \in Seq(LoggerNames)
  BY RememberType DEF TypeOK, GetNewLogger
<1> QED
  BY <1>3, <1>8, <1>9, <1>10 DEF TypeOK, GetNewLogger

(* The record that replaces a logger is one. *)
LEMMA LoggerStepType ==
  ASSUME loggers \in Seq(Logger), NEW l \in DOMAIN loggers
  PROVE  /\ \A level \in Levels : [loggers[l] EXCEPT !.level = level] \in Logger
         /\ [loggers[l] EXCEPT !.pending = NoRouting, !.asked = <<>>] \in Logger
         /\ \A op \in Operation :
              [loggers[l] EXCEPT !.pending = Route(@, op), !.asked = Append(@, op)] \in Logger
<1>1. loggers[l] \in Logger
  OBVIOUS
<1>2. NoRouting \in PendingRouting /\ <<>> \in Seq(Operation)
  BY DEF NoRouting, PendingRouting
<1>3. \A op \in Operation : /\ Route(loggers[l].pending, op) \in PendingRouting
                            /\ Append(loggers[l].asked, op) \in Seq(Operation)
  BY <1>1, RouteType DEF Logger
<1> QED
  BY <1>1, <1>2, <1>3 DEF Logger

LEMMA OperateType ==
  ASSUME TypeOK, NEW l \in DOMAIN loggers,
         \/ \E level \in SetLevels : SetLevel(l, level)
         \/ Child(l)
         \/ \E op \in Operations : Operate(l, op)
  PROVE  TypeOK'
<1>1. CASE Child(l)
  <2>0. loggers[l] \in Logger
    BY DEF TypeOK
  <2>1. loggers[l] \in Logger /\ loggers[l].level \in Levels
    BY <2>0 DEF Logger
  <2>2. NewLogger(loggers[l].name, loggers[l].level, loggers[l].defaults) \in Logger
    BY <2>1, NewLoggerType DEF Logger
  <2> DEFINE n == Len(loggers)
  <2>3. loggers' \in Seq(Logger) /\ DOMAIN loggers' = 1..(n + 1) /\ n \in Nat
    BY <1>1, <2>2, LoggerAppended DEF Child, TypeOK
  <2>4. loggerPool \in Seq(Entry(n))
    BY PoolType DEF TypeOK
  <2> HIDE DEF n
  <2>5. loggerPool \in Seq(Entry(n + 1))
    BY <2>3, <2>4, EntriesGrow
  <2>6. loggerPool' \in Seq([name : LoggerNames, logger : DOMAIN loggers'])
    BY <1>1, <2>3, <2>5 DEF Entry, Child, factory
  <2> QED
    BY <1>1, <2>3, <2>6 DEF Child, TypeOK, factory
<1>2. CASE \E logger \in Logger : /\ loggers' = [loggers EXCEPT ![l] = logger]
                                 /\ UNCHANGED <<factory, running, phase>>
  <2>1. loggers' \in Seq(Logger) /\ DOMAIN loggers' = DOMAIN loggers
    BY <1>2, LoggerChanged DEF TypeOK
  <2> QED
    BY <1>2, <2>1 DEF TypeOK, factory
<1>3. ASSUME NEW level \in SetLevels, SetLevel(l, level)
      PROVE  \E logger \in Logger : loggers' = [loggers EXCEPT ![l] = logger]
  <2>1. loggers' = [loggers EXCEPT ![l] = [loggers[l] EXCEPT !.level = level]]
    BY <1>3 DEF SetLevel
  <2> QED
    BY <2>1, LoggerStepType, LoggerAssumption DEF TypeOK
<1>4. ASSUME NEW op \in Operations, Operate(l, op)
      PROVE  \E logger \in Logger : loggers' = [loggers EXCEPT ![l] = logger]
  <2>1. loggers' = [loggers EXCEPT ![l] =
          [loggers[l] EXCEPT !.pending = Route(@, op), !.asked = Append(@, op)]]
    BY <1>4 DEF Operate
  <2> QED
    BY <2>1, LoggerStepType, LoggerAssumption DEF TypeOK
<1> QED
  BY <1>1, <1>2, <1>3, <1>4 DEF SetLevel, Operate

LEMMA LogCallType ==
  ASSUME TypeOK, NEW l \in DOMAIN loggers, NEW level \in CallLevels, LogCall(l, level)
  PROVE  TypeOK'
<1>1. loggers' = [loggers EXCEPT ![l] =
        [loggers[l] EXCEPT !.pending = NoRouting, !.asked = <<>>]]
  BY DEF LogCall, Capture
<1>2. loggers' \in Seq(Logger) /\ DOMAIN loggers' = DOMAIN loggers
  BY <1>1, LoggerStepType, LoggerChanged DEF TypeOK
<1> DEFINE logger == loggers[l]
           targets == Resolve(logger.defaults, pool, logger.pending)
           meant == Meant(logger.defaults, pool, logger.asked)
           log == [stage |-> "serializing", level |-> level, targets |-> targets, todo |-> {},
                   got |-> {}, told |-> {}, threw |-> {}, meant |-> meant]
<1>3. logger \in Logger
  BY DEF TypeOK
<1>4. targets \in SUBSET Transports /\ meant \in SUBSET Transports
  BY <1>3, ResolveType, MeantType DEF TypeOK, Logger
<1>5. level \in Levels
  BY <1>3, LoggerAssumption DEF Logger, MethodLevels
<1>6. running' = Append(running, log)
  BY DEF LogCall
<1> HIDE DEF targets, meant, logger
<1>7. log \in Log
  BY <1>4, <1>5 DEF Log
<1> HIDE DEF log
<1>8. running' \in Seq(Log)
  BY <1>6, <1>7 DEF TypeOK
<1> QED
  BY <1>2, <1>8 DEF TypeOK, LogCall, factory

(* Every variable keeps its type, whatever the constants: the pool of       *)
(* loggers stays within maxLoggerPoolSize.                                  *)
THEOREM TypeCorrect == Spec => []TypeOK
<1>1. Init => TypeOK
  <2> SUFFICES ASSUME Init PROVE TypeOK
    OBVIOUS
  <2>1. IsRoutes(routes) /\ IsPool(pool)
    BY ConfigAssumption DEF Init, IsRoutes, IsPool
  <2>2. <<>> \in Seq(Logger) /\ <<>> \in Seq(Log) /\ <<>> \in Seq(LoggerNames)
    OBVIOUS
  <2>3. \A E : <<>> \in Seq(E)
    OBVIOUS
  <2>4. Len(<<>>) <= MaxPoolSize
    BY BoundAssumption
  <2> QED
    BY <2>1, <2>2, <2>3, <2>4 DEF Init, TypeOK
<1>2. TypeOK /\ [Next]_vars => TypeOK'
  <2> SUFFICES ASSUME TypeOK, [Next]_vars PROVE TypeOK'
    OBVIOUS
  <2>1. CASE \E name \in LoggerNames : GetPooledLogger(name)
    BY <2>1, GetPooledType
  <2>2. CASE \E name \in LoggerNames : GetNewLogger(name)
    BY <2>2, GetNewType
  <2>3. ASSUME NEW t \in DebugTransports, Reconfigure(t) PROVE TypeOK'
    <3>1. IsRoutes(routes)' /\ IsPool(pool)'
      BY <2>3, ReconfiguredType DEF TypeOK
    <3>2. snapshot' = NoSnapshot \/ (IsRoutes(snapshot.routes)' /\ IsPool(snapshot.pool)')
      BY <2>3 DEF TypeOK, Reconfigure
    <3> QED
      BY <2>3, <3>1, <3>2, BoundAssumption DEF TypeOK, Reconfigure, ClearLoggerPool
  <2>4. CASE Reset
    <3>1. IsRoutes(routes)' /\ IsPool(pool)'
      <4>1. IsRoutes(snapshot.routes) /\ IsPool(snapshot.pool)
        BY <2>4 DEF TypeOK, Reset
      <4> QED
        BY <2>4, <4>1 DEF Reset, IsRoutes, IsPool
    <3>2. snapshot' = NoSnapshot \/ (IsRoutes(snapshot.routes)' /\ IsPool(snapshot.pool)')
      BY <2>4 DEF TypeOK, Reset
    <3>3. /\ loggerPool' = <<>> /\ recent' = <<>> /\ debugging' = FALSE
          /\ UNCHANGED <<loggers, running, phase>>
      BY <2>4 DEF Reset, ClearLoggerPool
    <3>4. Len(loggerPool') <= MaxPoolSize
      BY <3>3, BoundAssumption
    <3>5. \A E : <<>> \in Seq(E)
      OBVIOUS
    <3>6. /\ loggerPool' \in Seq([name : LoggerNames, logger : DOMAIN loggers'])
          /\ recent' \in Seq(LoggerNames) /\ debugging' \in BOOLEAN
      BY <3>3, <3>5
    <3>7. /\ loggers' \in Seq(Logger) /\ running' \in Seq(Log)
          /\ phase' \in {"up", "flushing", "down"}
      BY <3>3 DEF TypeOK
    <3> QED
      BY <3>1, <3>2, <3>4, <3>6, <3>7 DEF TypeOK
  <2>5. CASE StartShutdown
    BY <2>5 DEF TypeOK, StartShutdown, factory
  <2>6. CASE EndShutdown
    BY <2>6, BoundAssumption DEF TypeOK, EndShutdown, ClearLoggerPool
  <2>7. ASSUME NEW l \in DOMAIN loggers,
               \/ \E level \in SetLevels : SetLevel(l, level)
               \/ Child(l)
               \/ \E op \in Operations : Operate(l, op)
        PROVE  TypeOK'
    BY <2>7, OperateType
  <2>8. CASE \E l \in DOMAIN loggers, level \in CallLevels : LogCall(l, level)
    BY <2>8, LogCallType
  <2>9. CASE Serialize \/ Dispatch \/ Report \/ Tell \/ LogReturns \/ LogThrows
    <3>1. running' \in Seq(Log)
      BY <2>9, LogStepType DEF TypeOK
    <3>2. UNCHANGED <<factory, loggers, phase>>
      BY <2>9 DEF Serialize, Dispatch, Report, Tell, LogReturns, LogThrows, Return
    <3> QED
      BY <3>1, <3>2 DEF TypeOK, factory
  <2>10. CASE UNCHANGED vars
    BY <2>10 DEF TypeOK, vars, factory
  <2> QED
    BY <2>1, <2>2, <2>3, <2>4, <2>5, <2>6, <2>7, <2>8, <2>9, <2>10 DEF Next
<1> QED
  BY <1>1, <1>2, PTL DEF Spec

-----------------------------------------------------------------------------
(* The snapshot and the pool of loggers.                                    *)

(* After resetTransports() the routes and the pool are the configuration,   *)
(* however often they were reconfigured and reset before.                   *)
THEOREM RestoredAfterResetHolds == Spec => []RestoredAfterReset
<1> DEFINE Inv == SnapshotInv /\ RestoredAfterReset
<1>1. Init => Inv
  BY DEF Init, SnapshotInv, RestoredAfterReset
<1>2. Inv /\ [Next]_vars => Inv'
  <2> SUFFICES ASSUME Inv, [Next]_vars PROVE Inv'
    OBVIOUS
  <2>1. ASSUME NEW t \in DebugTransports, Reconfigure(t) PROVE Inv'
    <3>1. debugging' = TRUE
      BY <2>1 DEF Reconfigure
    <3>2. CASE snapshot = NoSnapshot
      <4>1. snapshot' = [routes |-> Routes, pool |-> Configured]
        BY <2>1, <3>2 DEF Reconfigure, SnapshotInv, RestoredAfterReset
      <4> QED
        BY <3>1, <4>1, SnapshotAssumption DEF SnapshotInv, RestoredAfterReset
    <3>3. CASE snapshot # NoSnapshot
      <4>1. snapshot' = snapshot
        BY <2>1, <3>3 DEF Reconfigure
      <4> QED
        BY <3>1, <3>3, <4>1 DEF SnapshotInv, RestoredAfterReset
    <3> QED
      BY <3>2, <3>3
  <2>2. CASE Reset
    BY <2>2 DEF Reset, SnapshotInv, RestoredAfterReset
  <2>3. ASSUME UNCHANGED <<routes, pool, snapshot, debugging>> PROVE Inv'
    BY <2>3 DEF SnapshotInv, RestoredAfterReset
  <2> QED
    BY <2>1, <2>2, <2>3
       DEF Next, vars, factory, GetPooledLogger, GetNewLogger, StartShutdown, EndShutdown,
           SetLevel, Child, Operate, LogCall, Serialize, Dispatch, Report, Tell,
           LogReturns, LogThrows, Return
<1> QED
  BY <1>1, <1>2, PTL DEF Spec

(* Entries that were in the pool, of loggers whose name and transports are  *)
(* what they were, stay fresh as long as the routes do; so do fresh entries *)
(* beside them.                                                             *)
LEMMA FreshKept ==
  ASSUME TypeOK, PooledLoggersFresh, UNCHANGED routes,
         \A l \in DOMAIN loggers : /\ loggers'[l].name = loggers[l].name
                                   /\ loggers'[l].defaults = loggers[l].defaults,
         \A j \in DOMAIN loggerPool' :
           \/ \E k \in DOMAIN loggerPool : loggerPool'[j] = loggerPool[k]
           \/ /\ loggers'[loggerPool'[j].logger].name = loggerPool'[j].name
              /\ loggers'[loggerPool'[j].logger].defaults = RouteOf(loggerPool'[j].name)
  PROVE  PooledLoggersFresh'
<1> SUFFICES ASSUME NEW j \in DOMAIN loggerPool'
             PROVE  /\ loggers'[loggerPool'[j].logger].name = loggerPool'[j].name
                    /\ loggers'[loggerPool'[j].logger].defaults = RouteOf(loggerPool'[j].name)
  BY DEF PooledLoggersFresh, RouteOf
<1>1. ASSUME NEW k \in DOMAIN loggerPool, loggerPool'[j] = loggerPool[k]
      PROVE  /\ loggers'[loggerPool'[j].logger].name = loggerPool'[j].name
             /\ loggers'[loggerPool'[j].logger].defaults = RouteOf(loggerPool'[j].name)
  <2> DEFINE E == [name : LoggerNames, logger : DOMAIN loggers]
  <2>1. loggerPool \in Seq(E) /\ \A e \in E : e.logger \in DOMAIN loggers
    BY DEF TypeOK
  <2> HIDE DEF E
  <2>2. loggerPool[k].logger \in DOMAIN loggers
    BY <2>1
  <2>3. /\ loggers[loggerPool[k].logger].name = loggerPool[k].name
        /\ loggers[loggerPool[k].logger].defaults = RouteOf(loggerPool[k].name)
    BY DEF PooledLoggersFresh
  <2> QED
    BY <1>1, <2>2, <2>3
<1> QED
  BY <1>1

(* Loggers taken from the pool write to the current route of their name.    *)
THEOREM PooledLoggersFreshHolds == Spec => []PooledLoggersFresh
<1>1. Init => PooledLoggersFresh
  BY DEF Init, PooledLoggersFresh
<1>2. TypeOK /\ PooledLoggersFresh /\ [Next]_vars => PooledLoggersFresh'
  <2> SUFFICES ASSUME TypeOK, PooledLoggersFresh, [Next]_vars PROVE PooledLoggersFresh'
    OBVIOUS
  <2>0. /\ DOMAIN loggers = 1..Len(loggers) /\ Len(loggers) \in Nat
        /\ \A l \in DOMAIN loggers : loggers[l] \in Logger
    BY DEF TypeOK
  <2>1. ASSUME NEW name \in LoggerNames, GetPooledLogger(name) PROVE PooledLoggersFresh'
    <3>1. PICK i \in DOMAIN loggerPool : loggerPool' = Append(RemoveAt(loggerPool, i), loggerPool[i])
      BY <2>1 DEF GetPooledLogger
    <3> DEFINE E == [name : LoggerNames, logger : DOMAIN loggers]
               rest == RemoveAt(loggerPool, i)
    <3>2. loggerPool \in Seq(E)
      BY DEF TypeOK
    <3> HIDE DEF E, rest
    <3>3. rest \in Seq(E) /\ \A j \in DOMAIN rest : \E k \in DOMAIN loggerPool : rest[j] = loggerPool[k]
      <4>1. /\ rest \in Seq(E) /\ Len(rest) = Len(loggerPool) - 1
            /\ \A j \in 1..(Len(loggerPool) - 1) :
                 rest[j] = IF j < i THEN loggerPool[j] ELSE loggerPool[j + 1]
        BY <3>2, RemoveAtFacts DEF rest
      <4>2. /\ DOMAIN rest = 1..(Len(loggerPool) - 1)
            /\ DOMAIN loggerPool = 1..Len(loggerPool) /\ Len(loggerPool) \in Nat
        BY <3>2, <4>1
      <4>3. ASSUME NEW j \in DOMAIN rest
            PROVE  j \in DOMAIN loggerPool /\ j + 1 \in DOMAIN loggerPool
        BY <4>2
      <4> QED
        BY <4>1, <4>2, <4>3
    <3>4. loggerPool' = Append(rest, loggerPool[i]) /\ loggerPool[i] \in E
      BY <3>1, <3>2 DEF rest
    <3>5. \A j \in DOMAIN loggerPool' : \E k \in DOMAIN loggerPool : loggerPool'[j] = loggerPool[k]
      BY <3>3, <3>4, AppendFacts
    <3>6. UNCHANGED <<routes, loggers>>
      BY <2>1 DEF GetPooledLogger
    <3> QED
      BY <3>5, <3>6, FreshKept
  <2>2. ASSUME NEW name \in LoggerNames, GetNewLogger(name) PROVE PooledLoggersFresh'
    <3> DEFINE E == [name : LoggerNames, logger : 1..(Len(loggers) + 1)]
               kept == IF Len(loggerPool) >= MaxPoolSize THEN Tail(loggerPool) ELSE loggerPool
               new == [name |-> name, logger |-> Len(loggers) + 1]
               made == NewLogger(name, GlobalLogLevel, RouteOf(name))
    <3>1. loggerPool' = Append(kept, new) /\ loggers' = Append(loggers, made) /\ UNCHANGED routes
      BY <2>2 DEF GetNewLogger
    <3>2. loggerPool \in Seq(E)
      BY PoolType, EntriesGrow DEF TypeOK, Entry
    <3>3. kept \in Seq(E) /\ \A j \in DOMAIN kept : \E k \in DOMAIN loggerPool : kept[j] = loggerPool[k]
      <4>1. CASE Len(loggerPool) >= MaxPoolSize
        <5>1. loggerPool # <<>>
          BY <4>1, <3>2, BoundAssumption
        <5>2. /\ Tail(loggerPool) \in Seq(E) /\ Len(Tail(loggerPool)) = Len(loggerPool) - 1
              /\ \A j \in 1..Len(Tail(loggerPool)) : Tail(loggerPool)[j] = loggerPool[j + 1]
          BY <3>2, <5>1, HeadTailProperties
        <5>3. DOMAIN Tail(loggerPool) = 1..(Len(loggerPool) - 1)
          BY <5>2
        <5>4. \A j \in 1..(Len(loggerPool) - 1) : j + 1 \in DOMAIN loggerPool
          BY <3>2
        <5> QED
          BY <4>1, <5>2, <5>3, <5>4
      <4>2. CASE ~(Len(loggerPool) >= MaxPoolSize)
        BY <3>2, <4>2
      <4> QED
        BY <4>1, <4>2
    <3>4. new \in E
      BY <2>0
    <3>5. made \in Logger
      BY NewLoggerType, RouteOfType, LoggerAssumption DEF TypeOK
    <3>6. /\ \A l \in DOMAIN loggers : loggers'[l] = loggers[l]
          /\ loggers'[Len(loggers) + 1] = made
      BY <2>0, <3>1, <3>5, LoggerAppended DEF TypeOK
    <3>7. made.name = name /\ made.defaults = RouteOf(name)
      BY DEF NewLogger
    <3> HIDE DEF E, kept, new, made
    <3>8. \A j \in DOMAIN loggerPool' :
            loggerPool'[j] = new \/ \E k \in DOMAIN loggerPool : loggerPool'[j] = loggerPool[k]
      BY <3>1, <3>3, <3>4, AppendFacts
    <3>9. /\ loggers'[new.logger].name = new.name
          /\ loggers'[new.logger].defaults = RouteOf(new.name)
      BY <3>6, <3>7 DEF new
    <3> QED
      BY <3>1, <3>6, <3>8, <3>9, FreshKept
  <2>3. ASSUME ClearLoggerPool PROVE PooledLoggersFresh'
    BY <2>3 DEF ClearLoggerPool, PooledLoggersFresh
  <2>4. ASSUME UNCHANGED <<routes, loggerPool>>,
               \A l \in DOMAIN loggers : /\ loggers'[l].name = loggers[l].name
                                         /\ loggers'[l].defaults = loggers[l].defaults
        PROVE  PooledLoggersFresh'
    BY <2>4, FreshKept
  <2>5. ASSUME NEW l \in DOMAIN loggers, Child(l) PROVE PooledLoggersFresh'
    <3>1. loggers[l] \in Logger
      BY <2>0
    <3>2. NewLogger(loggers[l].name, loggers[l].level, loggers[l].defaults) \in Logger
      BY <3>1, NewLoggerType DEF Logger
    <3>3. \A k \in DOMAIN loggers : loggers'[k] = loggers[k]
      BY <2>0, <2>5, <3>2, LoggerAppended DEF Child, TypeOK
    <3> QED
      BY <2>4, <2>5, <3>3 DEF Child, factory
  <2>6. ASSUME NEW l \in DOMAIN loggers,
               \/ \E level \in SetLevels : SetLevel(l, level)
               \/ \E op \in Operations : Operate(l, op)
               \/ \E level \in CallLevels : LogCall(l, level)
        PROVE  PooledLoggersFresh'
    <3>0. \A k \in DOMAIN loggers : loggers[k] \in Logger
      BY <2>0
    <3>1. ASSUME NEW k \in DOMAIN loggers
          PROVE  loggers'[k].name = loggers[k].name /\ loggers'[k].defaults = loggers[k].defaults
      <4>1. CASE k # l
        BY <2>6, <4>1 DEF SetLevel, Operate, LogCall, Capture
      <4>2. CASE k = l
        <5>1. CASE \E level \in SetLevels : SetLevel(l, level)
          BY <3>0, <4>2, <5>1 DEF SetLevel, Logger
        <5>2. CASE \E op \in Operations : Operate(l, op)
          BY <3>0, <4>2, <5>2 DEF Operate, Logger
        <5>3. CASE \E level \in CallLevels : LogCall(l, level)
          BY <3>0, <4>2, <5>3 DEF LogCall, Capture, Logger
        <5> QED
          BY <2>6, <5>1, <5>2, <5>3
      <4> QED
        BY <4>1, <4>2
    <3> QED
      BY <2>4, <2>6, <3>1 DEF SetLevel, Operate, LogCall, factory
  <2>7. ASSUME UNCHANGED <<routes, loggerPool, loggers>> PROVE PooledLoggersFresh'
    BY <2>4, <2>7
  <2> QED
    BY <2>1, <2>2, <2>3, <2>5, <2>6, <2>7
       DEF Next, vars, factory, Reconfigure, Reset, StartShutdown, EndShutdown,
           Serialize, Dispatch, Report, Tell, LogReturns, LogThrows, Return
<1> QED
  BY <1>1, <1>2, TypeCorrect, PTL DEF Spec

-----------------------------------------------------------------------------
(* Where the calls go.                                                      *)

(* One operation more: what it names comes on top of what was named, unless *)
(* it is an override, which sets that aside.                                *)
LEMMA GivenAppend ==
  ASSUME NEW ops \in Seq(Operation), NEW op \in Operation, NEW do
  PROVE  Given(Append(ops, op), do) =
           (IF op.do = "override" THEN {} ELSE Given(ops, do)) \cup
           (IF op.do = do THEN op.names ELSE {})
<1> DEFINE n == Len(ops)
           more == Append(ops, op)
<1>1. /\ n \in Nat /\ DOMAIN ops = 1..n /\ DOMAIN more = 1..(n + 1) /\ more[n + 1] = op
      /\ \A i \in 1..n : more[i] = ops[i]
  BY AppendFacts
<1> HIDE DEF n, more
<1>2. CASE op.do = "override"
  <2>1. InForce(more) = {n + 1}
    BY <1>1, <1>2 DEF InForce
  <2> QED
    BY <1>1, <1>2, <2>1 DEF Given, more
<1>3. CASE op.do # "override"
  <2>1. InForce(more) = InForce(ops) \cup {n + 1}
    <3>1. ASSUME NEW i \in 1..n PROVE i \in InForce(more) <=> i \in InForce(ops)
      BY <1>1, <1>3 DEF InForce
    <3>2. n + 1 \in InForce(more)
      BY <1>1 DEF InForce
    <3>3. InForce(more) \subseteq 1..(n + 1) /\ InForce(ops) \subseteq 1..n
      BY <1>1 DEF InForce
    <3>4. 1..(n + 1) = 1..n \cup {n + 1}
      BY <1>1
    <3> QED
      BY <3>1, <3>2, <3>3, <3>4
  <2>2. \A i \in InForce(ops) : more[i] = ops[i]
    BY <1>1 DEF InForce
  <2> DEFINE old == {i \in InForce(ops) : ops[i].do = do}
             now == {i \in InForce(more) : more[i].do = do}
  <2>3. now = old \cup (IF op.do = do THEN {n + 1} ELSE {})
    BY <1>1, <2>1, <2>2
  <2>4. \A i \in old : more[i].names = ops[i].names
    BY <2>2
  <2>5. Given(ops, do) = UNION {ops[i].names : i \in old}
    BY DEF Given
  <2>6. Given(more, do) = UNION {more[i].names : i \in now}
    BY DEF Given
  <2> HIDE DEF old, now
  <2>7. \A x : x \in Given(more, do) <=>
              x \in Given(ops, do) \/ (op.do = do /\ x \in op.names)
    BY <1>1, <2>3, <2>4, <2>5, <2>6
  <2> QED
    BY <1>3, <2>7 DEF more
<1> QED
  BY <1>2, <1>3

LEMMA GivenNothing ==
  ASSUME NEW do
  PROVE  Given(<<>>, do) = {} /\ ~EndsInOverride(<<>>)
BY DEF Given, InForce, EndsInOverride

(* After an override that comes last, nothing is added or removed.          *)
LEMMA PendingFitsRoute ==
  ASSUME NEW pending \in PendingRouting, NEW ops \in Seq(Operation), PendingFits(pending, ops),
         NEW op \in Operation
  PROVE  PendingFits(Route(pending, op), Append(ops, op))
<1> DEFINE more == Append(ops, op)
<1>1. \A do : Given(more, do) = (IF op.do = "override" THEN {} ELSE Given(ops, do)) \cup
                                (IF op.do = do THEN op.names ELSE {})
  BY GivenAppend
<1>2. more # <<>> /\ (EndsInOverride(more) <=> op.do = "override")
  BY AppendFacts DEF EndsInOverride
<1> HIDE DEF more
<1>3. op.do \in {"override", "add", "remove"}
  BY DEF Operation
<1>4. pending.add = Given(ops, "add") /\ pending.remove = Given(ops, "remove")
  BY DEF PendingFits
<1>5. PendingFits(Route(pending, op), more)
  <2>1. CASE op.do = "override"
    BY <1>1, <1>2, <2>1 DEF PendingFits, Route, Overridden
  <2>2. CASE op.do = "add"
    <3>1. Route(pending, op) = [kind |-> "change", override |-> {},
                                add |-> pending.add \cup op.names, remove |-> pending.remove]
      BY <2>2 DEF Route, Added
    <3>2. /\ Given(more, "add") = Given(ops, "add") \cup op.names
          /\ Given(more, "remove") = Given(ops, "remove")
      BY <1>1, <2>2
    <3> QED
      BY <1>2, <1>4, <2>2, <3>1, <3>2 DEF PendingFits
  <2>3. CASE op.do = "remove"
    <3>1. Route(pending, op) = [kind |-> "change", override |-> {},
                                add |-> pending.add, remove |-> pending.remove \cup op.names]
      BY <2>3 DEF Route, Removed
    <3>2. /\ Given(more, "add") = Given(ops, "add")
          /\ Given(more, "remove") = Given(ops, "remove") \cup op.names
      BY <1>1, <2>3
    <3> QED
      BY <1>2, <1>4, <2>3, <3>1, <3>2 DEF PendingFits
  <2> QED
    BY <1>3, <2>1, <2>2, <2>3
<1> QED
  BY <1>5 DEF more

(* The transports resolved are those meant.                                 *)
LEMMA ResolvedAsMeant ==
  ASSUME NEW defaults, NEW p, NEW pending, NEW ops, PendingFits(pending, ops)
  PROVE  Resolve(defaults, p, pending) = Meant(defaults, p, ops)
<1>1. CASE ops = <<>>
  <2>1. pending.kind = "none"
    BY <1>1 DEF PendingFits
  <2>2. Resolve(defaults, p, pending) = defaults
    BY <2>1 DEF Resolve
  <2>3. Meant(defaults, p, ops) = defaults
    BY <1>1, GivenNothing DEF Meant, Found
  <2> QED
    BY <2>2, <2>3
<1>2. CASE ops # <<>> /\ EndsInOverride(ops)
  <2>1. pending.kind = "override" /\ pending.override = Given(ops, "override")
    BY <1>2 DEF PendingFits
  <2> QED
    BY <1>2, <2>1 DEF Resolve, Meant
<1>3. CASE ops # <<>> /\ ~EndsInOverride(ops)
  <2>1. /\ pending.kind = "change"
        /\ pending.add = Given(ops, "add") /\ pending.remove = Given(ops, "remove")
    BY <1>3 DEF PendingFits
  <2> QED
    BY <1>3, <2>1 DEF Resolve, Meant
<1> QED
  BY <1>1, <1>2, <1>3

(* pendingRouting always says what the operations since the last entry mean. *)
LEMMA PendingStep ==
  ASSUME TypeOK, PendingInv, [Next]_vars
  PROVE  PendingInv'
<1>0. /\ DOMAIN loggers = 1..Len(loggers) /\ Len(loggers) \in Nat
      /\ \A l \in DOMAIN loggers : loggers[l] \in Logger
  BY DEF TypeOK
<1>1. PendingFits(NoRouting, <<>>)
  BY GivenNothing DEF PendingFits, NoRouting
<1>2. ASSUME NEW logger \in Logger, loggers' = Append(loggers, logger),
             PendingFits(logger.pending, logger.asked)
      PROVE  PendingInv'
  <2>1. loggers \in Seq(Logger)
    BY DEF TypeOK
  <2>2. /\ DOMAIN loggers' = 1..(Len(loggers) + 1)
        /\ \A k \in DOMAIN loggers' :
             loggers'[k] = IF k = Len(loggers) + 1 THEN logger ELSE loggers[k]
    BY <1>2, <2>1, LoggerAppended
  <2>3. \A k \in DOMAIN loggers' : k # Len(loggers) + 1 => k \in DOMAIN loggers
    BY <1>0, <2>2
  <2> QED
    BY <1>2, <2>2, <2>3 DEF PendingInv
<1>3. ASSUME NEW l \in DOMAIN loggers, NEW logger \in Logger,
             loggers' = [loggers EXCEPT ![l] = logger],
             PendingFits(logger.pending, logger.asked)
      PROVE  PendingInv'
  BY <1>3, <1>0, LoggerChanged DEF PendingInv, TypeOK
<1>4. ASSUME NEW name \in LoggerNames, GetNewLogger(name) PROVE PendingInv'
  <2>1. NewLogger(name, GlobalLogLevel, RouteOf(name)) \in Logger
    BY NewLoggerType, RouteOfType, LoggerAssumption DEF TypeOK
  <2>2. loggers' = Append(loggers, NewLogger(name, GlobalLogLevel, RouteOf(name)))
    BY <1>4 DEF GetNewLogger
  <2>3. PendingFits(NewLogger(name, GlobalLogLevel, RouteOf(name)).pending,
                    NewLogger(name, GlobalLogLevel, RouteOf(name)).asked)
    BY <1>1 DEF NewLogger
  <2> QED
    BY <1>2, <2>1, <2>2, <2>3
<1>5. ASSUME NEW l \in DOMAIN loggers, Child(l) PROVE PendingInv'
  <2> DEFINE made == NewLogger(loggers[l].name, loggers[l].level, loggers[l].defaults)
  <2>1. made \in Logger
    BY <1>0, NewLoggerType DEF Logger
  <2>2. PendingFits(made.pending, made.asked)
    BY <1>1 DEF NewLogger
  <2>3. loggers' = Append(loggers, made)
    BY <1>5 DEF Child
  <2> HIDE DEF made
  <2> QED
    BY <1>2, <2>1, <2>2, <2>3
<1>6. ASSUME NEW l \in DOMAIN loggers, NEW level \in SetLevels, SetLevel(l, level) PROVE PendingInv'
  <2> DEFINE logger == [loggers[l] EXCEPT !.level = level]
  <2>1. loggers' = [loggers EXCEPT ![l] = logger]
    BY <1>6 DEF SetLevel
  <2>2. logger \in Logger
    BY LoggerStepType, LoggerAssumption DEF TypeOK
  <2>3. logger.pending = loggers[l].pending /\ logger.asked = loggers[l].asked
    BY <1>0 DEF Logger
  <2> HIDE DEF logger
  <2>4. PendingFits(logger.pending, logger.asked)
    BY <2>3 DEF PendingInv
  <2> QED
    BY <1>3, <2>1, <2>2, <2>4
<1>7. ASSUME NEW l \in DOMAIN loggers, NEW op \in Operations, Operate(l, op) PROVE PendingInv'
  <2> DEFINE logger == [loggers[l] EXCEPT !.pending = Route(@, op), !.asked = Append(@, op)]
  <2>1. loggers' = [loggers EXCEPT ![l] = logger]
    BY <1>7 DEF Operate
  <2>2. logger \in Logger
    <3>1. op \in Operation
      BY LoggerAssumption
    <3> QED
      BY <3>1, LoggerStepType DEF TypeOK
  <2>3. /\ logger.pending = Route(loggers[l].pending, op)
        /\ logger.asked = Append(loggers[l].asked, op)
    BY <1>0 DEF Logger
  <2> HIDE DEF logger
  <2>4. PendingFits(logger.pending, logger.asked)
    <3>1. loggers[l].pending \in PendingRouting /\ loggers[l].asked \in Seq(Operation)
      BY <1>0 DEF Logger
    <3>2. PendingFits(loggers[l].pending, loggers[l].asked)
      BY DEF PendingInv
    <3> QED
      BY <2>3, <3>1, <3>2, PendingFitsRoute, LoggerAssumption
  <2> QED
    BY <1>3, <2>1, <2>2, <2>4
<1>9. ASSUME NEW l \in DOMAIN loggers, NEW level \in CallLevels, LogCall(l, level)
      PROVE  PendingInv'
  <2> DEFINE logger == [loggers[l] EXCEPT !.pending = NoRouting, !.asked = <<>>]
  <2>1. loggers' = [loggers EXCEPT ![l] = logger]
    BY <1>9 DEF LogCall, Capture
  <2>2. logger \in Logger
    BY LoggerStepType DEF TypeOK
  <2>3. logger.pending = NoRouting /\ logger.asked = <<>>
    BY <1>0 DEF Logger
  <2> HIDE DEF logger
  <2> QED
    BY <1>1, <1>3, <2>1, <2>2, <2>3
<1>10. CASE UNCHANGED loggers
  BY <1>10 DEF PendingInv
<1> QED
  BY <1>4, <1>5, <1>6, <1>7, <1>9, <1>10
     DEF Next, vars, GetPooledLogger, Reconfigure, Reset, StartShutdown, EndShutdown,
         Serialize, Dispatch, Report, Tell, LogReturns, LogThrows, Return

(* What the innermost call in progress becomes leaves the others sound.     *)
LEMMA CallsKept ==
  ASSUME TypeOK, CallsInv, running # <<>>, NEW log \in Log, Becomes(log), CallSound(log)
  PROVE  CallsInv'
<1>1. /\ DOMAIN running = 1..Len(running) /\ DOMAIN running' = 1..Len(running)
      /\ \A i \in 1..Len(running) : running'[i] = IF i = Len(running) THEN log ELSE running[i]
  BY OnTop DEF TypeOK
<1> QED
  BY <1>1 DEF CallsInv

LEMMA CallsStep ==
  ASSUME TypeOK, PendingInv, CallsInv, [Next]_vars
  PROVE  CallsInv'
<1>1. ASSUME NEW l \in DOMAIN loggers, NEW level \in CallLevels, LogCall(l, level)
      PROVE  CallsInv'
  <2> DEFINE logger == loggers[l]
             targets == Resolve(logger.defaults, pool, logger.pending)
             meant == Meant(logger.defaults, pool, logger.asked)
             log == [stage |-> "serializing", level |-> level, targets |-> targets,
                     todo |-> {}, got |-> {}, told |-> {}, threw |-> {}, meant |-> meant]
  <2>1. targets = meant
    BY ResolvedAsMeant DEF PendingInv
  <2>2. running' = Append(running, log)
    BY <1>1 DEF LogCall
  <2>3. running \in Seq(Log) /\ running' \in Seq(Log)
    BY <1>1, LogCallType DEF TypeOK
  <2>4. CallSound(log)
    BY <2>1 DEF CallSound
  <2> HIDE DEF log
  <2>5. /\ DOMAIN running' = 1..(Len(running) + 1) /\ DOMAIN running = 1..Len(running)
        /\ Len(running) \in Nat
        /\ \A i \in 1..Len(running) : running'[i] = running[i]
        /\ running'[Len(running) + 1] = log
    BY <2>2, <2>3
  <2>6. \A i \in DOMAIN running' : i = Len(running) + 1 \/ i \in DOMAIN running
    BY <2>5
  <2> QED
    BY <2>4, <2>5, <2>6 DEF CallsInv
<1>2. ASSUME running # <<>> PROVE This \in Log /\ CallSound(This)
  <2>1. Len(running) \in DOMAIN running /\ This \in Log
    BY <1>2, OnTop DEF TypeOK
  <2> QED
    BY <2>1 DEF CallsInv, This
<1>3. CASE Serialize
  <2>1. running # <<>> /\ This.stage = "serializing"
    BY <1>3 DEF Serialize
  <2> DEFINE ready == [This EXCEPT !.stage = "dispatching",
                                   !.todo = EnabledFor(This.targets, This.level)]
             failed == [This EXCEPT !.stage = "failed"]
  <2>2. ready \in Log /\ failed \in Log
    BY <1>2, <2>1 DEF Log, EnabledFor
  <2>3. CallSound(ready) /\ CallSound(failed)
    BY <1>2, <2>1 DEF CallSound, Log, EnabledFor
  <2>4. Becomes(ready) \/ Becomes(failed)
    BY <1>3 DEF Serialize
  <2> HIDE DEF ready, failed
  <2> QED
    BY <2>1, <2>2, <2>3, <2>4, CallsKept
<1>4. CASE Dispatch
  <2>1. running # <<>> /\ This.stage = "dispatching"
    BY <1>4 DEF Dispatch
  <2>2. PICK t \in This.todo :
          \/ Becomes([This EXCEPT !.todo = @ \ {t}, !.got = @ \cup {t}])
          \/ Becomes([This EXCEPT !.stage = "failed", !.threw = @ \cup {t}])
    BY <1>4 DEF Dispatch
  <2> DEFINE served == [This EXCEPT !.todo = @ \ {t}, !.got = @ \cup {t}]
             failed == [This EXCEPT !.stage = "failed", !.threw = @ \cup {t}]
  <2>3. served \in Log /\ failed \in Log
    BY <1>2, <2>1 DEF Log
  <2>4. CallSound(served) /\ CallSound(failed)
    BY <1>2, <2>1 DEF CallSound, Log
  <2>5. Becomes(served) \/ Becomes(failed)
    BY <2>2
  <2> HIDE DEF served, failed
  <2> QED
    BY <2>1, <2>3, <2>4, <2>5, CallsKept
<1>5. CASE Report
  <2>1. running # <<>> /\ This.stage = "failed"
    BY <1>5 DEF Report
  <2> DEFINE telling == [This EXCEPT !.stage = "telling", !.todo = EnabledFor(This.targets, "error")]
  <2>2. telling \in Log
    BY <1>2, <2>1 DEF Log, EnabledFor
  <2>3. CallSound(telling)
    BY <1>2, <2>1 DEF CallSound, Log, EnabledFor
  <2>4. Becomes(telling)
    BY <1>5 DEF Report
  <2> HIDE DEF telling
  <2> QED
    BY <2>1, <2>2, <2>3, <2>4, CallsKept
<1>6. CASE Tell
  <2>1. running # <<>> /\ This.stage = "telling"
    BY <1>6 DEF Tell
  <2>2. PICK t \in This.todo :
          \/ Becomes([This EXCEPT !.todo = @ \ {t}, !.told = @ \cup {t}])
          \/ Becomes([This EXCEPT !.todo = @ \ {t}, !.threw = @ \cup {t}])
    BY <1>6 DEF Tell
  <2> DEFINE told == [This EXCEPT !.todo = @ \ {t}, !.told = @ \cup {t}]
             thrown == [This EXCEPT !.todo = @ \ {t}, !.threw = @ \cup {t}]
  <2>3. told \in Log /\ thrown \in Log
    BY <1>2, <2>1 DEF Log
  <2>4. CallSound(told) /\ CallSound(thrown)
    BY <1>2, <2>1 DEF CallSound, Log
  <2>5. Becomes(told) \/ Becomes(thrown)
    BY <2>2
  <2> HIDE DEF told, thrown
  <2> QED
    BY <2>1, <2>3, <2>4, <2>5, CallsKept
<1>7. CASE LogReturns \/ LogThrows
  <2>1. \A i \in DOMAIN running' : i \in DOMAIN running /\ running'[i] = running[i]
    BY <1>7, Popped DEF LogReturns, LogThrows, TypeOK
  <2> QED
    BY <2>1 DEF CallsInv
<1>8. CASE UNCHANGED running
  BY <1>8 DEF CallsInv
<1> QED
  BY <1>1, <1>3, <1>4, <1>5, <1>6, <1>7, <1>8
     DEF Next, vars, GetPooledLogger, GetNewLogger, Reconfigure, Reset, StartShutdown, EndShutdown,
         SetLevel, Child, Operate

LEMMA CallsCorrect == Spec => [](PendingInv /\ CallsInv)
<1>1. Init => PendingInv /\ CallsInv
  BY DEF Init, PendingInv, CallsInv
<1>2. TypeOK /\ PendingInv /\ CallsInv /\ [Next]_vars => (PendingInv /\ CallsInv)'
  BY PendingStep, CallsStep
<1> QED
  BY <1>1, <1>2, TypeCorrect, PTL DEF Spec

(* An entry goes exactly to the transports that the operations on its       *)
(* logger since the last entry stand for, however calls of override(),      *)
(* add(), remove(), child() and the loggers interleave with log calls.      *)
THEOREM RoutedAsAskedHolds == Spec => []RoutedAsAsked
<1>1. CallsInv => RoutedAsAsked
  BY DEF CallsInv, CallSound, RoutedAsAsked
<1> QED
  BY <1>1, CallsCorrect, PTL

(* After a failure each transport that takes errors has had the error entry *)
(* or has thrown.                                                           *)
THEOREM FailureIsToldHolds == Spec => []FailureIsTold
<1>1. CallsInv => FailureIsTold
  BY DEF CallsInv, CallSound, FailureIsTold
<1> QED
  BY <1>1, CallsCorrect, PTL

-----------------------------------------------------------------------------
(* The pool against the history of the names asked for.                     *)

Once(names) == \A i, j \in DOMAIN names : names[i] = names[j] => i = j

PoolInv == Once(recent) /\ PoolKeepsRecent

(* A name moved to the end of a list of names, or put there, is there once. *)
LEMMA RememberOnce ==
  ASSUME recent \in Seq(LoggerNames), Once(recent), NEW name \in LoggerNames, Remember(name)
  PROVE  /\ Once(recent)'
         /\ \/ /\ \A i \in DOMAIN recent : recent[i] # name
               /\ Len(recent') = Len(recent) + 1 /\ recent'[Len(recent) + 1] = name
               /\ \A j \in 1..Len(recent) : recent'[j] = recent[j]
            \/ \E k \in DOMAIN recent :
                 /\ recent[k] = name
                 /\ Len(recent') = Len(recent) /\ recent'[Len(recent)] = name
                 /\ \A j \in 1..(Len(recent) - 1) :
                      recent'[j] = IF j < k THEN recent[j] ELSE recent[j + 1]
<1>0. recent' \in Seq(LoggerNames) /\ Len(recent) \in Nat /\ DOMAIN recent = 1..Len(recent)
  BY RememberType
<1>1. CASE name \notin ToSet(recent) /\ recent' = Append(recent, name)
  <2>1. \A i \in DOMAIN recent : recent[i] # name
    BY <1>1 DEF ToSet
  <2>2. /\ DOMAIN recent' = 1..(Len(recent) + 1) /\ Len(recent') = Len(recent) + 1
        /\ \A i \in 1..(Len(recent) + 1) :
             recent'[i] = IF i = Len(recent) + 1 THEN name ELSE recent[i]
    BY <1>0, <1>1, AppendFacts
  <2>3. ASSUME NEW i \in DOMAIN recent', NEW j \in DOMAIN recent', recent'[i] = recent'[j]
        PROVE  i = j
    <3>1. CASE i = Len(recent) + 1
      <4>1. CASE j = Len(recent) + 1
        BY <3>1, <4>1
      <4>2. CASE j # Len(recent) + 1
        BY <1>0, <2>1, <2>2, <2>3, <3>1, <4>2
      <4> QED
        BY <4>1, <4>2
    <3>2. CASE i # Len(recent) + 1
      <4>1. i \in DOMAIN recent /\ recent'[i] = recent[i]
        BY <1>0, <2>2, <3>2
      <4>2. j # Len(recent) + 1
        BY <2>1, <2>2, <2>3, <4>1
      <4>3. j \in DOMAIN recent /\ recent'[j] = recent[j]
        BY <1>0, <2>2, <4>2
      <4> QED
        BY <2>3, <4>1, <4>3 DEF Once
    <3> QED
      BY <3>1, <3>2
  <2>4. Once(recent)'
    BY <2>3 DEF Once
  <2>5. Len(recent) + 1 \in 1..(Len(recent) + 1) /\ \A j \in 1..Len(recent) : j \in 1..(Len(recent) + 1) /\ j # Len(recent) + 1
    BY <1>0
  <2>6. recent'[Len(recent) + 1] = name /\ \A j \in 1..Len(recent) : recent'[j] = recent[j]
    BY <2>2, <2>5
  <2> QED
    BY <2>1, <2>2, <2>4, <2>6
<1>2. CASE \E i \in DOMAIN recent :
             recent[i] = name /\ recent' = Append(RemoveAt(recent, i), name)
  <2>1. PICK k \in DOMAIN recent :
          recent[k] = name /\ recent' = Append(RemoveAt(recent, k), name)
    BY <1>2
  <2> DEFINE rest == RemoveAt(recent, k)
  <2>2. /\ rest \in Seq(LoggerNames) /\ Len(rest) = Len(recent) - 1
        /\ \A j \in 1..(Len(recent) - 1) :
             rest[j] = IF j < k THEN recent[j] ELSE recent[j + 1]
    BY RemoveAtFacts
  <2> HIDE DEF rest
  <2>3. /\ DOMAIN recent' = 1..Len(recent) /\ Len(recent') = Len(recent)
        /\ recent'[Len(recent)] = name
        /\ \A j \in 1..(Len(recent) - 1) : recent'[j] = rest[j]
    <3>1. recent' = Append(rest, name)
      BY <2>1 DEF rest
    <3>2. Len(rest) = Len(recent) - 1 /\ Len(recent) \in Nat
      BY <1>0, <2>2
    <3> QED
      BY <2>2, <3>1, <3>2, AppendTo
  <2>4. \A j \in 1..(Len(recent) - 1) :
          recent'[j] = IF j < k THEN recent[j] ELSE recent[j + 1]
    BY <2>2, <2>3
  <2>5. ASSUME NEW j \in 1..(Len(recent) - 1)
        PROVE  \E m \in DOMAIN recent : m # k /\ recent'[j] = recent[m] /\ m = IF j < k THEN j ELSE j + 1
    <3>1. j \in DOMAIN recent /\ j + 1 \in DOMAIN recent /\ k \in 1..Len(recent)
      BY <1>0
    <3>2. CASE j < k
      BY <2>4, <3>1, <3>2
    <3>3. CASE ~(j < k)
      <4>1. j + 1 # k
        BY <1>0, <3>1, <3>3
      <4> QED
        BY <2>4, <3>1, <3>3, <4>1
    <3> QED
      BY <3>2, <3>3
  <2>6. \A j \in 1..(Len(recent) - 1) : recent'[j] # name
    BY <2>1, <2>5 DEF Once
  <2>7. ASSUME NEW i \in 1..(Len(recent) - 1), NEW j \in 1..(Len(recent) - 1), recent'[i] = recent'[j]
        PROVE  i = j
    <3>1. PICK m \in DOMAIN recent :
            m # k /\ recent'[i] = recent[m] /\ m = IF i < k THEN i ELSE i + 1
      BY <2>5
    <3>2. PICK o \in DOMAIN recent :
            o # k /\ recent'[j] = recent[o] /\ o = IF j < k THEN j ELSE j + 1
      BY <2>5
    <3>3. m = o
      BY <2>7, <3>1, <3>2 DEF Once
    <3> QED
      BY <1>0, <3>1, <3>2, <3>3
  <2>8. \A i \in DOMAIN recent' : i \in 1..(Len(recent) - 1) \/ i = Len(recent)
    BY <1>0, <2>3
  <2>9. Once(recent)'
    BY <2>3, <2>6, <2>7, <2>8 DEF Once
  <2> QED
    BY <2>1, <2>3, <2>4, <2>9
<1> QED
  BY <1>1, <1>2 DEF Remember

LEMMA GetPooledKeepsRecent ==
  ASSUME TypeOK, PoolInv, NEW name \in LoggerNames, GetPooledLogger(name)
  PROVE  PoolInv'
<1> DEFINE E == [name : LoggerNames, logger : DOMAIN loggers]
           n == Len(recent)
           fit == IF n > MaxPoolSize THEN MaxPoolSize ELSE n
<1>1. PICK i \in DOMAIN loggerPool :
        loggerPool[i].name = name
          /\ loggerPool' = Append(RemoveAt(loggerPool, i), loggerPool[i])
  BY DEF GetPooledLogger
<1>2. /\ loggerPool \in Seq(E) /\ recent \in Seq(LoggerNames) /\ n \in Nat
      /\ fit \in Nat /\ fit <= n /\ DOMAIN recent = 1..n
  BY BoundAssumption DEF TypeOK
<1>3. /\ Len(loggerPool) = fit /\ DOMAIN loggerPool = 1..fit
      /\ \A j \in 1..fit : loggerPool[j].name = recent[n - fit + j]
  BY <1>2 DEF PoolInv, PoolKeepsRecent
<1> HIDE DEF E, n, fit
<1>4. recent[n - fit + i] = name /\ n - fit + i \in 1..n
  BY <1>1, <1>2, <1>3
<1>5. /\ Once(recent)' /\ Len(recent') = n /\ recent'[n] = name
      /\ \A j \in 1..(n - 1) :
           recent'[j] = IF j < n - fit + i THEN recent[j] ELSE recent[j + 1]
  <2>1. \A k \in DOMAIN recent : recent[k] = name => k = n - fit + i
    BY <1>2, <1>4 DEF PoolInv, Once
  <2> QED
    BY <1>2, <1>4, <2>1, RememberOnce DEF PoolInv, GetPooledLogger, n
<1>6. /\ Len(loggerPool') = fit /\ loggerPool'[fit] = loggerPool[i]
      /\ \A j \in 1..(fit - 1) :
           loggerPool'[j] = IF j < i THEN loggerPool[j] ELSE loggerPool[j + 1]
  <2> DEFINE rest == RemoveAt(loggerPool, i)
  <2>1. /\ rest \in Seq(E) /\ Len(rest) = fit - 1
        /\ \A j \in 1..(fit - 1) : rest[j] = IF j < i THEN loggerPool[j] ELSE loggerPool[j + 1]
    BY <1>2, <1>3, RemoveAtFacts
  <2> HIDE DEF rest
  <2>2. loggerPool[i] \in E
    BY <1>2
  <2>3. loggerPool' = Append(rest, loggerPool[i])
    BY <1>1 DEF rest
  <2> QED
    BY <1>2, <1>3, <2>1, <2>2, <2>3, AppendFacts
<1>7. \A j \in 1..fit : loggerPool'[j].name = recent'[n - fit + j]
  <2>1. CASE TRUE
    <3> SUFFICES ASSUME NEW j \in 1..fit PROVE loggerPool'[j].name = recent'[n - fit + j]
      OBVIOUS
    <3>1. CASE j = fit
      <4>1. n - fit + j = n
        BY <1>2, <3>1
      <4>2. recent'[n - fit + j] = name
        BY <1>5, <4>1
      <4>3. loggerPool'[j] = loggerPool[i]
        BY <1>6, <3>1
      <4> QED
        BY <1>1, <4>2, <4>3
    <3>2. CASE j < i /\ j # fit
      <4>1. n - fit + j \in 1..(n - 1) /\ j \in 1..(fit - 1) /\ n - fit + j < n - fit + i
        BY <1>2, <1>3, <3>2
      <4>2. recent'[n - fit + j] = recent[n - fit + j]
        BY <1>5, <4>1
      <4>3. loggerPool'[j] = loggerPool[j]
        BY <1>6, <3>2, <4>1
      <4> QED
        BY <1>3, <4>2, <4>3
    <3>3. CASE j >= i /\ j # fit
      <4>1. n - fit + j \in 1..(n - 1) /\ j \in 1..(fit - 1) /\ j + 1 \in 1..fit
        BY <1>2, <3>3
      <4>2. recent'[n - fit + j] = recent[n - fit + j + 1]
        BY <1>2, <1>3, <1>5, <3>3, <4>1
      <4>3. loggerPool'[j] = loggerPool[j + 1]
        BY <1>2, <1>3, <1>6, <3>3, <4>1
      <4>4. n - fit + j + 1 = n - fit + (j + 1)
        BY <1>2, <1>3, <4>1
      <4>5. loggerPool[j + 1].name = recent[n - fit + (j + 1)]
        BY <1>3, <4>1
      <4> QED
        BY <4>2, <4>3, <4>4, <4>5
    <3> QED
      BY <1>2, <1>3, <3>1, <3>2, <3>3
  <2> QED
    BY <2>1
<1> QED
  BY <1>5, <1>6, <1>7 DEF PoolInv, PoolKeepsRecent, n, fit

LEMMA GetNewKeepsRecent ==
  ASSUME TypeOK, PoolInv, NEW name \in LoggerNames, GetNewLogger(name)
  PROVE  PoolInv'
<1> DEFINE E == [name : LoggerNames, logger : DOMAIN loggers \cup {Len(loggers) + 1}]
           n == Len(recent)
           max == MaxPoolSize
           fit == IF n > max THEN max ELSE n
           new == [name |-> name, logger |-> Len(loggers) + 1]
<1>1. /\ loggerPool \in Seq(E) /\ recent \in Seq(LoggerNames) /\ n \in Nat
      /\ fit \in Nat /\ fit <= n /\ DOMAIN recent = 1..n /\ max \in Nat \ {0}
      /\ new \in E /\ new.name = name
  <2>1. /\ loggerPool \in Seq([name : LoggerNames, logger : DOMAIN loggers])
        /\ recent \in Seq(LoggerNames) /\ n \in Nat /\ DOMAIN recent = 1..n
        /\ max \in Nat \ {0}
    BY BoundAssumption DEF TypeOK
  <2>2. [name : LoggerNames, logger : DOMAIN loggers] \subseteq E
    OBVIOUS
  <2>3. new \in E /\ new.name = name
    OBVIOUS
  <2>4. loggerPool \in Seq(E)
    <3> HIDE DEF E
    <3> QED
      BY <2>1, <2>2, WiderSeq
  <2>5. fit \in Nat /\ fit <= n
    BY <2>1
  <2> QED
    BY <2>1, <2>3, <2>4, <2>5
<1>2. /\ Len(loggerPool) = fit /\ DOMAIN loggerPool = 1..fit
      /\ \A j \in 1..fit : loggerPool[j].name = recent[n - fit + j]
  <2>1. /\ Len(loggerPool) = fit
        /\ \A j \in 1..fit : loggerPool[j].name = recent[n - fit + j]
    BY DEF PoolInv, PoolKeepsRecent
  <2>2. DOMAIN loggerPool = 1..Len(loggerPool)
    BY <1>1
  <2> QED
    BY <2>1, <2>2
<1>3. /\ \A j \in 1..fit : loggerPool[j].name # name
      /\ Once(recent) /\ Remember(name)
      /\ loggerPool' = Append(IF Len(loggerPool) >= max THEN Tail(loggerPool) ELSE loggerPool, new)
  BY <1>2 DEF GetNewLogger, Pooled, PoolInv
<1> HIDE DEF E, n, fit, new, max
<1>4. CASE fit < max
  <2>1. fit = n
    BY <1>1, <1>4 DEF fit
  <2>2. \A i \in DOMAIN recent : recent[i] # name
    BY <1>1, <1>2, <1>3, <2>1
  <2>3. /\ Once(recent)' /\ Len(recent') = n + 1 /\ recent'[n + 1] = name
        /\ \A j \in 1..n : recent'[j] = recent[j]
    BY <1>1, <1>3, <2>2, RememberOnce DEF n
  <2>4. loggerPool' = Append(loggerPool, new)
    BY <1>1, <1>2, <1>3, <1>4
  <2>5. /\ Len(loggerPool') = n + 1 /\ loggerPool'[n + 1] = new
        /\ \A j \in 1..n : loggerPool'[j] = loggerPool[j]
    BY <1>1, <1>2, <2>1, <2>4, AppendFacts
  <2>6. \A j \in 1..(n + 1) : loggerPool'[j].name = recent'[j]
    <3> SUFFICES ASSUME NEW j \in 1..(n + 1) PROVE loggerPool'[j].name = recent'[j]
      OBVIOUS
    <3>1. CASE j = n + 1
      BY <1>1, <2>3, <2>5, <3>1
    <3>2. CASE j # n + 1
      <4>1. j \in 1..n /\ n - fit + j = j
        BY <1>1, <2>1, <3>2
      <4> QED
        BY <1>2, <2>1, <2>3, <2>5, <4>1
    <3> QED
      BY <3>1, <3>2
  <2>7. n + 1 <= max /\ \A j \in 1..(n + 1) : (n + 1) - (n + 1) + j = j
    BY <1>1, <1>4, <2>1
  <2>8. (IF Len(recent') > MaxPoolSize THEN MaxPoolSize ELSE Len(recent')) = n + 1
    BY <1>1, <2>3, <2>7 DEF max
  <2> QED
    BY <1>1, <2>3, <2>5, <2>6, <2>7, <2>8 DEF PoolInv, PoolKeepsRecent
<1>5. CASE ~(fit < max)
  <2>1. fit = max /\ n >= max
    BY <1>1, <1>5 DEF fit
  <2> DEFINE rest == Tail(loggerPool)
  <2>2. /\ rest \in Seq(E) /\ Len(rest) = max - 1
        /\ \A j \in 1..(max - 1) : rest[j] = loggerPool[j + 1]
    BY <1>1, <1>2, <2>1
  <2>3. loggerPool' = Append(rest, new)
    BY <1>1, <1>2, <1>3, <2>1
  <2> HIDE DEF rest
  <2>4. /\ Len(loggerPool') = max /\ loggerPool'[max] = new
        /\ \A j \in 1..(max - 1) : loggerPool'[j] = loggerPool[j + 1]
    BY <1>1, <2>2, <2>3, AppendFacts
  <2> DEFINE m == Len(recent')
  <2>5. /\ Once(recent)' /\ m \in Nat /\ m >= max /\ recent'[m] = name
        /\ \A j \in 1..(max - 1) : recent'[m - max + j] = recent[n - max + j + 1]
    <3>1. CASE /\ \A i \in DOMAIN recent : recent[i] # name
               /\ Len(recent') = n + 1 /\ recent'[n + 1] = name
               /\ \A j \in 1..n : recent'[j] = recent[j]
      <4>1. \A j \in 1..(max - 1) : /\ n - max + j + 1 \in 1..n
                                    /\ m - max + j = n - max + j + 1
        BY <1>1, <2>1, <3>1
      <4>2. m \in Nat /\ m >= max
        BY <1>1, <2>1, <3>1
      <4> QED
        BY <1>1, <1>3, <3>1, <4>1, <4>2, RememberOnce
    <3>2. CASE \E k \in DOMAIN recent :
                 /\ recent[k] = name
                 /\ Len(recent') = n /\ recent'[n] = name
                 /\ \A j \in 1..(n - 1) :
                      recent'[j] = IF j < k THEN recent[j] ELSE recent[j + 1]
      <4>1. PICK k \in DOMAIN recent :
              /\ recent[k] = name
              /\ Len(recent') = n /\ recent'[n] = name
              /\ \A j \in 1..(n - 1) :
                   recent'[j] = IF j < k THEN recent[j] ELSE recent[j + 1]
        BY <3>2
      <4>2. k <= n - max
        <5> SUFFICES ASSUME k > n - max PROVE FALSE
          BY <1>1, <2>1
        <5>1. k - (n - max) \in 1..fit /\ n - fit + (k - (n - max)) = k
          BY <1>1, <2>1
        <5> QED
          BY <1>2, <1>3, <4>1, <5>1
      <4>3. \A j \in 1..(max - 1) : n - max + j \in 1..(n - 1) /\ ~(n - max + j < k)
        BY <1>1, <2>1, <4>2
      <4>4. \A j \in 1..(max - 1) : recent'[n - max + j] = recent[n - max + j + 1]
        BY <4>1, <4>3
      <4> QED
        BY <1>1, <1>3, <2>1, <4>1, <4>4, RememberOnce
    <3> QED
      BY <1>1, <1>3, <3>1, <3>2, RememberOnce DEF n
  <2> HIDE DEF m
  <2>6. \A j \in 1..max : loggerPool'[j].name = recent'[m - max + j]
    <3> SUFFICES ASSUME NEW j \in 1..max PROVE loggerPool'[j].name = recent'[m - max + j]
      OBVIOUS
    <3>1. CASE j = max
      <4>1. m - max + j = m
        BY <1>1, <2>5, <3>1
      <4> QED
        BY <1>1, <2>4, <2>5, <3>1, <4>1
    <3>2. CASE j # max
      <4>1. j \in 1..(max - 1) /\ j + 1 \in 1..fit /\ n - fit + (j + 1) = n - max + j + 1
        BY <1>1, <2>1, <3>2
      <4>2. loggerPool'[j].name = loggerPool[j + 1].name
        BY <2>4, <4>1
      <4>3. loggerPool[j + 1].name = recent[n - max + j + 1]
        BY <1>2, <4>1
      <4>4. recent'[m - max + j] = recent[n - max + j + 1]
        BY <2>5, <4>1
      <4> QED
        BY <4>2, <4>3, <4>4
    <3> QED
      BY <3>1, <3>2
  <2>7. (IF m > max THEN max ELSE m) = max
    BY <1>1, <2>5
  <2> QED
    BY <2>4, <2>5, <2>6, <2>7 DEF PoolInv, PoolKeepsRecent, m, max
<1> QED
  BY <1>4, <1>5

LEMMA PoolStep ==
  ASSUME TypeOK, PoolInv, [Next]_vars
  PROVE  PoolInv'
<1>1. CASE loggerPool' = <<>> /\ recent' = <<>>
  BY <1>1, BoundAssumption DEF PoolInv, PoolKeepsRecent, Once
<1>2. CASE UNCHANGED <<loggerPool, recent>>
  BY <1>2 DEF PoolInv, PoolKeepsRecent, Once
<1>3. CASE \E name \in LoggerNames : GetPooledLogger(name)
  BY <1>3, GetPooledKeepsRecent
<1>4. CASE \E name \in LoggerNames : GetNewLogger(name)
  BY <1>4, GetNewKeepsRecent
<1>5. ASSUME NEW t \in DebugTransports, Reconfigure(t)
      PROVE  loggerPool' = <<>> /\ recent' = <<>>
  BY <1>5 DEF Reconfigure, ClearLoggerPool
<1>6. Reset \/ EndShutdown => loggerPool' = <<>> /\ recent' = <<>>
  BY DEF Reset, EndShutdown, ClearLoggerPool
<1>7. ASSUME \/ StartShutdown
             \/ \E l \in DOMAIN loggers, level \in SetLevels : SetLevel(l, level)
             \/ \E l \in DOMAIN loggers : Child(l)
             \/ \E l \in DOMAIN loggers, op \in Operations : Operate(l, op)
             \/ \E l \in DOMAIN loggers, level \in CallLevels : LogCall(l, level)
             \/ Serialize \/ Dispatch \/ Report \/ Tell \/ LogReturns \/ LogThrows
             \/ UNCHANGED vars
      PROVE  UNCHANGED <<loggerPool, recent>>
  BY <1>7 DEF StartShutdown, SetLevel, Child, Operate, LogCall, Serialize, Dispatch, Report, Tell,
              LogReturns, LogThrows, Return, factory, vars
<1> QED
  BY <1>1, <1>2, <1>3, <1>4, <1>5, <1>6, <1>7 DEF Next

(* Whatever names are asked for, in whatever order, and however often the   *)
(* pool is emptied by reconfigurations, resets and the shutdown between     *)
(* them, the pool holds the ones asked for last, least recent first.        *)
THEOREM PoolKeepsRecentHolds == Spec => []PoolKeepsRecent
<1>1. Init => PoolInv
  BY BoundAssumption DEF Init, PoolInv, PoolKeepsRecent, Once
<1>2. TypeOK /\ PoolInv /\ [Next]_vars => PoolInv'
  BY PoolStep
<1>3. PoolInv => PoolKeepsRecent
  BY DEF PoolInv
<1> QED
  BY <1>1, <1>2, <1>3, TypeCorrect, PTL DEF Spec
================================================================================
