-------------------------------- MODULE Logging --------------------------------
(***************************************************************************)
(* Loggers and the factory that makes them (src/logger/Logger.ts,          *)
(* src/logger/LoggerFactory.ts): the pool of loggers with its eviction,    *)
(* the routes by logger name and the pool of transports, their             *)
(* reconfiguration for debugging and its reset, the routing of one log     *)
(* call, its dispatch and its error path, and the flush at shutdown.       *)
(*                                                                         *)
(* _log() is synchronous, but transports and hooks are the user's code and *)
(* may call the framework again before they return: "running" is the stack *)
(* of the log calls in progress, and only the last one goes on.  Anything  *)
(* else may be called at any time, from within a log call or not.          *)
(* A debug transport is a console transport, as the factory checks.  The   *)
(* transports of a call are served one by one, in any order.               *)
(***************************************************************************)
EXTENDS Routing, SequencesExt

CONSTANTS
  Configured,      (* transportPool of the configuration: name to transport  *)
  Routes,          (* transports of the configuration: route to set          *)
  DebugTransports, (* what reconfigureTransportsForDebug() may be given      *)
  LoggerNames,     (* names getLogger() is given                             *)
  GlobalLogLevel,  (* config.logger.level                                    *)
  MaxPoolSize,     (* maxLoggerPoolSize                                      *)
  CallLevels,      (* levels of the log calls                                *)
  SetLevels,       (* levels setLevel() is given                             *)
  Operations,      (* the calls of override(), add() and remove()            *)
  NoSnapshot,      (* stands for null in the two saved originals             *)
  Env,             (* what the surroundings may do, see EnvAssumption        *)
  MaxLoggers,      (* bound: loggers made                                    *)
  MaxOperations,   (* bound: operations waiting for a log call               *)
  MaxDepth         (* bound: log calls inside one another                    *)

(* serializationThrows: serializing or masking an entry may throw           *)
(* transportThrows:     a transport's log() may throw                       *)
(* hookThrows:          onLogFailure or onTransportError may throw          *)
(* shutdown:            the framework may be shut down                      *)
ASSUME EnvAssumption ==
  Env \subseteq {"serializationThrows", "transportThrows", "hookThrows", "shutdown"}
ASSUME ConfigAssumption ==
  /\ DebugTransports \subseteq Transports
  /\ DOMAIN Configured \subseteq Names
  /\ Configured \in [DOMAIN Configured -> Transports]
  /\ "default" \in DOMAIN Routes
  /\ Routes \in [DOMAIN Routes -> SUBSET Transports]

(* info(), warn(), error(), debug(), trace(), audit() and fatal(): every    *)
(* level but "silent" has a method that logs at it.                         *)
MethodLevels == Levels \ {"silent"}

ASSUME LoggerAssumption ==
  /\ GlobalLogLevel \in Levels /\ CallLevels \subseteq MethodLevels /\ SetLevels \subseteq Levels
  /\ Operations \subseteq Operation
ASSUME SnapshotAssumption == NoSnapshot # [routes |-> Routes, pool |-> Configured]
ASSUME BoundAssumption ==
  /\ MaxPoolSize \in Nat \ {0}
  /\ MaxLoggers \in Nat /\ MaxOperations \in Nat /\ MaxDepth \in Nat

VARIABLES
  routes,      \* LoggerFactory.transports
  pool,        \* LoggerFactory.transportPool, shared with every logger
  snapshot,    \* savedOriginalTransports and savedOriginalPool
  debugging,   \* history: reconfigured since the last reset?
  loggers,     \* the loggers made so far, those of child() included
  loggerPool,  \* the pooled ones by name, the least recently used first
  recent,      \* history: names asked for since the pool was last emptied,
               \*          each once, the last one last
  running,     \* the log calls in progress, the innermost last
  phase        \* of the factory's shutdown

factory == <<routes, pool, snapshot, debugging, loggerPool, recent>>
vars    == <<factory, loggers, running, phase>>

Init ==
  /\ routes = Routes /\ pool = Configured
  /\ snapshot = NoSnapshot /\ debugging = FALSE
  /\ loggers = <<>> /\ loggerPool = <<>> /\ recent = <<>>
  /\ running = <<>>
  /\ phase = "up"

-----------------------------------------------------------------------------
(* The factory                                                              *)

RouteOf(name) == IF name \in DOMAIN routes THEN routes[name] ELSE routes["default"]

(* name is the name asked for: the logger of "default" shows another to the *)
(* outside.  History: asked is the operations since the last log call that  *)
(* passed the logger's level.                                               *)
NewLogger(name, level, defaults) ==
  [name |-> name, level |-> level, defaults |-> defaults, pending |-> NoRouting,
   asked |-> <<>>]

Pooled(name) == \E i \in DOMAIN loggerPool : loggerPool[i].name = name
Remember(name) ==
  \/ name \notin ToSet(recent) /\ recent' = Append(recent, name)
  \/ \E i \in DOMAIN recent :
       recent[i] = name /\ recent' = Append(RemoveAt(recent, i), name)

\* Mutant: a logger found in the pool keeps its place there.
GetPooledLoggerInPlace(name) ==
  /\ Pooled(name)
  /\ Remember(name)
  /\ UNCHANGED <<routes, pool, snapshot, debugging, loggers, loggerPool, running, phase>>

(* getLogger() of a name in the pool moves it to the end.  The key stands   *)
(* for the name and the bindings together.                                  *)
GetPooledLogger(name) ==
  /\ Pooled(name)
  /\ \E i \in DOMAIN loggerPool :
       /\ loggerPool[i].name = name
       /\ loggerPool' = Append(RemoveAt(loggerPool, i), loggerPool[i])
  /\ Remember(name)
  /\ UNCHANGED <<routes, pool, snapshot, debugging, loggers, running, phase>>

(* getLogger() of another name makes a logger, and evicts the oldest entry  *)
(* of a full pool: its logger lives on with whoever holds it.               *)
GetNewLogger(name) ==
  /\ ~Pooled(name) /\ Len(loggers) < MaxLoggers
  /\ loggers' = Append(loggers, NewLogger(name, GlobalLogLevel, RouteOf(name)))
  /\ LET kept == IF Len(loggerPool) >= MaxPoolSize THEN Tail(loggerPool) ELSE loggerPool
     IN  loggerPool' = Append(kept, [name |-> name, logger |-> Len(loggers) + 1])
  /\ Remember(name)
  /\ UNCHANGED <<routes, pool, snapshot, debugging, running, phase>>

ClearLoggerPool == loggerPool' = <<>> /\ recent' = <<>>

(* ensureReady(): once the framework is shutting down, the facade refuses   *)
(* to touch the transports.                                                 *)
EnsureReady == phase = "up"

\* Mutant: every reconfiguration takes the snapshot.
ReconfigureSavingAgain(t) ==
  /\ EnsureReady
  /\ snapshot' = [routes |-> routes, pool |-> pool]
  /\ routes' = [routes EXCEPT !["default"] = @ \cup {t}]
  /\ pool' = [n \in DOMAIN pool \cup {NameOf[t]} |-> IF n = NameOf[t] THEN t ELSE pool[n]]
  /\ debugging' = TRUE
  /\ ClearLoggerPool
  /\ UNCHANGED <<loggers, running, phase>>

(* reconfigureTransportsForDebug({ add: [t] }).  The pool is changed in     *)
(* place, in every logger; a transport of the same name gives way in it.    *)
Reconfigure(t) ==
  /\ EnsureReady
  /\ snapshot' = IF snapshot = NoSnapshot THEN [routes |-> routes, pool |-> pool] ELSE snapshot
  /\ routes' = [routes EXCEPT !["default"] = @ \cup {t}]
  /\ pool' = [n \in DOMAIN pool \cup {NameOf[t]} |-> IF n = NameOf[t] THEN t ELSE pool[n]]
  /\ debugging' = TRUE
  /\ ClearLoggerPool
  /\ UNCHANGED <<loggers, running, phase>>

\* Mutant: the loggers made while debugging stay in the pool.
ResetKeepingLoggers ==
  /\ EnsureReady /\ snapshot # NoSnapshot
  /\ routes' = snapshot.routes /\ pool' = snapshot.pool
  /\ debugging' = FALSE
  /\ UNCHANGED <<snapshot, loggerPool, recent, loggers, running, phase>>

(* resetTransports(): the snapshot is kept, and later reconfigurations do   *)
(* not replace it.                                                          *)
Reset ==
  /\ EnsureReady /\ snapshot # NoSnapshot
  /\ routes' = snapshot.routes /\ pool' = snapshot.pool
  /\ debugging' = FALSE
  /\ ClearLoggerPool
  /\ UNCHANGED <<snapshot, loggers, running, phase>>

(* shutdown() up to its await: the transports of the routes are flushed. *)
StartShutdown ==
  /\ "shutdown" \in Env /\ phase = "up"
  /\ phase' = "flushing"
  /\ UNCHANGED <<factory, loggers, running>>

(* Its continuation, which no log call can contain. *)
EndShutdown ==
  /\ phase = "flushing" /\ running = <<>>
  /\ phase' = "down"
  /\ ClearLoggerPool
  /\ UNCHANGED <<routes, pool, snapshot, debugging, loggers, running>>

-----------------------------------------------------------------------------
(* A logger                                                                 *)

SetLevel(l, level) ==
  /\ loggers' = [loggers EXCEPT ![l].level = level]
  /\ UNCHANGED <<factory, running, phase>>

(* child(), and so withSource(), withMeta() and their kin: the pending      *)
(* routing is not inherited.                                                *)
Child(l) ==
  /\ Len(loggers) < MaxLoggers
  /\ loggers' = Append(loggers, NewLogger(loggers[l].name, loggers[l].level, loggers[l].defaults))
  /\ UNCHANGED <<factory, running, phase>>

Waiting == FoldSeq(LAMBDA logger, n : Len(logger.asked) + n, 0, loggers)

(* override(), add() or remove() *)
Operate(l, op) ==
  /\ Waiting < MaxOperations
  /\ loggers' = [loggers EXCEPT ![l].pending = Route(@, op),
                                ![l].asked = Append(@, op)]
  /\ UNCHANGED <<factory, running, phase>>

(* The call in progress, and how it goes on. *)
This         == running[Len(running)]
Becomes(log) == running' = [running EXCEPT ![Len(running)] = log]

\* Mutant: the routing stays pending for the calls to come.
CaptureKeeping(l) ==
  loggers' = [loggers EXCEPT ![l].asked = <<>>]

(* captureEffectiveTransports() takes the routing off the logger. *)
Capture(l) ==
  loggers' = [loggers EXCEPT ![l].pending = NoRouting, ![l].asked = <<>>]

(* A log call that passes the level; one that does not returns before it    *)
(* has changed anything, the pending routing included.  meant is history:   *)
(* the transports that the operations asked for are documented to stand for.*)
LogCall(l, level) ==
  /\ Len(running) < MaxDepth
  /\ ShouldLogByLevel(level, loggers[l].level)
  /\ LET logger == loggers[l]
     IN  running' = Append(running,
           [stage |-> "serializing", level |-> level,
            targets |-> Resolve(logger.defaults, pool, logger.pending), todo |-> {},
            got |-> {}, told |-> {}, threw |-> {},
            meant |-> Meant(logger.defaults, pool, logger.asked)])
  /\ Capture(l)
  /\ UNCHANGED <<factory, phase>>

(* The entry is ready, native or not, or making it threw. *)
Serialize ==
  /\ running # <<>> /\ This.stage = "serializing"
  /\ \/ Becomes([This EXCEPT !.stage = "dispatching",
                             !.todo = EnabledFor(This.targets, This.level)])
     \/ "serializationThrows" \in Env /\ Becomes([This EXCEPT !.stage = "failed"])
  /\ UNCHANGED <<factory, loggers, phase>>

(* A transport gets the entry, or throws: the rest is not served.           *)
Dispatch ==
  /\ running # <<>> /\ This.stage = "dispatching"
  /\ \E t \in This.todo :
       \/ Becomes([This EXCEPT !.todo = @ \ {t}, !.got = @ \cup {t}])
       \/ /\ "transportThrows" \in Env
          /\ Becomes([This EXCEPT !.stage = "failed", !.threw = @ \cup {t}])
  /\ UNCHANGED <<factory, loggers, phase>>

(* onLogFailure is called; should it throw, so does the log call. *)
Report ==
  /\ running # <<>> /\ This.stage = "failed"
  /\ Becomes([This EXCEPT !.stage = "telling", !.todo = EnabledFor(This.targets, "error")])
  /\ UNCHANGED <<factory, loggers, phase>>

\* Mutant: a transport that throws on the error entry stops the others too.
TellUntilThrow ==
  /\ running # <<>> /\ This.stage = "telling"
  /\ \E t \in This.todo :
       \/ Becomes([This EXCEPT !.todo = @ \ {t}, !.told = @ \cup {t}])
       \/ /\ "transportThrows" \in Env
          /\ Becomes([This EXCEPT !.todo = {}, !.threw = @ \cup {t}])
  /\ UNCHANGED <<factory, loggers, phase>>

(* A transport gets the error entry, or throws, which goes to        *)
(* onTransportError and stops nobody.                                       *)
Tell ==
  /\ running # <<>> /\ This.stage = "telling"
  /\ \E t \in This.todo :
       \/ Becomes([This EXCEPT !.todo = @ \ {t}, !.told = @ \cup {t}])
       \/ /\ "transportThrows" \in Env
          /\ Becomes([This EXCEPT !.todo = @ \ {t}, !.threw = @ \cup {t}])
  /\ UNCHANGED <<factory, loggers, phase>>

Return == running' = Front(running) /\ UNCHANGED <<factory, loggers, phase>>

(* The call is over. *)
LogReturns ==
  /\ running # <<>>
  /\ This.stage \in {"dispatching", "telling"} /\ This.todo = {}
  /\ Return

(* A hook throws out of the call: onLogFailure, or onTransportError when a  *)
(* transport threw on the error entry.                                      *)
LogThrows ==
  /\ running # <<>> /\ "hookThrows" \in Env
  /\ \/ This.stage = "failed"
     \/ This.stage = "telling" /\ This.todo # {} /\ "transportThrows" \in Env
  /\ Return

-----------------------------------------------------------------------------
Next ==
  \/ \E name \in LoggerNames : GetPooledLogger(name)
  \/ \E name \in LoggerNames : GetNewLogger(name)
  \/ \E t \in DebugTransports : Reconfigure(t)
  \/ Reset
  \/ StartShutdown
  \/ EndShutdown
  \/ \E l \in DOMAIN loggers, level \in SetLevels : SetLevel(l, level)
  \/ \E l \in DOMAIN loggers : Child(l)
  \/ \E l \in DOMAIN loggers, op \in Operations : Operate(l, op)
  \/ \E l \in DOMAIN loggers, level \in CallLevels : LogCall(l, level)
  \/ Serialize
  \/ Dispatch
  \/ Report
  \/ Tell
  \/ LogReturns
  \/ LogThrows

Spec == Init /\ [][Next]_vars

-----------------------------------------------------------------------------
(* Properties                                                               *)

Logger  == [name : LoggerNames, level : Levels, defaults : SUBSET Transports,
            pending : PendingRouting, asked : Seq(Operation)]
Log     == [stage : {"serializing", "dispatching", "failed", "telling"}, level : Levels,
            targets : SUBSET Transports, todo : SUBSET Transports,
            got : SUBSET Transports, told : SUBSET Transports, threw : SUBSET Transports,
            meant : SUBSET Transports]

IsPool(p)   == DOMAIN p \subseteq Names /\ p \in [DOMAIN p -> Transports]
IsRoutes(r) == r \in [DOMAIN Routes -> SUBSET Transports]

(* The types of the variables; getLogger() keeps its pool within the cap,   *)
(* and every entry of it is a logger that exists.                           *)
TypeOK ==
  /\ IsRoutes(routes) /\ IsPool(pool)
  /\ snapshot = NoSnapshot \/ (IsRoutes(snapshot.routes) /\ IsPool(snapshot.pool))
  /\ debugging \in BOOLEAN
  /\ loggers \in Seq(Logger)
  /\ loggerPool \in Seq([name : LoggerNames, logger : DOMAIN loggers])
  /\ Len(loggerPool) <= MaxPoolSize
  /\ recent \in Seq(LoggerNames)
  /\ running \in Seq(Log)
  /\ phase \in {"up", "flushing", "down"}

(* "For the next log call only": whatever is called from within other log   *)
(* calls, an entry goes only to the transports that the operations on its   *)
(* logger since the last entry stand for, and, unless something throws, to  *)
(* each of them that takes its level.                                       *)
RoutedAsAsked ==
  \A i \in DOMAIN running :
    LET log == running[i] IN
    /\ log.got \cup log.told \subseteq log.meant
    /\ log.stage = "dispatching" /\ log.todo = {} =>
         log.got = EnabledFor(log.meant, log.level)

(* No transport is passed over in silence: after a failure, each that takes *)
(* errors has had the error entry or has thrown itself.                     *)
FailureIsTold ==
  \A i \in DOMAIN running :
    LET log == running[i] IN
    log.stage = "telling" /\ log.todo = {} =>
      EnabledFor(log.meant, "error") \subseteq log.told \cup log.threw

(* A logger from the pool is one of that name and writes to the route its   *)
(* name has now, whatever was reconfigured or reset since it was made.      *)
PooledLoggersFresh ==
  \A i \in DOMAIN loggerPool :
    LET logger == loggers[loggerPool[i].logger] IN
    /\ logger.name = loggerPool[i].name
    /\ logger.defaults = RouteOf(logger.name)

(* resetTransports() restores the configuration, after any number of        *)
(* reconfigurations and of earlier resets.                                  *)
RestoredAfterReset == ~debugging => routes = Routes /\ pool = Configured

(* The pool holds the names asked for last, as many as fit, in the order    *)
(* they were asked for: eviction takes the least recently used.             *)
PoolKeepsRecent ==
  LET fit == IF Len(recent) > MaxPoolSize THEN MaxPoolSize ELSE Len(recent)
  IN  /\ Len(loggerPool) = fit
      /\ \A i \in 1..fit : loggerPool[i].name = recent[Len(recent) - fit + i]
================================================================================
