# Verification of SyntropyLog

SyntropyLog is a structured logging framework for Node.js. One process runs it on one event loop, so
its concurrency is that of callbacks and awaits: code between two awaits is atomic, and everything an
operation read before an await may have changed after it. The specifications here model that code at
the grain of the event loop: **an action is the code between two awaits**.

Paths below are relative to the root of the repository.

## 1. The system

| Component | Source | State it keeps | Operations |
|---|---|---|---|
| Durable delivery | `src/logger/transports/DurableAdapterTransport.ts` | queue, single-flight flag, shutting-down flag, chain of disk operations, spool file | `log`, `flush`, `shutdown`, `recover`, the drain loop |
| Lifecycle | `src/core/LifecycleManager.ts`, `src/SyntropyLog.ts` | state, tracked child processes, the engines and the factory | `init`, `shutdown`, `registerChildProcess` |
| Logger factory | `src/logger/LoggerFactory.ts` | LRU pool of loggers, transport sets, transport pool, snapshot before debugging | `getLogger`, `reconfigureTransportsForDebug`, `resetTransports`, `flushAllTransports`, `shutdown` |
| Logger | `src/logger/Logger.ts` | level, bindings, pending routing, transports | the level methods, `override`, `add`, `remove`, `child`, `setLevel` |
| Serialization | `src/serialization/` | addon handle, checked or not, per manager | `serializeDirect`, `serialize`, the step pipeline |
| Native addon | `syntropylog-native/src/lib.rs` | one process-wide configuration | `configure_native`, `fast_serialize` |
| Masking | `src/masking/` | rules, decision cache | `process`, `addRule`, `shutdown` |
| Context | `src/context/` | one map per asynchronous scope, logging matrix | `run`, `get`, `set`, `getCorrelationId`, `getFilteredContext` |
| Integration | `src/middleware/`, `src/nestjs/` | none of their own | request hooks |
| Statistics | `src/observability/StatsCollector.ts` | counters | `record*`, `snapshot` |
| Configuration | `src/config/` | none | `parseConfig`, `sanitizeConfig` |
| Pure parts | `src/sanitization/`, `src/masking/` (specs, pattern check), `parseLogArgs.ts`, `retentionUntil.ts`, `correlation.ts`, formatters, console transports | none | functions |

How they interact: `SyntropyLog` owns a `LifecycleManager`, whose `init` builds a `ContextManager`, a
`MaskingEngine`, a `SerializationManager` and a `LoggerFactory`, which builds engines of its own.
Loggers share the factory's pool of transports and its engines. A log call runs synchronously through
context, serialization and masking to each transport's `log`; only a transport may go on working
afterwards. `shutdown` ends the child processes, then flushes and shuts down the transports.

What is hard in it: the durable transport's loop, deadline and disk chain interleave with `log` and with
each other, and with the death of the process; `shutdown` may be called twice, its listeners may throw
and its transports may fail; loggers are shared between tasks that interleave at each await; a decision
cached before a rule was added must not outlive it; the native configuration belongs to the whole process,
worker threads included; work started in a scope goes on after its `run()` has settled.
`PROJECT.json` lists each of these hazards at its line.

### What makes each part correct

- **Durable delivery.** Every accepted entry gets exactly one outcome, delivery or the dead-letter hook;
  delivery is in the order of the `log` calls; one drain loop runs at a time; `log` respects `bufferSize`;
  a flush ends whatever the executor does; with a spool, a death of the process loses nothing whose
  append was on disk, and the spool does not keep what was delivered.
- **Lifecycle.** One shutdown runs however many are called; children end, or are signalled, before the
  transports go; transports are flushed before they are shut down; `transports_drained` is truthful; a shutdown ends.
- **Logger.** An entry goes to exactly the transports asked for since the last entry; a failure is told to
  every transport; neither depends on who calls what from inside a transport or a hook.
- **Logger factory.** A pooled logger writes to the route its name has now; a reset restores the
  configuration; eviction takes the least recently used.
- **Masking.** A rule added later applies from then on, whatever was decided and cached before; every
  occurrence of a shared or cyclic object is masked; the walk ends; both engines treat an entry alike wherever
  the single rules decide alike about its keys.
- **Serialization.** An instance is served by the native addon only under its own rules; an entry reaches a
  transport unmasked only if that transport is exempt, and never masked by another instance's rules; a
  message lost on the way to a line is counted.
- **Context.** What a scope sets is invisible to its siblings and to its parent; a request logs under the id
  its response carries; the matrix in force decides what a level shows; the mock behaves like the real one.
- **Configuration and the other functions.** A configuration that passes takes effect as given; a mask hides
  exactly what its spec says; each environment gets the transports meant for it; an entry's expiry date fits
  its label; the caller's correlation id is kept.

## 2. The modules

| Module | What it is | Run by | Proved in |
|---|---|---|---|
| `DurableTransport` | `DurableAdapterTransport`: one process, its spool, its death and restart | `MCDurableTransport` | `DurableTransportProofs` |
| `DeliveryContract` | what a durable transport promises while its process lives (abstract) | implemented by `DurableTransport` (`KeepsContract`) | `DurableTransportProofs` |
| `Lifecycle` | `LifecycleManager` with the factory's flush and shutdown of transports | `MCLifecycle` | `LifecycleProofs` |
| `Routing` | levels, `pendingRouting`, the transports of a call, and what the docs say they should be (no state) | through `Logging` | `LoggingProofs` |
| `Logging` | `LoggerFactory` and `Logger`: pool, debugging, log calls and their error path; EXTENDS `Routing` | `MCLogging` | `LoggingProofs` |
| `Masking` | `MaskingEngine` over entries with shared and cyclic objects, and the native walk of the same entry | `MCMasking` | `MaskingProofs` |
| `Serialization` | `SerializationManager`, the step pipeline, the addon's process-wide cell, exemption, counters | `MCSerialization` | `SerializationProofs` |
| `Context` | `ContextManager`, the request middleware, header maps, the matrix, and the mock beside it | `MCContext` | `ContextProofs` |
| `Tasks` | one call of a pure function: what was asked and what came out | through the next three | |
| `Masks` | mask specs, `applyMask` of both engines, truncation, the check of key patterns | `MCFunctions` | `TaskProofs` |
| `Resolution` | transports of an environment, arguments of a log call, retention, correlation id | `MCFunctions` | `TaskProofs` |
| `Configuration` | the validators, the schema and the sanitized copy | `MCFunctions` | `TaskProofs` |
| `Recursion` | induction on the naturals and recursive functions of them: lemmas only, no part of the system | | itself; used by `TaskProofs`, `MaskingProofs`, `ContextProofs` |

The first three parts meet at the interface of a transport. `Logging` sees a transport as something that takes an
entry or throws; `Lifecycle` as something whose `flush` and `shutdown` settle, or throw; `DurableTransport`
is the one transport whose inside matters. What `Lifecycle` assumes of a transport (`TransportFairness`:
its promises settle) is what `DurableTransport` shows of itself (`FlushTerminates`). What an entry holds
matters to none of them, so entries are numbers, or are left out.

A log call passes through the others in turn: `Context` gives its fields, `Resolution` sorts its arguments,
`Logging` chooses its transports, `Serialization` its path, `Masking` what happens to each key and `Masks` to
each value. Each takes from the next only what its own properties need: `Serialization` knows a set of rules
by identity, `Masking` a mask by the rule that made it.

Definitions marked `\* Mutant:` are plausible bugs, each beside the definition it deforms. No action uses
them: a run in which one replaces the original must find a violation (`mutants` in `PROJECT.json`).

### DurableTransport

| Code | Specification |
|---|---|
| `queue`, `processing`, `shuttingDown` | the variables of those names |
| the loop of `drain()` and the entry it awaits | `inflight`: a set, so that two loops can be told from one |
| `persistChain` | `chain`: disk operations in order, an entry for its append, `Delete` for the `rm` |
| the spool file | `disk`: its lines (0 for one that does not parse), and whether the last is torn |
| `log()` | `LogDurable` (with `Victim`, `Survivors` for the drop strategies), `LogDirect` without a retention |
| `drain()` | `Drain` kicks it; `AttemptSucceeds`, `AttemptFails`, `AttemptExhausted`, `BackoffEnds`; `NextItem` is the shift at the top of the loop and its `finally` |
| `flush()`, `shutdown()` | `CallFlush`, `FlushWakes` (the 10 ms poll), `DeadlinePasses`, `LeaveFlush` (the rest to `onDrop`), `FlushResolves` (the disk chain as it stood) |
| `recover()` | `Restart`, `RecoverLine`, `Recovered` |
| the death of the process | `Crash`: memory is gone; an append under way is done, not done, or torn |

Entries are numbered in the order of the `log` calls, so "in order" is "increasing". `Env` names the faults of
a run: a deadline may pass, `onDrop` may throw, a write may fail, the spool may be unreadable, an append may
be torn. The history variables (`accepted`, `delivered`, `dlq`, `unspooled`) are read by no guard.

### Lifecycle

| Code | Specification |
|---|---|
| the state of `LifecycleManager` | `state`, with the code's names |
| the pending `shutdown()` and where it awaits | `call[c]` per caller; `stage`: terminating children, flushing, closing; `aborted`, `broken` when a transport or a hook threw |
| the error path | `rescue`: the factory is shut down once more |
| the child processes | `child`, `tracked`; `ending` (their `terminateProcess()` is pending), `terminating` (all of them are waited for), `due`, `sigkill`, `spared` |
| `flush()` and `shutdown()` of each transport | `flushing`, `flushed`, `closing`, `closed` |
| emitted events | `events`, in order |

`CallShutdown` runs up to the first `await`: state, event, SIGTERM to the tracked children (`Terminate`).
`GraceEnds` is the 5 s timer with its SIGKILL, `TerminationEnds` the `Promise.allSettled` over all children,
`ChildrenEnded` the continuation of `shutdown()` after it, `FlushAll`, `CloseAll`
and `FactoryDone` the factory's, `ShutdownDone`, `Fail`, `RescueDone` the three ways out. `init()` awaits
nothing that another call can overtake and is one action per outcome.

What may throw, if `Env` says so: listeners, transports, the hook `onTransportError`, the log calls of the
manager itself (`logThrows`: a hook of the logger throws, section 7), and `kill()` (`killThrows`: it emits an
`error` that nobody hears). The last two can end a `terminateProcess()` before its SIGKILL, which
`Promise.allSettled` swallows, or `shutdown()` before it waits for anybody; the history `spared` holds the
children to which that happened, and `ChildrenEndFirst` excepts those alone.

### Routing and Logging

| Code | Specification |
|---|---|
| `LOG_LEVEL_WEIGHTS`, `shouldLogByLevel`, `isLevelEnabled` | `Weight`, `ShouldLogByLevel`, `IsLevelEnabled` |
| `pendingRouting` with its three shapes | `PendingRouting`: kind, override, add, remove |
| `override()`, `add()`, `remove()` | `Overridden`, `Added`, `Removed`; `Operate` on a logger |
| `resolveEffectiveTransports()` | `Resolve`, and `Meant`, which says of the whole sequence of operations what the documentation says of it |
| `transports`, `transportPool`, the two saved originals | `routes`, `pool`, `snapshot` |
| `loggerPool`, a `Map` in the order of use | `loggerPool`, a sequence, the least recently used first |
| `getLogger()` | `GetPooledLogger`, `GetNewLogger` |
| `reconfigureTransportsForDebug()`, `resetTransports()` | `Reconfigure`, `Reset`, which `EnsureReady` refuses once a shutdown has begun |
| `_log()` | `LogCall`, `Serialize`, `Dispatch`, and on failure `Report`, `Tell`; `LogReturns`, `LogThrows` |
| `flushAllTransports()`, `shutdown()` | `StartShutdown`, `EndShutdown` (how each transport settles is in `Lifecycle`) |

`_log()` awaits nothing, yet it is not one action: the transports and hooks it calls are the user's code and
may log, or call anything else, before they return. `running` is the stack of log calls in progress; only the
innermost goes on. Lists of names and of transports are sets, because the properties do not tell their
order or a repetition apart; one consequence is listed in section 7.

### Masking

| Code | Specification |
|---|---|
| `rules`, `decisionCache` | `rules`, in order; `cache`, key name to rule or `NoRule` |
| `lastIndex` of a RegExp with the `g` or `y` flag | `moved`: the rules whose next test starts past the match |
| the entry | `heap`: objects with slots that hold text, numbers and references, also to themselves |
| the recursion of `applyMaskingRules()`, its `seen` map | `stack`, `memo`; `copies` holds the objects it made |
| `addRule()`, `shutdown()` | `AddRule` (refused if the pattern is unsafe), `Shutdown` |
| `findMatchingRule()`, the bounded insertion | `FindMatchingRule`, `Decide` |
| `testCustomPatternBounded()` | `Test`, on `Matched`: a default rule sees the whole key, one of the application `Bounded[k]`, its first 256 characters |
| `match_rule()` in `lib.rs` | `KeyAction`, on `NativeMatches`: the whole key, by a matcher of its own |
| `process()` and its catch | `Process`; `Visit` per slot, `Throw` of a custom mask, `Return` |
| `getNativeRules()`, `compile_masking_rules()` | `GetNativeRules`, `CompileMaskingRules` |
| `mask_value()` and its kin in `lib.rs` | `NativeTree`, cut at `MaxDepth` |

`process()` interleaves with nothing; its stack is in the state so that a property can speak of the middle of
a walk. What is behind a back edge of a cycle when it is met (section 7) is why `MaskedThroughout` speaks of
acyclic entries only, and `NoEndlessDescent` of all.

Which keys a pattern matches is a constant, one for each engine: `Matches` for `RegExp`, `NativeMatches` for the
`regex` crate, whose dialect and flags differ. `EnginesAgree` compares what the two engines show of an entry; it
fails in the model where a single rule is decided differently, as of the key `long` by the rule `own` (section 7).
`EnginesAgreeOnEntry` has as its premise that none is (`SameVerdicts`, of the rules in force and the keys of the
entry), and says that everything else agrees: the order of the rules, the cache, sharing and copying against a tree.

### Serialization

| Code | Specification |
|---|---|
| what `require('syntropylog-native')` finds | `addon`: absent, `fastSerialize` only, from JSON too, the dual entry point too |
| `NATIVE_CONFIG` | `cell`, one for the process |
| `nativeChecked`, `nativeAddon` | `native[i][m]`, for the manager of the loggers and that of the lifecycle |
| `StatsCollector` | `failures[i]`: which counters the last call of the instance has increased |
| `getNativeAddon()` | `Begin`; `WithoutNative`, or `Configure` (compiles, finds the cell set or not), then `Install`; `Refused` when the addon says no |
| `serializeDirect()`, `serialize()`, `_log()`'s emission | `LogDual`, `LogNative`, `LogJavaScript` |
| the hooks, and the catch of `_log()` | `FallbackThrows`, `LogFallbackThrows`, `LogThrows` |
| the steps of the pipeline | `AfterHygiene`, `AfterSanitization`, `AfterTimeout` |
| `getStats()` | `AnswerStats` |

`Configure` and `Install` are two actions because the cell is shared with worker threads, which may set it
between them. Kinds of metadata stand for their failures: what `JSON.stringify` refuses, what `serde_json`
refuses, a getter that throws.

`Unsafe` names the hooks that may throw, wherever they are called. `onSerializationFallback` is called before the
addon that refused a configuration is dropped, and once more from the catch block: a hook that throws both times
leaves the instance with it (`native[i][m] = "refused"`), and its lines are masked by whatever the cell holds.
`NativeServesOwnRules` and `NothingLeaks` except exactly that (section 7).

### Context

| Code | Specification |
|---|---|
| the `Map` of each `AsyncLocalStorage` store | `maps`; `scopes` gives each scope its map, its parent, and whether its `run()` is pending |
| `run()` | `Run`, `Settle`; work of a scope goes on after it has settled |
| `set()`, `setCorrelationId()`, `getCorrelationId()` | the actions of those names (`GetCorrelationIdAliased` for the read that stores an id under the alias) |
| the express and fastify hooks | `Request`, whose scope starts as `ForRequest` and whose response carries `echoed` |
| `getPropagationHeaders()`, `extractInboundContext()` | `PropagationHeaders`, `Extract`; `Hop` is a call between two services |
| `reconfigureLoggingMatrix()`, `getFilteredContext()` | `ReconfigureLoggingMatrix`, `FilteredContext` |
| `MockContextManager` | `mock`, given the same calls while runs nest |

`promised` is a history: what `run()` promises the scope sees. `FilteredContext` is followed as the loop over
fields and keys that it is; `FieldsKept` says in one line what the documentation says of it.

### Functions

`Masks`, `Resolution` and `Configuration` have no state: a behaviour is one call (`Transform`, `Resolve`,
`Start`), and each invariant compares what came out with a reference definition written from the other end.
`TransformSpec`, `ResolveSpec` and `StartSpec` are the behaviours of one module each, which the theorems are
about; the run checks all three together. What loops in the code is a recursive function here (`Bytes`,
`Picked`, `Bindings`, `DaysBefore`, the scan of `FindDangerousConstruct`, `PlaceInCopy`), so that it can be
proved about.

A configuration is a function from paths of keys and positions to kinds of values. The combinators of
`src/config/Result.ts` are operators on what the validators of the parts say (`Optional`, `ArrayOf`, `RecordOf`,
`ObjectWith`), each validator of the schema has its definition, and a result says where the issues are and which
nulls are taken for undefined. As the schema has a fixed depth, none of it needs recursion; the copy does, and is computed
place by place, along the calls of `sanitizeConfig()` that lead there.

A pattern is a sequence of tokens as JavaScript cuts it, and the scan reads them as the code does, which is not
always the same: `skipCharClass()` takes the `]` of `[]` and `[^]` for a literal and goes on to the next `]`
(token `empty`, `Skip`), and the braces of `\u{61}`, with decimal digits and the flag `u` or `v`, pass for a quantifier
(token `point`, `ReadQuantifier`). `RefusesNestedQuantifiers` is exact up to the first such token, and claims
nothing beyond it (section 7).

`HidesExactlyTheRest` counts what may be seen instead of building it; `TruncatesBetweenCharacters` takes the
longest prefix of whole characters; `RefusesNestedQuantifiers` looks for a group in a pattern instead of
scanning with a stack; `WindowMatchesLabel` counts days; `SettingsTakeEffect` compares each leaf of the copy.

## 3. The runs

| Run | Question | States | Time |
|---|---|---|---|
| `durable_restart` | with a spool and one death at any point, is anything lost or stuck? | 62,584 | 6 s |
| `durable_contract` | in memory, under every drop strategy, does the transport keep `DeliveryContract` and `bufferSize`, and does a flush empty the queue? | 408,430 | 8 s |
| `durable_faults` | with a spool and every fault at once: one loop, in order, and does a flush end? | 1,238,851 | 68 s |
| `durable_torn_append` | does a torn append cost only its own entry? **No** | 3,978 | 2 s |
| `lifecycle_shutdown` | do the promises of shutdown hold when listeners, hooks, transports, log calls and `kill()` throw? | 611,754 | 56 s |
| `logging_routing` | where does each entry go, at any depth of log calls within log calls? | 127,999 | 4 s |
| `logging_factory` | are pooled loggers current, is a reset complete, is eviction LRU? | 248,901 | 10 s |
| `masking_engine` | are cached decisions those of the rules, is every occurrence masked, do both engines agree where the single rules do? | 95,424 | 5 s |
| `serialization_paths` | does any transport get a line it should not, and is a lost message counted, also when hooks throw? | 704,405 | 62 s |
| `serialization_exempt` | does an exempt transport always get the entry unmasked? **No** | 1,922 | 1 s |
| `context_scopes` | does each scope see its own context, through the matrix in force, as the mock does? | 555,483 | 21 s |
| `functions` | do the functions agree with their reference definitions over all small inputs? | 61,975 | 140 s |

The runs that end in a violation state what a comment or a document of the repository says; `findings` in
`PROJECT.json` quotes it. Deadlock is checked in the masking and the serialization runs, whose
systems always go on; the others may come to rest (no more calls within the bound, nothing to deliver, one
function called).

### Bounds, and why they are enough

- **Durable** (`MaxCalls` 2 or 3, `BufferSize` 1, `MaxRetries` 1, one or two flushers, one or two crashes).
  One entry in flight, one queued and one that finds the buffer full is the smallest case in which a victim
  must be chosen and in which order can go wrong; one retry has an attempt that is retried and one that
  is not; two flushers overlap. A torn line matters to a second death, so that run has two. Every drop
  strategy is seen in memory, where drops happen (`durable_contract`); with a spool and every fault the oldest entry
  goes (`durable_faults`), as the strategies differ in nothing but `Victim` and `Survivors`, and the theorems are
  about any. A flush there may find the chain of the disk empty, or with appends and the deletion of the spool, any
  of which may fail. As the calls are bounded, it cannot tell a flush that waits for the chain as it found it from
  one that would wait for later appends too.
- **Lifecycle** (two callers, two children, two transports). Two callers overlap; of two children
  or transports one can have ended while the other has not, or one termination be cut short and the other not.
- **Routing** (two transports of different levels, two operations pending, two loggers, depth 2). Any two
  operations follow each other, so each of the nine pairs of kinds is seen; a call inside a call is the case
  that depth adds, and the two loggers may be parent and child. Debug transports and a second route are left
  to the factory's run, which a call does not depend on.
- **Factory** (three names, a pool of two, four loggers). Three names overflow the pool, the fourth logger
  is one got again after eviction or made by `child()`. Reconfiguration and reset are not bounded. Loggers
  are only made and pooled here: log calls do not touch what these properties speak of.

- **Masking** (three objects, one an array; four keys, one of which loses the word a rule looks for when it is cut
  to 256 characters, and stands for any key about which the engines differ; a default rule and three of the
  application; a cache of one decision). Three objects make every shape that matters: shared, nested in itself, and a cycle
  through an array. A cache of one makes each second key an eviction; two rules, of which one overrides the
  other on a shared key, make the order matter. No rule is stateful here (section 7). The native walk is cut
  at depth three, which a cycle reaches.
- **Serialization** (two instances, which are symmetric; two transports, one exempt; every addon, every kind of
  entry, rules of four kinds; every hook may throw). Two instances race for one cell; calls are not bounded.
- **Context** (`MaxScopes` 3, `MaxIds` 2, three matrices). Three scopes are a parent, a child and a sibling, or a
  chain of three; two ids are one for each of two requests. Header names differ only in case.
- **Functions**: values of up to four characters and one of six, which is longer than any kept tail; no delimiter,
  and delimiters of one and two characters; texts of
  up to four characters of one to four bytes; patterns of up to `MaxTokens` (7) tokens, enough for a group in a
  group with both quantifiers, of up to `MaxMisread` (6) made of groups, `+`, classes and what the scan misreads,
  enough for one of the latter before, inside or after a group with both quantifiers, and shorter ones of any
  tokens; up to three arguments; up to two taggings; days about the end of February
  of leap years and of a century that is none; configurations of up to four sections, each right, or wrong in
  one or several places.

`MaxCalls`, `MaxCrashes`, `MaxLoggers`, `MaxOperations` (operations waiting for a log call), `MaxDepth` of
`Logging`, `MaxRules`, `MaxScopes` and `MaxIds` are bounds of the model and appear in guards, `MaxTokens` and `MaxMisread`
bound the inputs of `functions`;
everything else is a parameter of the code (`MaxDepth` of `Masking` is `max_depth` of the addon).

### Fairness

- `RuntimeFairness` (durable): timers fire, the flush's poll runs, a disk operation settles. This is the event
  loop's guarantee, and `FlushTerminates` rests on it alone, with a spool and under every fault: it is checked
  under `RuntimeSpec`, which lets the executor never settle.
- `ExecutorFairness`: the executor's promise settles. The transport cannot see to that; it is an assumption
  on the operator's code, and only `AcceptedEntriesResolve` uses it. So is `RestartFairness`: a supervisor
  restarts a process that died.
- `Fairness` (lifecycle): the grace timer fires, continuations run. No fairness is assumed of the
  children: they may ignore every signal. `TransportFairness` is the assumption on transports named above.
- `Logging`, `Masking` and `Serialization` have no liveness property: a log call is synchronous, and that it
  returns depends on code of the user, or (`NoEndlessDescent`) on a bound that is an invariant. Nor has
  `Context`: which scope works next is the application's choice.

## 4. The proofs

Every theorem holds for all values of the constants that meet the named assumptions: any sizes,
any sets of transports, names, callers and children, any combination of faults, any bound.

| Theorem | Says | Argument |
|---|---|---|
| `DurableTransportProofs`: `TypeCorrect`, `SingleFlightHolds`, `LogRespectsBufferSizeHolds` | types; one drain loop, and `processing` says whether it runs; `log` keeps the queue within `bufferSize` | `SingleFlight` is inductive once the types are known: `Drain` starts a loop only where none is in flight, and each way out of an attempt leaves at most one. The cap is an action property: only `LogDurable` grows the queue of a live process, and `Survivors` makes room first |
| `BacklogInOrderHolds`, `FlushEmptiesQueueHolds` | the backlog keeps the order of the calls across memory, spool and restart; a flush that resolved left nothing queued that was logged before it, deadline or not | `OrderInv`: the queue increases and follows what is in flight; the appends chained follow the lines on disk; what recovery has not read follows what it has. `FlushInv`: what is queued once a flush settles is numbered past the last call it saw |
| `KeepsContractHolds`, `OneOutcomeHolds` | in a process that does not die (`NoDeath`) every step is one of `DeliveryContract` or a stutter, and there no entry has two outcomes | `ContractInv`: what waits was accepted, nothing is numbered past the last call, and direct deliveries are not among the accepted |
| `FlushLeavesNothingPendingHolds` | without deadlines (`NoDeadline`) a flush that resolved left nothing pending, not even in flight | `PatientInv`: no flush expires, so each left its poll with the loop ended |
| `SpoolCoversBacklogHolds`, `AtLeastOnceHolds`, `SpoolEmptiesItselfHolds` | in a calm environment (`Calm`) what is pending is on disk or on its way, no accepted entry whose append was done is lost, to any number of deaths, and the spool is emptied | `SpoolInv`: disk and chain hold, in order, a tail of what was accepted (`TailRange`), and every accepted entry is delivered, given up, in memory or in that tail |
| `LifecycleProofs`: `TypeCorrect`, `OneShutdownHolds` | types; one running caller, exactly while there is a stage | the state leaves READY in the step that makes a caller run, and never returns |
| `ChildrenEndFirstHolds` | no transport goes before the children, except those whose termination a log call or `kill()` that threw cut short | `ChildInv`: whoever is to end is still waited for, or has ended, or was sent SIGKILL, or is among the `spared`; outside "terminating" nobody is waited for |
| `FlushBeforeCloseHolds`, `DrainedMeansClosedHolds` | flush before shutdown; the event is truthful | `RoundInv`: what a round still waits for is exactly what it has not settled, and nothing is pending when a round begins. The event alone is not inductive: a second round, on the error path, must not undo what the first one settled |
| `LoggingProofs`: `TypeCorrect` | types, with `Len(loggerPool) <= MaxPoolSize` and no dangling entry | eviction comes before insertion |
| `RestoredAfterResetHolds` | a reset restores the configuration | `SnapshotInv`: the snapshot, once taken, is the configuration; it needs that nothing was reconfigured while there is none |
| `PooledLoggersFreshHolds` | pooled loggers write to their current route | name and transports of a logger never change; the routes change only where the pool is emptied |
| `RoutedAsAskedHolds`, `FailureIsToldHolds` | where an entry goes; who is told of a failure | `PendingInv`: `pendingRouting`, built one operation at a time, equals what the whole sequence stands for (`GivenAppend`, `PendingFitsRoute`, `ResolvedAsMeant`); `CallsInv`: of each call in progress, what it has served and what it has still to serve make up what was meant |
| `PoolKeepsRecentHolds` | the pool holds the loggers last asked for, in the order of use, as many as fit | `PoolInv` adds that a name is in the history once (`Once`): without that, moving a logger to the end would not move its name. Removal from a sequence and appending to it are lemmas (`RemoveAtFacts`, `AppendTo`) |
| `MaskingProofs`: `TypeCorrect`, `NoEndlessDescentHolds` | types; the walk enters no object it is inside of, so its depth is at most the number of objects | `MaskInv`: whoever is on the stack has its memo (`StackInv`), and what is memoized is well formed (`DataInv`) |
| `CacheCoherentHolds` | with no stateful pattern (`NoState`) each cached decision is the first match of the rules now | only `AddRule` and `Shutdown` change the rules, and both empty the cache |
| `MaskedThroughoutHolds` | in an acyclic entry every slot of every object met is masked as the rules say | `WalkInv`: of each call on the stack, the slots done are masked, and those to do are the original's |
| `EnginesAgreeOnEntryHolds` | where the single rules decide alike about its keys (`SameVerdicts`), the native line and the JavaScript one show the same of an acyclic entry, to any depth | from `MaskedThroughout`: both walks are functions from depths to rows, of objects and of copies, and the rows agree from the deepest up (`RowsAgree`) |
| `SerializationProofs`: `TypeCorrect`, `NativeServesOwnRulesHolds`, `NothingLeaksHolds` | types; who holds the addon has its own rules in the cell; no transport gets what it should not; but for an instance that kept a refused addon | the cell is written once; the addon is handed out only in a state where the cell holds the instance's rules |
| `LossIsCountedHolds` | a line without its message has a failure counted | inductive once it names the instance that logged (`LastInv`): during a call counters only grow |
| `ContextProofs`: `TypeCorrect`, `SeesItsOwnHolds`, `OneIdPerRequestHolds`, `MatrixDecidesHolds` | types; isolation of scopes; one id per request; the matrix decides | `CtxInv`: scopes have maps of their own (`ScopeInv`), a map holds what was promised (`PromiseInv`), an id once echoed stays (`EchoInv`) |
| `MockAgreesHolds` | while runs nest, the mock's store is the view of the innermost | `MockInv`: what each pending run has saved is the view of the pending one under it |
| `TaskProofs`: `HidesExactlyTheRestHolds` | both engines hide exactly the characters they should, and the cap hides the length | a character's rank among those counted decides both (`RankFact`); with the cap, the hidden run is an interval that is cut to `Cap` (`CappedFact`) |
| `TruncatesBetweenCharactersHolds` | a text is cut between characters, and nowhere earlier than needed | the bytes of the prefixes only grow (`PrefixFact`); the cut is the largest that fits |
| `RefusesNestedQuantifiersHolds` | up to the first token it misreads, the one-pass scan refuses the patterns with a repeated group that has an unbounded quantifier inside; where it misreads none, it refuses no others | the state of the scan after each token, said without a stack: frame `d` is marked when an unbounded quantifier stands inside the group now open at depth `d` (`StackStep`); the last group closed is found by its depth (`ClosedGroup`) |
| `RoutesFitEnvironmentHolds` | each environment gets the transports configured for it, and each transport can be addressed | what `filter` leaves (`PickedFact`), what `flat` makes (`FlattenFact`), and of the entries of one name the last (`CollectedFact`) |
| `ObjectsReachMaskingHolds`, `CallerIdKeptHolds` | no object of a call of one or two arguments ends in its text; the caller's id is kept | by the cases of the arguments; the first header, and its first value, that are filled are the smallest of their kind (`FirstHeaderValueFact`, `FoundHeader`) |
| `WindowMatchesLabelHolds` | a retention date is the first on which the years of the policy have passed | the days before a month grow with the month (`MonthsInOrder`), and the only date that the target year may lack is the 29th of February, which is carried into March 1 (`AnniversaryFact`); the bindings after any number of taggings keep their types (`BindingsFact`) |
| `SettingsTakeEffectHolds` | all faults of a configuration are reported; one that is accepted is in force at every path, but for secrets, nulls and a RegExp in a list | a section's issues depend on its part alone (`IssuesOfEach`); only nulls are taken for undefined, validator by validator (`NoneFits`, from `OptionalNone` to `ValidateSyntropyLogConfigNone`); all that leads to a value is objects and arrays (`WayFact`), which the copy goes on into (`PlaceFact`) until a sensitive name, from where nothing is left (`HiddenFact`) |

Assumptions on constants are named, stated beside their declarations and evaluated in each run: bounds are
naturals, `MaxPoolSize` is positive, every transport has a name and a level, configured pools and routes hold
known transports, and there is a "default" route; of the functions' inputs, that they have their types: dates
are dates of the calendar (`RetentionAssumption`), patterns close no group that they have not opened
(`PatternAssumption`: `RegExp` has refused the others), a mask spec has at most one delimiter
(`InputAssumption`), and of a configuration only objects and arrays have parts, and a position in an array is
not a sensitive name (`ConfigAssumption`).

The theorems under `NoDeath`, `NoDeadline`, `Calm` and `NoState` name that premise in their statement; it is
the environment in which the code promises the property, and the runs that check the property set the same.
`HidesExactlyTheRestHolds` assumes that no delimiter is the empty string: there the engines do differ (section 7),
and no preset has one. Every `TypeOK` is a theorem, so no run spends time on it.

How recursion is proved about: the installed provers cannot instantiate the library's induction theorems, whose
parameter is an operator. `Recursion` says the same of sets: a set that has 0 and with each number the next has
them all (`Reaches`), from the library's theorem that `<` is well-founded, which takes a set of pairs; and what
a function that is defined by recursion does at each step (`RecursionFact`). `TaskProofs`, `MaskingProofs` and
`ContextProofs` argue about their loops with it.

**Only model-checked.** Liveness (`AcceptedEntriesResolve`, `FlushTerminates`, `ShutdownSettles`), which is out
of the prover's reach. All other properties that the passing runs check are theorems.

## 5. The plan

Done, in this order: durable delivery with its abstract contract; lifecycle; routing, logger and factory;
masking; serialization with its counters; context and its mock; the functions; configuration; and the proofs
of section 4.

Left, in the order of what it would add:

1. The entry as `_log()` assembles it: bindings, context, metadata and reserved fields, whose precedence
   differs between the two paths (section 7).
2. `createCacheKey` as a function of bindings, with the pool's loggers keyed by it.
3. Overlapping runs of the mock, which a single store cannot serve: as a run that ends in a violation.
4. The logger service of NestJS, and the metrics of the serialization manager.

## 6. What is not modelled, and why

- Pure output: console transports, formatters, wording, colours. No property is about them.
- Sanitization of strings and keys (`src/sanitization/`), JSON escaping and the conversion of JavaScript
  values in the Rust crate: character-level functions without state. Their callers' choices are in
  `Serialization`.
- The module, decorators and logger service of NestJS: adapters over the context and the logger.
- The adapter transport (delegation), the spy transport and the other test doubles, except the mock context.
- `getMetrics()` of the serialization manager, and the counters of `StatsCollector` fed by hooks that
  other modules show throwing.
- The wording of configuration issues; a Transport or a RegExp given where `object()` or `recordOf()` looks for
  fields, which has none here (section 7).
- In the modelled parts: listeners and hooks may throw but, except in `Logging`, do not call back into the
  framework; the class check on debug transports (only allowed ones are given); logger bindings, which with
  the name make the key of the pool (`createCacheKey` is taken as injective); which key names a RegExp matches, a
  constant for each engine.

## 7. Divergences seen without a run of their own

Durable delivery (`src/logger/transports/DurableAdapterTransport.ts`):

- `onDrop` that throws inside the loop ends it with entries queued and clears the spool, although the comment at
  line 385 takes the queue to be empty; nothing drains them until the next `log`.
- A flush whose deadline passed hands the queue to `onDrop` but not the entry in flight (line 436;
  `docs/compliance.md:252`).
- An unreadable spool is ignored and then deleted by the next clean-up.
- Replay does not look at `bufferSize` (`docs/compliance.md:247`); a spool failure is not logged (`README.md:638`);
  the header still lists the disk as out of scope.

Lifecycle (`src/core/LifecycleManager.ts`):

- A log call of the manager that throws, or a `kill()` that emits an `error` nobody hears, ends the termination of a
  child before its SIGKILL (lines 36 and 54), which line 246 swallows; one at line 182 skips the wait for all of
  them. Transports are then flushed while such a child runs without a SIGKILL (`spared`), although line 214 promises
  that managed processes are terminated.
- A second `shutdown()` returns at once instead of waiting for the first (line 163; `docs/lifecycle.md:69`).
- A `shutting_down` listener that throws leaves the state SHUTTING_DOWN for good; a failed `init()` leaves
  ERROR, which `shutdown()` ignores; `emit('error')` with no listener throws before the error path's clean-up.
- A child registered while others are being ended is forgotten unsignalled (line 214 promises otherwise). A
  child ended by a signal has a null `exitCode` and is taken to be running.
- A second `init()` after SHUTDOWN is ignored (`docs/lifecycle.md:158`); `getLogger()` before `init()` throws
  although that document promises a no-op logger.

Logger and factory:

- A hook that throws makes the log call throw (`docs/lifecycle.md:96`: "Logging never throws").
- A transport that throws during dispatch is reported to `onLogFailure`, not `onTransportError`
  (`docs/transports.md:58`).
- `add()` after `override()` drops the override; `add()` of a transport that is already a default delivers twice; an
  override of unknown names delivers nowhere.
- A debug transport with the name of a pooled one replaces it in the pool until the reset.
- Loggers held since before a reconfiguration or a reset keep the transports they were made with.
- `setLevel('silent')` has weight 0 and lets every level pass.
- A `transportList` key passes the validation of `exemptTransports`, but only `transport.name` exempts.
- An override before a call that the level filters out routes a later one (`Logger.ts:437`;
  `examples/TRANSPORT_POOL_AND_ENV.md:71`). Transports that are only in the pool are not flushed at shutdown
  (`LoggerFactory.ts:480`; the comment at line 476).
- `logger.error(err)` takes the error as metadata, of which only own enumerable properties remain: message and
  stack are lost. `withRetention('A').withRetention({ years: n })` carries the inline rules and A's window.
- The environment is `config.logger.environment ?? 'development'` (`LoggerFactory.ts:119`), not
  `process.env[...]` (`examples/TRANSPORT_POOL_AND_ENV.md:14`).

Masking:

- The engine of `getMasker()` is the lifecycle's; loggers use the factory's, so a rule added at run time
  has no effect on them (`docs/masking.md:210`, `docs/runtime-reconfiguration.md:17`). After
  `shutdown()`, too, only the lifecycle's engine is emptied.
- A pattern with the `g` or `y` flag keeps its `lastIndex` between tests: a key that matches may be decided as
  "no rule", and that decision is cached (`MaskingEngine.ts:211`, `:426`). The native engine ignores `g`. Runs
  and theorems take `Stateful = {}`.
- A reference back to an object that is still being masked shows the original (`MaskingEngine.ts:346`); on
  the usual path hygiene has replaced such references before.
- A rule of the application is tested against the first 256 characters of a key in JavaScript
  (`MaskingEngine.ts:522`), against the whole key in the native engine (`lib.rs:338`), by another dialect that keeps
  of the flags only `i`, `m` and `s` (`lib.rs:284`): the engines may decide differently about a key, although
  `docs/masking.md:7` calls their output identical and line 9 has a rule "always applied, in every path".
- The check of key patterns takes the `]` of `[]` and `[^]` for a literal (`regexSafety.ts:58`) and the braces of
  `\u{61}` for a quantifier: `([]+)+` is accepted, although no pattern with nested quantifiers should get past it
  (`MaskingEngine.ts:516`, `regexSafety.ts:69`).
- `keepAfter: ''` means something else in each engine (`maskSpec.ts:106`).

Serialization:

- When the addon refuses a configuration and `onSerializationFallback` throws (`SerializationManager.ts:213`), the
  catch block calls it again before the addon is dropped (line 229). If it throws again, the instance keeps the
  refused addon, and from then on its lines are masked by the rules of another instance, or by none if its own
  could not be compiled; the comments say "Never let data slip through unmasked" (line 211) and "never throw" (223).
- An exempt transport may be declared by its `transportList` key (`README.md:412`, `LoggerFactory.ts:94`); `Logger.ts:401`
  compares names only.
- `getStats()` "just observes" (`SyntropyLog.ts:250`) but resolves the native engine on the lifecycle's manager and
  counts its fallback once more.
- Metadata may override reserved fields on the JavaScript path and not on the native one (`lib.rs:670`); the
  former also removes a user's field `metadata` (`SerializationManager.ts:441`) and changes the caller's object
  (`CHANGELOG.md:70` says it does not).
- Of metadata whose nested getter throws, the JavaScript path loses the message too, the native one the
  metadata, silently. Without a native line, `_log()` serializes twice; native results are in no metric; a
  minimum duration of 0 is taken for none.
- An addon without `configureNative` would be used with no rules; no version of it is like that.

Context:

- Overlapping `run()` calls of the mock restore stale stores; it knows neither the alias nor the matrix, and its
  store passes through JSON.
- A level of the matrix that lists both `*` and the header name shows the id under `correlationId` only.

Configuration and the rest:

- What the framework runs with is the sanitized copy (`LifecycleManager.ts:101`): a setting whose name looks
  sensitive becomes `[CONFIG_MASKED]` (the wire name of an outbound field `apiKey`, a `transportList` key
  `token`, fields of a retention policy), so `getRetentionPolicy()` does not return it "exactly as registered"
  (`SyntropyLog.ts:156`).
- The lists of a `transports` record and `loggingMatrix.audit` are not validated.
- A RegExp in a list is `{}` in the copy: `sanitizeConfig()` spares it only as a field (`sanitizeConfig.ts:68`,
  `:90`). No setting of the framework is such a list, but a retention policy may hold one;
  `SettingsTakeEffect` says so. Where a section is expected, an instance passes for an object and is spread into
  a plain one (`Result.ts:80`).
- `createCacheKey` falls back to keys alone, so loggers of different bindings may share an entry of the pool.
- The NestJS logger puts an object message into the text, past the masking of keys; extras and stacks after
  a string message are dropped; a cyclic `cause` recurses without end.
- After `_resetForTesting()` `transports_drained` is no longer forwarded.
