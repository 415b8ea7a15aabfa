-------------------------------- MODULE Routing --------------------------------
(***************************************************************************)
(* Levels, and where one log call goes (src/logger/Logger.ts): what        *)
(* override(), add() and remove() leave in pendingRouting, the transports  *)
(* that _log() makes of it, and what the documentation promises of them.   *)
(* Nothing here has state.  A transport is found by its key in the pool    *)
(* and removed by its own name.  Lists of names and of transports are      *)
(* sets: neither their order nor a repetition in them matters here.        *)
(***************************************************************************)
EXTENDS Naturals, Sequences

CONSTANTS
  Transports,  (* transport objects, those added for debugging included      *)
  Names,       (* names of transports                                        *)
  NameOf,      (* the name property of each transport                        *)
  LevelOf      (* the minimum level of each                                  *)

Weight == [silent |-> 0, trace |-> 10, debug |-> 20, info |-> 30, warn |-> 40,
           error |-> 50, fatal |-> 60, audit |-> 70]
Levels == DOMAIN Weight

ASSUME NameAssumption  == NameOf \in [Transports -> Names]
ASSUME LevelAssumption == LevelOf \in [Transports -> Levels]

(* shouldLogByLevel(): the filter of the logger. *)
ShouldLogByLevel(level, minLevel) ==
  level # "silent" /\ (level = "audit" \/ Weight[level] >= Weight[minLevel])

(* isLevelEnabled(): the filter of the transport. *)
IsLevelEnabled(t, level) == Weight[level] >= Weight[LevelOf[t]]
EnabledFor(targets, level) == {t \in targets : IsLevelEnabled(t, level)}

-----------------------------------------------------------------------------
(* pendingRouting: nothing, an override, or additions and removals, which   *)
(* accumulate until the next override and take its place.                   *)
PendingRouting == [kind : {"none", "override", "change"}, override : SUBSET Names,
                   add : SUBSET Names, remove : SUBSET Names]

NoRouting == [kind |-> "none", override |-> {}, add |-> {}, remove |-> {}]

Overridden(names) ==
  [kind |-> "override", override |-> names, add |-> {}, remove |-> {}]

Added(pending, names) ==
  [kind |-> "change", override |-> {},
   add |-> pending.add \cup names, remove |-> pending.remove]

Removed(pending, names) ==
  [kind |-> "change", override |-> {},
   add |-> pending.add, remove |-> pending.remove \cup names]

(* What one operation makes of pendingRouting. *)
Operation == [do : {"override", "add", "remove"}, names : SUBSET Names]

Route(pending, op) ==
  CASE op.do = "override" -> Overridden(op.names)
    [] op.do = "add"      -> Added(pending, op.names)
    [] op.do = "remove"   -> Removed(pending, op.names)

(* The transports of the pool with these names; unknown names find nothing. *)
Found(pool, names) == {pool[n] : n \in names \cap DOMAIN pool}

(* resolveEffectiveTransports() *)
Resolve(defaults, pool, pending) ==
  CASE pending.kind = "none"     -> defaults
    [] pending.kind = "override" -> Found(pool, pending.override)
    [] pending.kind = "change"   ->
         {t \in defaults \cup Found(pool, pending.add) : NameOf[t] \notin pending.remove}

-----------------------------------------------------------------------------
(* What a sequence of operations is documented to mean: exactly the         *)
(* transports of an override that comes last, otherwise the default ones    *)
(* with those added since the last override and without those removed       *)
(* since then.                                                              *)
InForce(ops) ==
  {i \in DOMAIN ops : \A j \in DOMAIN ops : j > i => ops[j].do # "override"}
Given(ops, do) == UNION {ops[i].names : i \in {j \in InForce(ops) : ops[j].do = do}}

EndsInOverride(ops) == ops # <<>> /\ ops[Len(ops)].do = "override"

Meant(defaults, pool, ops) ==
  IF EndsInOverride(ops)
  THEN Found(pool, Given(ops, "override"))
  ELSE {t \in defaults \cup Found(pool, Given(ops, "add")) :
          NameOf[t] \notin Given(ops, "remove")}
================================================================================
