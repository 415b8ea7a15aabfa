-------------------------------- MODULE Context --------------------------------
(***************************************************************************)
(* The context of asynchronous work: ContextManager                        *)
(* (src/context/ContextManager.ts) on AsyncLocalStorage, the middleware    *)
(* that opens a scope for each request (src/middleware), the header maps   *)
(* between services (src/context/extractInboundContext.ts), the filter of  *)
(* the logging matrix, and MockContextManager                              *)
(* (src/context/MockContextManager.ts), given the same calls.              *)
(*                                                                         *)
(* Each run() opens a scope with a Map of its own.  Work of any scope may  *)
(* be scheduled at any moment, also after the promise of its run() has     *)
(* settled: AsyncLocalStorage keeps the store for whatever the callback    *)
(* started.  Code outside every scope is scope Outside.                    *)
(***************************************************************************)
EXTENDS Integers, Sequences, FiniteSets, TLC

CONSTANTS
  Keys,      (* keys of the context that the application sets               *)
  Header,    (* correlationIdHeader                                         *)
  Alias,     (* the key 'correlationId'                                     *)
  Values,    (* values the application sets                                 *)
  Levels,    (* log levels                                                  *)
  Matrices,  (* logging matrices: level -> fields; NoMatrix for none        *)
  NoMatrix,
  Default,   (* the key 'default' of a matrix                               *)
  Outbound,  (* outbound map of a target: field -> wire name                *)
  Inbound,   (* inbound map of a source: field -> wire name                 *)
  Lower,     (* wire name -> the same in lower case                         *)
  Absent,    (* undefined                                                   *)
  NoMock,
  MaxScopes, (* bound on scopes                                             *)
  MaxIds     (* bound on correlation ids                                    *)

Ids     == 1..MaxIds
AllKeys == Keys \cup {Header, Alias}

ASSUME KeyAssumption ==
  /\ Header # Alias /\ Header \notin Keys
  /\ Absent \notin Values \cup Ids
  /\ MaxScopes \in Nat /\ MaxIds \in Nat
ASSUME MapAssumption ==
  /\ DOMAIN Outbound \subseteq AllKeys /\ DOMAIN Inbound \subseteq AllKeys
  /\ \A f, g \in DOMAIN Inbound : Lower[Inbound[f]] = Lower[Inbound[g]] => f = g
  /\ \A f, g \in DOMAIN Outbound : Lower[Outbound[f]] = Lower[Outbound[g]] => f = g

VARIABLES
  maps,      \* the Maps: key -> value or Absent
  scopes,    \* scope -> its map, its parent, whether run() is pending
  ids,       \* correlation ids used so far
  echoed,    \* scope -> the id its request got back, or Absent
  matrix,    \* loggingMatrix
  promised,  \* scope -> what run() promises it sees
  mock       \* MockContextManager: store, and what each run() will restore;
             \* NoMock once the calls are not ones a single store can serve

vars == <<maps, scopes, ids, echoed, matrix, promised, mock>>

Outside == 0
Empty == [k \in AllKeys |-> Absent]
Scopes == DOMAIN scopes

Init ==
  /\ maps = <<>> /\ scopes = <<>> /\ echoed = <<>> /\ promised = <<>>
  /\ ids = 0 /\ matrix \in Matrices
  /\ mock = [store |-> Empty, saved |-> <<>>]

(* storage.getStore()?.data *)
View(s) == IF s = Outside THEN Empty ELSE maps[scopes[s].map]

(* The innermost run() pending. *)
Innermost ==
  LET pending == {s \in Scopes : scopes[s].pending}
  IN  IF pending = {} THEN Outside ELSE CHOOSE s \in pending : \A t \in pending : t <= s

-----------------------------------------------------------------------------
(* Mutant: a scope shares the Map of its parent. *)
OpenShared(s, data, id) ==
  /\ Len(scopes) < MaxScopes
  /\ maps' = IF s = Outside THEN Append(maps, data) ELSE maps
  /\ scopes' = Append(scopes,
       [map |-> IF s = Outside THEN Len(maps) + 1 ELSE scopes[s].map,
        parent |-> s, pending |-> TRUE])
  /\ echoed' = Append(echoed, id)

(* run(): a new Map, a copy of the parent's. *)
Open(s, data, id) ==
  /\ Len(scopes) < MaxScopes
  /\ maps' = Append(maps, data)
  /\ scopes' = Append(scopes, [map |-> Len(maps) + 1, parent |-> s, pending |-> TRUE])
  /\ echoed' = Append(echoed, id)

(* The mock follows the work of the innermost scope only. *)
Follows(s) == mock # NoMock /\ s = Innermost

(* MockContextManager.run(): one store, the old one kept for the end. *)
MockOpen(s, k, v) ==
  mock' = IF ~Follows(s) THEN NoMock
          ELSE [store |-> [mock.store EXCEPT ![k] = v], saved |-> Append(mock.saved, mock.store)]

Run(s) ==
  /\ Open(s, View(s), IF s = Outside THEN Absent ELSE echoed[s])
  /\ promised' = Append(promised, IF s = Outside THEN Empty ELSE promised[s])
  /\ MockOpen(s, Header, mock.store[Header])
  /\ UNCHANGED <<ids, matrix>>

(* Mutant: only a run() that was resolved restores. *)
MockSettleNever(s) == mock' = IF Follows(s) THEN mock ELSE NoMock

MockSettle(s) ==
  mock' = IF Follows(s) THEN [mock EXCEPT !.store = mock.saved[s]] ELSE NoMock

(* The promise of run() settles: resolved, or rejected by a callback that   *)
(* threw.  The mock puts back what it saw at the start.                     *)
Settle(s) ==
  /\ scopes[s].pending
  /\ scopes' = [scopes EXCEPT ![s].pending = FALSE]
  /\ MockSettle(s)
  /\ UNCHANGED <<maps, ids, echoed, matrix, promised>>

-----------------------------------------------------------------------------
(* set(): without effect outside a context. *)
Put(s, k, v) ==
  /\ maps' = IF s = Outside THEN maps ELSE [maps EXCEPT ![scopes[s].map][k] = v]
  /\ promised' = IF s = Outside THEN promised ELSE [promised EXCEPT ![s][k] = v]

(* The mock sets it, in a scope or out of it. *)
MockPut(s, k, v) ==
  mock' = IF Follows(s) /\ s # Outside THEN [mock EXCEPT !.store[k] = v] ELSE NoMock

Set(s, k, v) ==
  /\ Put(s, k, v) /\ MockPut(s, k, v)
  /\ UNCHANGED <<scopes, ids, echoed, matrix>>

(* setCorrelationId(): the application takes an id of its own. *)
SetCorrelationId(s) ==
  /\ ids < MaxIds /\ s # Outside
  /\ Put(s, Header, ids + 1) /\ MockPut(s, Header, ids + 1)
  /\ ids' = ids + 1 /\ echoed' = [echoed EXCEPT ![s] = Absent]
  /\ UNCHANGED <<scopes, matrix>>

(* Mutant: the application's own field comes before the header. *)
CurrentIdAliased(data) == IF data[Alias] # Absent THEN data[Alias] ELSE data[Header]

(* The id getCorrelationId() finds. *)
CurrentId(data) == IF data[Header] # Absent THEN data[Header] ELSE data[Alias]

(* getCorrelationId(), also as getTraceContextHeaders() calls it: generates *)
(* the id there is not, and keeps it if there is a scope to keep it in.  An *)
(* id that is there changes nothing.  The mock does not look at Alias.      *)
GetCorrelationId(s) ==
  /\ ids < MaxIds /\ CurrentId(View(s)) = Absent
  /\ ids' = ids + 1
  /\ Put(s, Header, ids + 1) /\ MockPut(s, Header, ids + 1)
  /\ UNCHANGED <<scopes, echoed, matrix>>

GetCorrelationIdAliased(s) ==
  /\ ids < MaxIds /\ View(s)[Header] = Absent /\ View(s)[Alias] # Absent
  /\ ids' = ids + 1
  /\ mock' = NoMock
  /\ UNCHANGED <<maps, scopes, echoed, matrix, promised>>

ReconfigureLoggingMatrix(m) ==
  /\ matrix' = m /\ m # matrix
  /\ UNCHANGED <<maps, scopes, ids, echoed, promised, mock>>

-----------------------------------------------------------------------------
(* fastifyCorrelationHook(): what the scope of a request holds once its id, *)
(* found in its headers or generated, has been set under both its names,    *)
(* which are one; the same in correlationIdMiddleware().                    *)
ForRequest(id) == [Empty EXCEPT ![Header] = id]

(* correlationIdMiddleware() and fastifyCorrelationHook(): a scope for the  *)
(* request, its id, echoed before next(); the run() settles when the        *)
(* response finishes or closes.                                             *)
Request ==
  /\ ids < MaxIds
  /\ LET opened == ForRequest(ids + 1)
     IN  /\ Open(Outside, opened, ids + 1)
         /\ promised' = Append(promised, opened)
         /\ MockOpen(Outside, Header, ids + 1)
  /\ ids' = ids + 1
  /\ UNCHANGED matrix

(* getPropagationHeaders(): the fields of the target's map that have a      *)
(* value, under their wire names; header names travel in lower case.        *)
PropagationHeaders(data) ==
  {[name |-> Lower[Outbound[f]], value |-> data[f]] :
     f \in {g \in DOMAIN Outbound : data[g] # Absent}}

(* extractInboundContext() *)
Extract(headers) ==
  [k \in AllKeys |->
     IF k \in DOMAIN Inbound /\ \E h \in headers : h.name = Lower[Inbound[k]]
       THEN (CHOOSE h \in headers : h.name = Lower[Inbound[k]]).value ELSE Absent]

(* A call to another service, which opens a scope with what it extracts.    *)
(* What both maps have a name for must arrive.                              *)
Hop(s) ==
  /\ s # Outside
  /\ Open(Outside, Extract(PropagationHeaders(View(s))), Absent)
  /\ promised' = Append(promised,
       [k \in AllKeys |->
          LET sent == {f \in DOMAIN Outbound :
                         k \in DOMAIN Inbound /\ Lower[Outbound[f]] = Lower[Inbound[k]]}
          IN  IF sent = {} THEN Absent ELSE promised[s][CHOOSE f \in sent : TRUE]])
  /\ mock' = NoMock
  /\ UNCHANGED <<ids, matrix>>

Next ==
  \/ Request
  \/ \E m \in Matrices : ReconfigureLoggingMatrix(m)
  \/ \E s \in Scopes : Settle(s)
  \/ \E s \in Scopes \cup {Outside} :
       \/ Run(s) \/ Hop(s)
       \/ \E k \in Keys \cup {Alias}, v \in Values : Set(s, k, v)
       \/ SetCorrelationId(s) \/ GetCorrelationId(s) \/ GetCorrelationIdAliased(s)

Spec == Init /\ [][Next]_vars

-----------------------------------------------------------------------------
(* fieldMapping: the keys a field of the matrix stands for. *)
KeysOf(field) == IF field = Alias THEN <<Header, Alias>> ELSE <<field>>
FieldOf(key) == IF key = Header THEN Alias ELSE key

(* Mutant: only the first key of a field is tried. *)
FirstPresentOnly(data, keys) == data[keys[1]]

FirstPresent(data, keys) ==
  LET present == {i \in DOMAIN keys : data[keys[i]] # Absent}
  IN  IF present = {} THEN Absent
      ELSE data[keys[CHOOSE i \in present : \A j \in present : i <= j]]

FieldsKept(level) == IF level \in DOMAIN matrix THEN matrix[level]
                     ELSE IF Default \in DOMAIN matrix THEN matrix[Default] ELSE {}

(* getFilteredContext(): what field f of an entry may show, if anything.    *)
(* Without a matrix the whole context, the id under the header; with one    *)
(* the fields of the level, or of the default.  "*" is every field: of two  *)
(* keys of one field that both have a value the one set last shows.         *)
FilteredContext(data, level, f) ==
  ( IF matrix = NoMatrix
      THEN {IF f = Header THEN CurrentId(data) ELSE data[f]}
      ELSE IF "*" \in FieldsKept(level)
        THEN {data[k] : k \in {k \in AllKeys : FieldOf(k) = f}}
        ELSE {FirstPresent(data, KeysOf(f)) : g \in FieldsKept(level) \cap {f}} ) \ {Absent}

-----------------------------------------------------------------------------
TypeOK ==
  /\ Len(maps) = Len(scopes) /\ Len(echoed) = Len(scopes)
  /\ \A m \in DOMAIN maps : maps[m] \in [AllKeys -> Values \cup Ids \cup {Absent}]
  /\ ids \in 0..MaxIds

(* A scope sees what its parent saw when run() was called, and what was set *)
(* in it since: nothing that another scope, its parent or its child, set    *)
(* later, however their work interleaves, and a field that both services    *)
(* name survives a call between them (src/context/ContextManager.ts:77).    *)
SeesItsOwn == \A s \in Scopes : View(s) = promised[s]

(* All the work of a request logs under the id that its response carries,   *)
(* until that work takes another (src/middleware/express.ts).               *)
OneIdPerRequest ==
  \A s \in Scopes : echoed[s] # Absent => CurrentId(View(s)) = echoed[s]

(* A log entry has no context field that the matrix does not name for its   *)
(* level, and every one that it names and the scope has, under whichever of *)
(* its keys, also just after the matrix was replaced                        *)
(* (src/context/ContextManager.ts:242).                                     *)
MatrixDecides ==
  matrix # NoMatrix =>
    \A s \in Scopes, l \in Levels, f \in AllKeys :
      LET shown == FilteredContext(View(s), l, f)
          held  == {View(s)[k] : k \in {k \in AllKeys : FieldOf(k) = f \/ k = f}} \ {Absent}
          named == IF "*" \in FieldsKept(l) THEN FieldOf(f) = f ELSE f \in FieldsKept(l)
      IN  IF named /\ held # {} THEN shown # {} /\ shown \subseteq held ELSE shown = {}

(* Where runs nest and nothing is set outside them, the mock shows the code *)
(* under test what the real manager would                                   *)
(* (src/context/MockContextManager.ts:60).                                  *)
MockAgrees == mock # NoMock => mock.store = View(Innermost)
================================================================================
