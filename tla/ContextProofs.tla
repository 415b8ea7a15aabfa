----------------------------- MODULE ContextProofs -----------------------------
(***************************************************************************)
(* Proofs about the asynchronous context, for any keys, values, header     *)
(* maps and matrices, and any number of scopes whose work interleaves.     *)
(***************************************************************************)
EXTENDS Context, Recursion

Stored == Values \cup Ids \cup {Absent}
Data   == [AllKeys -> Stored]
Scope  == [map : Nat, parent : Nat, pending : BOOLEAN]

(* A Map for each scope, its own; every variable that follows the scopes    *)
(* has an element for each.                                                 *)
ScopeInv ==
  /\ maps \in Seq(Data) /\ promised \in Seq(Data)
  /\ scopes \in Seq(Scope) /\ echoed \in Seq(Ids \cup {Absent})
  /\ ids \in 0..MaxIds
  /\ Len(maps) = Len(scopes) /\ Len(promised) = Len(scopes) /\ Len(echoed) = Len(scopes)
  /\ \A s \in Scopes : scopes[s].map = s

(* What a scope holds is what was promised to it, and the id it echoed is   *)
(* in its header field.                                                     *)
PromiseInv == \A s \in Scopes : maps[s] = promised[s]
EchoInv    == \A s \in Scopes : echoed[s] # Absent => maps[s][Header] = echoed[s]

-----------------------------------------------------------------------------
LEMMA EmptyIsData == Empty \in Data
BY DEF Empty, Data, Stored

LEMMA AppendFact ==
  ASSUME NEW E, NEW q \in Seq(E), NEW e \in E
  PROVE  /\ Append(q, e) \in Seq(E)
         /\ Len(Append(q, e)) = Len(q) + 1 /\ Len(q) \in Nat
         /\ DOMAIN q = 1..Len(q) /\ DOMAIN Append(q, e) = 1..(Len(q) + 1)
         /\ \A i \in 1..Len(q) : Append(q, e)[i] = q[i] /\ q[i] \in E
         /\ Append(q, e)[Len(q) + 1] = e
OBVIOUS

LEMMA ViewIsData ==
  ASSUME ScopeInv, NEW s \in Scopes \cup {Outside}
  PROVE  /\ View(s) \in Data
         /\ s # Outside <=> s \in Scopes
         /\ s # Outside => View(s) = maps[s]
<1>0. Outside \notin Scopes
  BY DEF ScopeInv, Scopes, Outside
<1>1. CASE s = Outside
  BY <1>0, <1>1, EmptyIsData DEF View
<1>2. CASE s # Outside
  <2>1. s \in Scopes /\ s \in 1..Len(scopes) /\ scopes[s].map = s
    BY <1>2 DEF ScopeInv, Scopes
  <2>2. s \in 1..Len(maps)
    BY <2>1 DEF ScopeInv
  <2>3. maps[s] \in Data
    BY <2>2 DEF ScopeInv
  <2> QED
    BY <1>2, <2>1, <2>3 DEF View
<1> QED
  BY <1>1, <1>2

(* A scope opened with its own data.                                        *)
LEMMA Opened ==
  ASSUME ScopeInv, NEW s \in Scopes \cup {Outside}, NEW data \in Data,
         NEW id \in Ids \cup {Absent}, NEW promise \in Data,
         Open(s, data, id), promised' = Append(promised, promise), ids' \in 0..MaxIds
  PROVE  /\ ScopeInv'
         /\ Len(scopes) \in Nat /\ Scopes = 1..Len(scopes) /\ Scopes' = 1..(Len(scopes) + 1)
         /\ \A t \in Scopes : /\ maps'[t] = maps[t] /\ promised'[t] = promised[t]
                              /\ echoed'[t] = echoed[t]
         /\ LET n == Len(scopes) + 1
            IN  maps'[n] = data /\ promised'[n] = promise /\ echoed'[n] = id
<1> DEFINE n == Len(scopes)
           new == [map |-> Len(maps) + 1, parent |-> s, pending |-> TRUE]
<1>1. /\ n \in Nat /\ Len(maps) = n /\ Len(promised) = n /\ Len(echoed) = n
      /\ Scopes = 1..n
  BY DEF ScopeInv, Scopes
<1>2. /\ maps' \in Seq(Data) /\ Len(maps') = n + 1
      /\ \A t \in 1..n : maps'[t] = maps[t]
      /\ maps'[n + 1] = data
  BY <1>1, AppendFact DEF ScopeInv, Open
<1>3. /\ promised' \in Seq(Data) /\ Len(promised') = n + 1
      /\ \A t \in 1..n : promised'[t] = promised[t]
      /\ promised'[n + 1] = promise
  BY <1>1, AppendFact DEF ScopeInv
<1>4. /\ echoed' \in Seq(Ids \cup {Absent}) /\ Len(echoed') = n + 1
      /\ \A t \in 1..n : echoed'[t] = echoed[t]
      /\ echoed'[n + 1] = id
  BY <1>1, AppendFact DEF ScopeInv, Open
<1>5. new \in Scope /\ new.map = n + 1
  BY <1>1 DEF Scope, Outside
<1> HIDE DEF new
<1>6. scopes' = Append(scopes, new)
  BY DEF Open, new
<1>7. /\ scopes' \in Seq(Scope) /\ Len(scopes') = n + 1 /\ DOMAIN scopes' = 1..(n + 1)
      /\ \A t \in 1..n : scopes'[t] = scopes[t]
      /\ scopes'[n + 1] = new
  BY <1>1, <1>5, <1>6, AppendFact DEF ScopeInv
<1>8. \A t \in 1..(n + 1) : scopes'[t].map = t
  <2> SUFFICES ASSUME NEW t \in 1..(n + 1) PROVE scopes'[t].map = t
    OBVIOUS
  <2>1. CASE t \in 1..n
    <3>1. scopes[t].map = t
      BY <1>1, <2>1 DEF ScopeInv
    <3> QED
      BY <1>7, <2>1, <3>1
  <2>2. CASE t = n + 1
    BY <1>5, <1>7, <2>2
  <2> QED
    BY <1>1, <2>1, <2>2
<1> QED
  BY <1>1, <1>2, <1>3, <1>4, <1>7, <1>8 DEF ScopeInv, Scopes

(* A key set in a scope, or nowhere.                                        *)
LEMMA PutFacts ==
  ASSUME ScopeInv, NEW s \in Scopes \cup {Outside}, NEW k \in AllKeys, NEW v \in Stored,
         Put(s, k, v), scopes' = scopes, ids' \in 0..MaxIds,
         echoed' \in Seq(Ids \cup {Absent}), Len(echoed') = Len(echoed)
  PROVE  /\ ScopeInv' /\ Scopes' = Scopes
         /\ \A t \in Scopes :
              /\ maps'[t] = IF t = s THEN [maps[t] EXCEPT ![k] = v] ELSE maps[t]
              /\ promised'[t] = IF t = s THEN [promised[t] EXCEPT ![k] = v] ELSE promised[t]
<1>0. /\ Len(scopes) \in Nat /\ Scopes = 1..Len(scopes) /\ Scopes' = Scopes
      /\ DOMAIN maps = 1..Len(scopes) /\ DOMAIN promised = 1..Len(scopes)
  BY DEF ScopeInv, Scopes
<1>1. CASE s = Outside
  <2>1. maps' = maps /\ promised' = promised
    BY <1>1 DEF Put
  <2>2. \A t \in Scopes : t # s
    BY <1>0, <1>1 DEF Outside
  <2> QED
    BY <1>0, <2>1, <2>2 DEF ScopeInv
<1>2. CASE s # Outside
  <2>1. s \in 1..Len(scopes) /\ scopes[s].map = s
    BY <1>0, <1>2 DEF ScopeInv
  <2>2. maps[s] \in Data /\ promised[s] \in Data
    BY <1>0, <2>1 DEF ScopeInv
  <2>3. [maps[s] EXCEPT ![k] = v] \in Data /\ [promised[s] EXCEPT ![k] = v] \in Data
    BY <2>2 DEF Data
  <2>4. /\ maps' = [maps EXCEPT ![s] = [maps[s] EXCEPT ![k] = v]]
        /\ promised' = [promised EXCEPT ![s] = [promised[s] EXCEPT ![k] = v]]
    BY <1>2, <2>1 DEF Put
  <2>5. /\ maps' \in Seq(Data) /\ Len(maps') = Len(maps)
        /\ promised' \in Seq(Data) /\ Len(promised') = Len(promised)
    BY <2>1, <2>3, <2>4 DEF ScopeInv
  <2>6. \A t \in Scopes :
          /\ maps'[t] = IF t = s THEN [maps[t] EXCEPT ![k] = v] ELSE maps[t]
          /\ promised'[t] = IF t = s THEN [promised[t] EXCEPT ![k] = v] ELSE promised[t]
    BY <1>0, <2>4
  <2> QED
    BY <1>0, <2>5, <2>6 DEF ScopeInv
<1> QED
  BY <1>1, <1>2

-----------------------------------------------------------------------------
(* A call between services.                                                 *)

(* The receiver holds what the sender promised for each field that both     *)
(* maps name.                                                               *)
Arrival(s) ==
  [k \in AllKeys |->
     LET sent == {f \in DOMAIN Outbound :
                    k \in DOMAIN Inbound /\ Lower[Outbound[f]] = Lower[Inbound[k]]}
     IN  IF sent = {} THEN Absent ELSE promised[s][CHOOSE f \in sent : TRUE]]

LEMMA HopArrives ==
  ASSUME ScopeInv, PromiseInv, NEW s \in Scopes
  PROVE  /\ Extract(PropagationHeaders(View(s))) = Arrival(s)
         /\ Arrival(s) \in Data
<1> DEFINE data == View(s)
           headers == PropagationHeaders(data)
<1>1. data = promised[s] /\ data \in Data
  BY ViewIsData DEF PromiseInv
<1> HIDE DEF data
<1>2. ASSUME NEW k \in AllKeys
      PROVE  Extract(headers)[k] = Arrival(s)[k] /\ Arrival(s)[k] \in Stored
  <2> DEFINE sent == {f \in DOMAIN Outbound :
                        k \in DOMAIN Inbound /\ Lower[Outbound[f]] = Lower[Inbound[k]]}
             matching == {h \in headers : h.name = Lower[Inbound[k]]}
  <2>1. CASE sent = {}
    <3>1. k \in DOMAIN Inbound => ~\E h \in headers : h.name = Lower[Inbound[k]]
      BY <2>1 DEF PropagationHeaders
    <3>2. Extract(headers)[k] = Absent
      BY <3>1 DEF Extract
    <3>3. Arrival(s)[k] = Absent
      BY <2>1 DEF Arrival
    <3> QED
      BY <3>2, <3>3 DEF Stored
  <2>2. CASE sent # {}
    <3>1. PICK f \in DOMAIN Outbound : Lower[Outbound[f]] = Lower[Inbound[k]] /\ k \in DOMAIN Inbound
      BY <2>2
    <3>2. \A g \in sent : g = f
      BY <3>1, MapAssumption
    <3>3. (CHOOSE g \in sent : TRUE) = f
      BY <2>2, <3>2
    <3>4. Arrival(s)[k] = promised[s][f]
      BY <2>2, <3>3 DEF Arrival
    <3>5. f \in AllKeys /\ promised[s][f] \in Stored /\ promised[s][f] = data[f]
      BY <1>1, MapAssumption DEF Data
    <3>6. \A h \in headers : h.name = Lower[Inbound[k]] =>
            h = [name |-> Lower[Outbound[f]], value |-> data[f]] /\ data[f] # Absent
      BY <3>1, MapAssumption DEF PropagationHeaders
    <3>7. CASE data[f] = Absent
      <4>1. ~\E h \in headers : h.name = Lower[Inbound[k]]
        BY <3>6, <3>7
      <4>2. Extract(headers)[k] = Absent
        BY <4>1 DEF Extract
      <4> QED
        BY <3>4, <3>5, <3>7, <4>2
    <3>8. CASE data[f] # Absent
      <4> DEFINE h0 == [name |-> Lower[Outbound[f]], value |-> data[f]]
      <4>1. h0 \in headers /\ h0.name = Lower[Inbound[k]] /\ h0.value = data[f]
        BY <3>1, <3>8 DEF PropagationHeaders
      <4>2. (CHOOSE h \in headers : h.name = Lower[Inbound[k]]) = h0
        BY <3>6, <4>1
      <4>3. Extract(headers)[k] = (CHOOSE h \in headers : h.name = Lower[Inbound[k]]).value
        BY <3>1, <4>1 DEF Extract
      <4> QED
        BY <3>4, <3>5, <4>1, <4>2, <4>3
    <3> QED
      BY <3>7, <3>8
  <2> QED
    BY <2>1, <2>2
<1> HIDE DEF headers
<1>3. Extract(headers) = Arrival(s)
  BY <1>2 DEF Extract, Arrival
<1>4. Arrival(s) \in Data
  BY <1>2 DEF Arrival, Data
<1> QED
  BY <1>3, <1>4 DEF headers, data

-----------------------------------------------------------------------------
(* Each scope sees its own.                                                 *)

CtxInv == ScopeInv /\ PromiseInv /\ EchoInv

LEMMA IdsFacts ==
  ASSUME ScopeInv
  PROVE  /\ ids < MaxIds => ids + 1 \in Ids /\ ids + 1 \in 0..MaxIds
         /\ Header \in AllKeys /\ Alias \in AllKeys /\ Absent \notin Ids
         /\ Ids \subseteq Stored /\ Values \subseteq Stored /\ Absent \in Stored
BY KeyAssumption DEF ScopeInv, Ids, AllKeys, Stored

(* Opening a scope whose data are the promise, and hold the id it echoes. *)
LEMMA OpenedCtx ==
  ASSUME CtxInv, NEW s \in Scopes \cup {Outside}, NEW data \in Data,
         NEW id \in Ids \cup {Absent}, Open(s, data, id),
         promised' = Append(promised, data), ids' \in 0..MaxIds,
         id # Absent => data[Header] = id
  PROVE  CtxInv'
<1>1. /\ ScopeInv'
      /\ Len(scopes) \in Nat /\ Scopes = 1..Len(scopes) /\ Scopes' = 1..(Len(scopes) + 1)
      /\ \A t \in Scopes : /\ maps'[t] = maps[t] /\ promised'[t] = promised[t]
                           /\ echoed'[t] = echoed[t]
      /\ LET n == Len(scopes) + 1
         IN  maps'[n] = data /\ promised'[n] = data /\ echoed'[n] = id
  BY Opened DEF CtxInv
<1>2. ASSUME NEW t \in Scopes'
      PROVE  maps'[t] = promised'[t] /\ (echoed'[t] # Absent => maps'[t][Header] = echoed'[t])
  <2>1. CASE t \in Scopes
    BY <1>1, <2>1 DEF CtxInv, PromiseInv, EchoInv
  <2>2. CASE t = Len(scopes) + 1
    BY <1>1, <2>2
  <2>3. t \in Scopes \/ t = Len(scopes) + 1
    <3>1. t \in 1..(Len(scopes) + 1) /\ Len(scopes) \in Nat
      BY <1>1
    <3> QED
      BY <1>1, <3>1
  <2> QED
    BY <2>1, <2>2, <2>3
<1>3. PromiseInv' /\ EchoInv'
  BY <1>2 DEF PromiseInv, EchoInv
<1> QED
  BY <1>1, <1>3 DEF CtxInv

(* Setting a key other than the header, or the header of a scope that       *)
(* echoes nothing.                                                          *)
LEMMA PutCtx ==
  ASSUME CtxInv, NEW s \in Scopes \cup {Outside}, NEW k \in AllKeys, NEW v \in Stored,
         Put(s, k, v), scopes' = scopes, ids' \in 0..MaxIds,
         echoed' \in Seq(Ids \cup {Absent}), Len(echoed') = Len(echoed),
         \A t \in Scopes : echoed'[t] = echoed[t] \/ echoed'[t] = Absent,
         s \in Scopes /\ k = Header => echoed'[s] = Absent
  PROVE  CtxInv'
<1>1. /\ ScopeInv' /\ Scopes' = Scopes
      /\ \A t \in Scopes :
           /\ maps'[t] = IF t = s THEN [maps[t] EXCEPT ![k] = v] ELSE maps[t]
           /\ promised'[t] = IF t = s THEN [promised[t] EXCEPT ![k] = v] ELSE promised[t]
  BY PutFacts DEF CtxInv
<1>2. \A t \in Scopes : maps[t] \in Data
  BY DEF CtxInv, ScopeInv, Scopes
<1>3. Header \in AllKeys
  BY DEF AllKeys
<1>4. ASSUME NEW t \in Scopes, echoed'[t] # Absent PROVE maps'[t][Header] = echoed'[t]
  <2>1. echoed'[t] = echoed[t] /\ maps[t][Header] = echoed[t]
    BY <1>4 DEF CtxInv, EchoInv
  <2>2. CASE t # s
    BY <1>1, <2>1, <2>2
  <2>3. CASE t = s
    <3>1. k # Header
      BY <1>4, <2>3
    <3> QED
      BY <1>1, <1>2, <1>3, <2>1, <2>3, <3>1 DEF Data
  <2> QED
    BY <2>2, <2>3
<1>5. \A t \in Scopes : maps'[t] = promised'[t]
  <2>1. \A t \in Scopes : maps[t] = promised[t]
    BY DEF CtxInv, PromiseInv
  <2> QED
    BY <1>1, <2>1
<1>6. PromiseInv'
  BY <1>1, <1>5 DEF PromiseInv
<1>7. EchoInv'
  BY <1>1, <1>4 DEF EchoInv
<1> QED
  BY <1>1, <1>6, <1>7 DEF CtxInv

LEMMA CtxStep ==
  ASSUME CtxInv, [Next]_vars
  PROVE  CtxInv'
<1>0. ScopeInv /\ PromiseInv /\ EchoInv /\ ids \in 0..MaxIds /\ MaxIds \in Nat
  BY KeyAssumption DEF CtxInv, ScopeInv
<1>1. ASSUME UNCHANGED <<maps, scopes, ids, echoed, promised>> PROVE CtxInv'
  BY <1>0, <1>1 DEF CtxInv, ScopeInv, PromiseInv, EchoInv, Scopes
<1>2. CASE Request
  <2> DEFINE opened == [Empty EXCEPT ![Header] = ids + 1]
  <2>1. /\ Open(Outside, opened, ids + 1) /\ promised' = Append(promised, opened)
        /\ ids' = ids + 1 /\ ids < MaxIds
    BY <1>2 DEF Request, ForRequest
  <2>2. opened \in Data /\ opened[Header] = ids + 1
    BY <1>0, <2>1, EmptyIsData, IdsFacts DEF Data
  <2> QED
    BY <1>0, <2>1, <2>2, IdsFacts, OpenedCtx
<1>3. ASSUME NEW s \in Scopes, Settle(s) PROVE CtxInv'
  <2>1. s \in 1..Len(scopes) /\ scopes \in Seq(Scope)
    BY <1>0 DEF ScopeInv, Scopes
  <2> DEFINE settled == [scopes[s] EXCEPT !.pending = FALSE]
  <2>2. settled \in Scope /\ settled.map = scopes[s].map
    <3>1. scopes[s] \in Scope
      BY <2>1
    <3> QED
      BY <3>1 DEF Scope
  <2> HIDE DEF settled
  <2>3. scopes' = [scopes EXCEPT ![s] = settled]
    BY <1>3 DEF Settle, settled
  <2>4. /\ scopes' \in Seq(Scope) /\ Len(scopes') = Len(scopes) /\ Scopes' = Scopes
        /\ \A t \in Scopes : scopes'[t].map = scopes[t].map
    BY <2>1, <2>2, <2>3 DEF Scopes
  <2>5. UNCHANGED <<maps, ids, echoed, promised>>
    BY <1>3 DEF Settle
  <2> QED
    BY <1>0, <2>4, <2>5 DEF CtxInv, ScopeInv, PromiseInv, EchoInv
<1>4. ASSUME NEW s \in Scopes \cup {Outside}, Run(s) PROVE CtxInv'
  <2> DEFINE id == IF s = Outside THEN Absent ELSE echoed[s]
  <2>1. View(s) = IF s = Outside THEN Empty ELSE promised[s]
    BY <1>0, ViewIsData DEF PromiseInv, View
  <2>2. Open(s, View(s), id) /\ promised' = Append(promised, View(s)) /\ ids' = ids
    BY <1>4, <2>1 DEF Run
  <2>3. id \in Ids \cup {Absent} /\ (id # Absent => View(s)[Header] = id)
    BY <1>0, ViewIsData DEF ScopeInv, EchoInv, Scopes
  <2>4. View(s) \in Data
    BY <1>0, ViewIsData
  <2> QED
    BY <1>0, <2>2, <2>3, <2>4, OpenedCtx
<1>5. ASSUME NEW s \in Scopes \cup {Outside}, Hop(s) PROVE CtxInv'
  <2>1. s \in Scopes
    BY <1>5 DEF Hop
  <2>2. /\ Open(Outside, Extract(PropagationHeaders(View(s))), Absent)
        /\ promised' = Append(promised, Arrival(s)) /\ ids' = ids
    BY <1>5 DEF Hop, Arrival
  <2> QED
    BY <1>0, <2>1, <2>2, HopArrives, OpenedCtx
<1>6. ASSUME NEW s \in Scopes \cup {Outside}, NEW k \in Keys \cup {Alias}, NEW v \in Values,
             Set(s, k, v)
      PROVE  CtxInv'
  <2>1. k \in AllKeys /\ k # Header /\ v \in Stored
    BY KeyAssumption DEF AllKeys, Stored
  <2>2. echoed \in Seq(Ids \cup {Absent})
    BY <1>0 DEF ScopeInv
  <2> QED
    BY <1>0, <1>6, <2>1, <2>2, PutCtx DEF Set
<1>7. ASSUME NEW s \in Scopes \cup {Outside}, SetCorrelationId(s) PROVE CtxInv'
  <2>1. s \in Scopes /\ ids < MaxIds /\ echoed \in Seq(Ids \cup {Absent})
          /\ Scopes = DOMAIN echoed
    BY <1>0, <1>7 DEF SetCorrelationId, ScopeInv, Scopes
  <2>2. echoed' = [echoed EXCEPT ![s] = Absent]
    BY <1>7 DEF SetCorrelationId
  <2>3. /\ echoed' \in Seq(Ids \cup {Absent}) /\ Len(echoed') = Len(echoed)
        /\ \A t \in Scopes : echoed'[t] = echoed[t] \/ echoed'[t] = Absent
        /\ echoed'[s] = Absent
    BY <2>1, <2>2
  <2>4. Put(s, Header, ids + 1) /\ scopes' = scopes /\ ids' = ids + 1
    BY <1>7 DEF SetCorrelationId
  <2>5. Header \in AllKeys /\ ids + 1 \in Stored /\ ids + 1 \in 0..MaxIds
    BY <1>0, <2>1, IdsFacts
  <2> QED
    BY <2>3, <2>4, <2>5, PutCtx
<1>8. ASSUME NEW s \in Scopes \cup {Outside}, GetCorrelationId(s) PROVE CtxInv'
  <2>1. ids < MaxIds /\ CurrentId(View(s)) = Absent /\ UNCHANGED <<scopes, echoed>>
          /\ Put(s, Header, ids + 1) /\ ids' = ids + 1
    BY <1>8 DEF GetCorrelationId
  <2>2. s \in Scopes => echoed[s] = Absent
    <3> SUFFICES ASSUME s \in Scopes, echoed[s] # Absent PROVE FALSE
      OBVIOUS
    <3>1. View(s)[Header] = echoed[s]
      BY <1>0, ViewIsData DEF EchoInv
    <3> QED
      BY <2>1, <3>1 DEF CurrentId
  <2>3. Header \in AllKeys /\ ids + 1 \in Stored /\ ids + 1 \in 0..MaxIds
    BY <1>0, <2>1, IdsFacts
  <2>4. echoed' \in Seq(Ids \cup {Absent})
    BY <1>0, <2>1 DEF ScopeInv
  <2> QED
    BY <2>1, <2>2, <2>3, <2>4, PutCtx
<1>9. ASSUME NEW s, GetCorrelationIdAliased(s) PROVE CtxInv'
  <2>1. ids' \in 0..MaxIds /\ UNCHANGED <<maps, scopes, echoed, promised>>
    BY <1>0, <1>9 DEF GetCorrelationIdAliased
  <2> QED
    BY <1>0, <2>1 DEF CtxInv, ScopeInv, PromiseInv, EchoInv, Scopes
<1>10. ASSUME NEW m, ReconfigureLoggingMatrix(m) PROVE CtxInv'
  BY <1>1, <1>10 DEF ReconfigureLoggingMatrix
<1>11. CASE UNCHANGED vars
  BY <1>1, <1>11 DEF vars
<1> QED
  BY <1>2, <1>3, <1>4, <1>5, <1>6, <1>7, <1>8, <1>9, <1>10, <1>11 DEF Next

LEMMA CtxCorrect == Spec => []CtxInv
<1>1. Init => CtxInv
  BY KeyAssumption DEF Init, CtxInv, ScopeInv, PromiseInv, EchoInv, Scopes
<1>2. CtxInv /\ [Next]_vars => CtxInv'
  BY CtxStep
<1> QED
  BY <1>1, <1>2, PTL DEF Spec

(* The type invariant, for any number of scopes.                            *)
THEOREM TypeCorrect == Spec => []TypeOK
<1>1. CtxInv => TypeOK
  BY DEF CtxInv, ScopeInv, TypeOK, Data, Stored
<1> QED
  BY <1>1, CtxCorrect, PTL

(* However the work of any number of scopes interleaves, each sees what it  *)
(* was opened with and what was set in it, and a call between services      *)
(* carries what both their maps name.                                       *)
THEOREM SeesItsOwnHolds == Spec => []SeesItsOwn
<1>1. CtxInv => SeesItsOwn
  BY ViewIsData DEF CtxInv, PromiseInv, SeesItsOwn
<1> QED
  BY <1>1, CtxCorrect, PTL

(* A request logs under the id it echoed until its work takes another.      *)
THEOREM OneIdPerRequestHolds == Spec => []OneIdPerRequest
<1>1. CtxInv => OneIdPerRequest
  BY ViewIsData DEF CtxInv, EchoInv, OneIdPerRequest, CurrentId
<1> QED
  BY <1>1, CtxCorrect, PTL

-----------------------------------------------------------------------------
(* The logging matrix.                                                      *)

(* An entry shows the fields that the matrix names and the scope has, under *)
(* whichever key, and no other, for any matrix and at any moment.           *)
THEOREM MatrixDecidesHolds == Spec => []MatrixDecides
<1>1. MatrixDecides
  <2> SUFFICES ASSUME matrix # NoMatrix, NEW s \in Scopes, NEW l \in Levels, NEW f \in AllKeys
               PROVE  LET shown == FilteredContext(View(s), l, f)
                          held  == {View(s)[k] : k \in {k \in AllKeys : FieldOf(k) = f \/ k = f}}
                                     \ {Absent}
                          named == IF "*" \in FieldsKept(l) THEN FieldOf(f) = f
                                   ELSE f \in FieldsKept(l)
                      IN  IF named /\ held # {} THEN shown # {} /\ shown \subseteq held
                          ELSE shown = {}
    BY DEF MatrixDecides
  <2> DEFINE data == View(s)
             keys == {k \in AllKeys : FieldOf(k) = f \/ k = f}
             held == {data[k] : k \in keys} \ {Absent}
  <2>0. Header \in AllKeys /\ Alias \in AllKeys /\ Header # Alias
    BY KeyAssumption DEF AllKeys
  <2> HIDE DEF data
  <2>1. CASE "*" \in FieldsKept(l)
    <3>1. FilteredContext(data, l, f) = {data[k] : k \in {k \in AllKeys : FieldOf(k) = f}} \ {Absent}
      BY <2>1 DEF FilteredContext
    <3>2. CASE FieldOf(f) = f
      <4>1. keys = {k \in AllKeys : FieldOf(k) = f}
        BY <3>2
      <4> QED
        BY <2>1, <3>1, <3>2, <4>1 DEF data
    <3>3. CASE FieldOf(f) # f
      <4>1. \A k \in AllKeys : FieldOf(k) # f
        BY <2>0, <3>3 DEF FieldOf
      <4> QED
        BY <2>1, <3>1, <3>3, <4>1 DEF data
    <3> QED
      BY <3>2, <3>3
  <2>2. CASE "*" \notin FieldsKept(l)
    <3>1. FilteredContext(data, l, f) =
            {FirstPresent(data, KeysOf(f)) : g \in FieldsKept(l) \cap {f}} \ {Absent}
      BY <2>2 DEF FilteredContext
    <3>2. CASE f \notin FieldsKept(l)
      BY <2>2, <3>1, <3>2 DEF data
    <3>3. CASE f \in FieldsKept(l)
      <4>1. FilteredContext(data, l, f) = {FirstPresent(data, KeysOf(f))} \ {Absent}
        BY <3>1, <3>3
      <4>2. CASE f = Alias
        <5>1. keys = {Header, Alias} /\ KeysOf(f) = <<Header, Alias>>
          BY <2>0, <4>2 DEF FieldOf, KeysOf
        <5>2. FirstPresent(data, <<Header, Alias>>) =
                IF data[Header] # Absent THEN data[Header] ELSE data[Alias]
          <6> DEFINE ks == <<Header, Alias>>
                     present == {i \in DOMAIN ks : data[ks[i]] # Absent}
          <6>1. DOMAIN ks = {1, 2} /\ ks[1] = Header /\ ks[2] = Alias
            OBVIOUS
          <6> HIDE DEF ks
          <6>2. CASE data[Header] # Absent
            <7>1. 1 \in present /\ \A j \in present : 1 <= j
              BY <6>1, <6>2
            <7>2. (CHOOSE i \in present : \A j \in present : i <= j) = 1
              <8>1. \A i \in present : (\A j \in present : i <= j) => i = 1
                BY <6>1, <7>1
              <8> QED
                BY <7>1, <8>1
            <7> QED
              BY <6>1, <6>2, <7>1, <7>2 DEF FirstPresent, ks
          <6>3. CASE data[Header] = Absent /\ data[Alias] # Absent
            <7>1. present = {2}
              BY <6>1, <6>3
            <7>2. (CHOOSE i \in present : \A j \in present : i <= j) = 2
              BY <7>1
            <7> QED
              BY <6>1, <6>3, <7>1, <7>2 DEF FirstPresent, ks
          <6>4. CASE data[Header] = Absent /\ data[Alias] = Absent
            <7>1. present = {}
              BY <6>1, <6>4
            <7> QED
              BY <6>4, <7>1 DEF FirstPresent, ks
          <6> QED
            BY <6>2, <6>3, <6>4
        <5> QED
          BY <2>2, <3>3, <4>1, <5>1, <5>2 DEF data
      <4>3. CASE f # Alias
        <5>1. keys = {f} /\ KeysOf(f) = <<f>>
          BY <2>0, <4>3 DEF FieldOf, KeysOf
        <5>2. FirstPresent(data, <<f>>) = data[f]
          <6> DEFINE ks == <<f>>
                     present == {i \in DOMAIN ks : data[ks[i]] # Absent}
          <6>1. DOMAIN ks = {1} /\ ks[1] = f
            OBVIOUS
          <6> HIDE DEF ks
          <6>2. CASE data[f] # Absent
            <7>1. present = {1}
              BY <6>1, <6>2
            <7>2. (CHOOSE i \in present : \A j \in present : i <= j) = 1
              BY <7>1
            <7> QED
              BY <6>1, <6>2, <7>1, <7>2 DEF FirstPresent, ks
          <6>3. CASE data[f] = Absent
            <7>1. present = {}
              BY <6>1, <6>3
            <7> QED
              BY <6>3, <7>1 DEF FirstPresent, ks
          <6> QED
            BY <6>2, <6>3
        <5> QED
          BY <2>2, <3>3, <4>1, <5>1, <5>2 DEF data
      <4> QED
        BY <4>2, <4>3
    <3> QED
      BY <3>2, <3>3
  <2> QED
    BY <2>1, <2>2
<1> QED
  BY <1>1, PTL

-----------------------------------------------------------------------------
(* The mock: one store, and for each pending run() what it will restore.    *)

Pending   == {s \in Scopes : scopes[s].pending}
Latest(P) == IF P = {} THEN Outside ELSE CHOOSE s \in P : \A t \in P : t <= s

(* The run() that was innermost when that of scope s was called, once the   *)
(* ones inside of s have settled.                                           *)
Under(s) == Latest({t \in Pending : t < s})

MockInv ==
  mock # NoMock =>
    /\ mock \in [store : Data, saved : Seq(Data)]
    /\ Len(mock.saved) = Len(scopes)
    /\ mock.store = View(Innermost)
    /\ \A s \in Pending : mock.saved[s] = View(Under(s))

(* The latest of some scopes is one of them, and after all the others.      *)
LEMMA LatestFact ==
  ASSUME NEW n \in Nat, NEW P \in SUBSET (1..n), P # {}
  PROVE  Latest(P) \in P /\ \A t \in P : t <= Latest(P)
<1> DEFINE S == {n - t : t \in P}
<1>1. S \in SUBSET Nat /\ S # {}
  <2>1. ASSUME NEW t \in P PROVE n - t \in Nat
    <3>1. t \in 1..n
      OBVIOUS
    <3> QED
      BY <3>1
  <2> QED
    BY <2>1
<1>2. PICK i \in S : \A j \in S : i <= j
  <2> HIDE DEF S
  <2> QED
    BY <1>1, Smallest
<1>3. PICK s \in P : i = n - s
  BY <1>2
<1>4. \A t \in P : t <= s
  <2> SUFFICES ASSUME NEW t \in P PROVE t <= s
    OBVIOUS
  <2>1. n - t \in S /\ t \in Int /\ s \in Int
    OBVIOUS
  <2>2. n - s <= n - t
    BY <1>2, <1>3, <2>1
  <2> QED
    BY <2>1, <2>2
<1> QED
  BY <1>3, <1>4 DEF Latest

LEMMA LatestIs ==
  ASSUME NEW n \in Nat, NEW P \in SUBSET (1..n), NEW s \in P, \A t \in P : t <= s
  PROVE  Latest(P) = s
<1>1. Latest(P) \in P /\ \A t \in P : t <= Latest(P)
  BY LatestFact
<1>2. PICK m : m = Latest(P)
  OBVIOUS
<1>3. m \in 1..n /\ s \in 1..n /\ s <= m /\ m <= s
  BY <1>1, <1>2
<1> QED
  BY <1>2, <1>3

LEMMA OneMore ==
  ASSUME NEW m \in Nat, NEW P \in SUBSET (1..m)
  PROVE  /\ {u \in P \cup {m + 1} : u < m + 1} = P
         /\ P \cup {m + 1} \in SUBSET (1..m + 1)
         /\ \A t \in P \cup {m + 1} : t <= m + 1
         /\ Latest(P \cup {m + 1}) = m + 1
<1>1. \A t \in P : t \in Nat /\ t < m + 1
  <2> SUFFICES ASSUME NEW t \in P PROVE t \in Nat /\ t < m + 1
    OBVIOUS
  <2>1. t \in 1..m
    OBVIOUS
  <2> QED
    BY <2>1
<1>2. {u \in P \cup {m + 1} : u < m + 1} = P
  <2>1. ~(m + 1 < m + 1)
    OBVIOUS
  <2> DEFINE k == m + 1
  <2>2. ~(k < k) /\ \A t \in P : t < k
    BY <1>1, <2>1
  <2> HIDE DEF k
  <2>3. {u \in P \cup {k} : u < k} = P
    BY <2>2
  <2> QED
    BY <2>3 DEF k
<1>3. P \cup {m + 1} \in SUBSET (1..m + 1)
  <2>1. 1..m \subseteq 1..m + 1 /\ m + 1 \in 1..m + 1
    OBVIOUS
  <2> QED
    BY <2>1
<1>4. \A t \in P \cup {m + 1} : t <= m + 1
  BY <1>1
<1>5. Latest(P \cup {m + 1}) = m + 1
  <2> DEFINE Q == P \cup {m + 1}  k == m + 1
  <2>1. k \in Nat /\ Q \in SUBSET (1..k) /\ k \in Q /\ \A t \in Q : t <= k
    BY <1>3, <1>4
  <2> HIDE DEF Q, k
  <2>2. Latest(Q) = k
    BY <2>1, LatestIs
  <2> QED
    BY <2>2 DEF Q, k
<1> QED
  BY <1>2, <1>3, <1>4, <1>5

LEMMA InnermostIsLatest == Innermost = Latest(Pending)
BY DEF Innermost, Latest, Pending

LEMMA PendingFact ==
  ASSUME ScopeInv
  PROVE  /\ Len(scopes) \in Nat /\ Scopes = 1..Len(scopes)
         /\ Pending \in SUBSET (1..Len(scopes))
         /\ Innermost \in Scopes \cup {Outside}
         /\ \A s \in Pending : Under(s) \in Scopes \cup {Outside} /\ Under(s) < s
<1>1. Len(scopes) \in Nat /\ Scopes = 1..Len(scopes) /\ Pending \in SUBSET (1..Len(scopes))
  BY DEF ScopeInv, Scopes, Pending
<1>2. Innermost \in Scopes \cup {Outside}
  <2>1. CASE Pending = {}
    BY <2>1, InnermostIsLatest DEF Latest
  <2>2. CASE Pending # {}
    BY <1>1, <2>2, InnermostIsLatest, LatestFact
  <2> QED
    BY <2>1, <2>2
<1>3. ASSUME NEW s \in Pending
      PROVE  Under(s) \in Scopes \cup {Outside} /\ Under(s) < s
  <2> DEFINE P == {t \in Pending : t < s}
  <2>1. P \in SUBSET (1..Len(scopes)) /\ Under(s) = Latest(P)
    BY <1>1 DEF Under
  <2>2. CASE P = {}
    BY <1>1, <2>1, <2>2 DEF Latest, Outside
  <2>3. CASE P # {}
    <3>1. Latest(P) \in P
      <4> HIDE DEF P
      <4> QED
        BY <1>1, <2>1, <2>3, LatestFact
    <3> QED
      BY <1>1, <2>1, <3>1
  <2> QED
    BY <2>2, <2>3
<1> QED
  BY <1>1, <1>2, <1>3

(* An opened scope becomes the innermost one, above the one that was.       *)
LEMMA OpenedMock ==
  ASSUME ScopeInv, ScopeInv', MockInv, NEW s \in Scopes \cup {Outside}, NEW data \in Data,
         NEW id, Open(s, data, id), NEW k \in AllKeys, NEW v \in Stored, MockOpen(s, k, v),
         mock # NoMock /\ s = Innermost => data = [mock.store EXCEPT ![k] = v]
  PROVE  MockInv'
<1> SUFFICES ASSUME mock' # NoMock
             PROVE  /\ mock' \in [store : Data, saved : Seq(Data)]
                    /\ Len(mock'.saved) = Len(scopes')
                    /\ mock'.store = View(Innermost)'
                    /\ \A t \in Pending' : mock'.saved[t] = View(Under(t))'
  BY DEF MockInv
<1>1. /\ mock # NoMock /\ s = Innermost
      /\ mock' = [store |-> data, saved |-> Append(mock.saved, mock.store)]
  BY DEF MockOpen, Follows
<1>2. /\ mock.store \in Data /\ mock.saved \in Seq(Data) /\ Len(mock.saved) = Len(scopes)
      /\ mock.store = View(Innermost)
      /\ \A t \in Pending : mock.saved[t] = View(Under(t))
  BY <1>1 DEF MockInv
<1> DEFINE new == [map |-> Len(maps) + 1, parent |-> s, pending |-> TRUE]
<1>3. PICK n : n = Len(scopes) + 1
  OBVIOUS
<1>4. /\ Len(scopes) \in Nat /\ Scopes = 1..Len(scopes)
      /\ Pending \in SUBSET (1..Len(scopes)) /\ Innermost \in Scopes \cup {Outside}
      /\ \A t \in Pending : Under(t) \in Scopes \cup {Outside}
  BY PendingFact
<1>5. /\ Len(scopes') = n /\ Scopes' = 1..n
      /\ \A t \in 1..Len(scopes) : scopes'[t] = scopes[t]
      /\ scopes'[n].pending = TRUE /\ scopes'[n].map = Len(maps) + 1
  <2>1. scopes' = Append(scopes, new) /\ scopes \in Seq(Scope)
    BY DEF Open, ScopeInv
  <2>2. /\ Len(scopes') = Len(scopes) + 1 /\ DOMAIN scopes' = 1..Len(scopes) + 1
        /\ \A t \in 1..Len(scopes) : scopes'[t] = scopes[t]
        /\ scopes'[Len(scopes) + 1] = new
    <3> HIDE DEF new
    <3> QED
      BY <2>1, <1>4
  <2> QED
    BY <1>3, <2>2 DEF Scopes
<1>6. Pending' = Pending \cup {n}
  BY <1>3, <1>4, <1>5 DEF Pending
<1>7. /\ maps \in Seq(Data) /\ Len(maps) = Len(scopes) /\ maps' = Append(maps, data)
  BY DEF ScopeInv, Open
<1>8. maps'[n] = data /\ \A t \in 1..Len(scopes) : maps'[t] = maps[t]
  <2> HIDE DEF Data
  <2> QED
    BY <1>3, <1>4, <1>7
<1>9. ASSUME NEW t \in Scopes \cup {Outside} PROVE View(t)' = View(t)
  <2>1. CASE t = Outside
    BY <2>1 DEF View
  <2>2. CASE t # Outside
    <3>1. t \in 1..Len(scopes) /\ scopes[t].map = t
      BY <1>4, <2>2 DEF ScopeInv
    <3> QED
      BY <1>5, <1>8, <2>2, <3>1 DEF View
  <2> QED
    BY <2>1, <2>2
<1>10. ASSUME NEW t \in Pending PROVE Under(t)' = Under(t)
  <2>1. {u \in Pending' : u < t} = {u \in Pending : u < t}
    BY <1>3, <1>4, <1>6
  <2> QED
    BY <2>1 DEF Under
<1>11. Under(n)' = Innermost
  <2>1. {u \in Pending' : u < n} = Pending
    BY <1>3, <1>4, <1>6, OneMore
  <2> QED
    BY <2>1, InnermostIsLatest DEF Under
<1>12. Innermost' = n
  <2>1. Latest(Pending') = n
    BY <1>3, <1>4, <1>6, OneMore
  <2> QED
    BY <2>1 DEF Innermost, Latest, Pending
<1>13. View(Innermost)' = data
  <2>1. n # Outside /\ scopes'[n].map = n
    BY <1>3, <1>4, <1>5, <1>7 DEF Outside
  <2> QED
    BY <1>8, <1>12, <2>1 DEF View
<1>14. /\ Append(mock.saved, mock.store) \in Seq(Data)
       /\ Len(Append(mock.saved, mock.store)) = n
       /\ \A t \in 1..Len(scopes) : Append(mock.saved, mock.store)[t] = mock.saved[t]
       /\ Append(mock.saved, mock.store)[n] = mock.store
  <2> HIDE DEF Data
  <2> QED
    BY <1>2, <1>3, <1>4
<1>15. ASSUME NEW t \in Pending' PROVE mock'.saved[t] = View(Under(t))'
  <2>1. CASE t = n
    <3>1. mock'.saved[t] = View(Innermost)
      BY <1>1, <1>2, <1>14, <2>1
    <3>2. PICK i : i = Innermost
      OBVIOUS
    <3>3. View(i)' = View(i)
      BY <1>4, <1>9, <3>2
    <3>4. Under(t)' = i
      BY <1>11, <2>1, <3>2
    <3> QED
      BY <3>1, <3>2, <3>3, <3>4 DEF View
  <2>2. CASE t \in Pending
    <3>1. PICK i : i = Under(t)
      OBVIOUS
    <3>2. View(i)' = View(i) /\ Under(t)' = i
      BY <1>4, <1>9, <1>10, <2>2, <3>1
    <3>3. mock'.saved[t] = View(i)
      BY <1>1, <1>2, <1>4, <1>14, <2>2, <3>1
    <3> QED
      BY <3>2, <3>3 DEF View
  <2> QED
    BY <1>6, <2>1, <2>2
<1> QED
  BY <1>1, <1>5, <1>13, <1>14, <1>15

(* The innermost run() settles: the one under it is innermost again.        *)
LEMMA SettledMock ==
  ASSUME ScopeInv, MockInv, NEW s \in Scopes, Settle(s)
  PROVE  MockInv'
<1> SUFFICES ASSUME mock' # NoMock
             PROVE  /\ mock' \in [store : Data, saved : Seq(Data)]
                    /\ Len(mock'.saved) = Len(scopes')
                    /\ mock'.store = View(Innermost)'
                    /\ \A t \in Pending' : mock'.saved[t] = View(Under(t))'
  BY DEF MockInv
<1>1. /\ mock # NoMock /\ s = Innermost /\ s \in Pending
      /\ mock' = [mock EXCEPT !.store = mock.saved[s]] /\ maps' = maps
  BY DEF Settle, MockSettle, Follows, Pending
<1>2. /\ mock \in [store : Data, saved : Seq(Data)] /\ Len(mock.saved) = Len(scopes)
      /\ \A t \in Pending : mock.saved[t] = View(Under(t))
  BY <1>1 DEF MockInv
<1>3. /\ Len(scopes) \in Nat /\ Scopes = 1..Len(scopes) /\ Pending \in SUBSET (1..Len(scopes))
      /\ \A t \in Pending : Under(t) \in Scopes \cup {Outside}
  BY PendingFact
<1>4. \A t \in Pending : t <= s
  BY <1>1, <1>3, InnermostIsLatest, LatestFact
<1>5. /\ Len(scopes') = Len(scopes) /\ Scopes' = Scopes
      /\ \A t \in Scopes : scopes'[t].map = scopes[t].map
      /\ \A t \in Scopes : scopes'[t].pending = IF t = s THEN FALSE ELSE scopes[t].pending
  <2> DEFINE settled == [scopes[s] EXCEPT !.pending = FALSE]
  <2>1. scopes[s] \in Scope
    BY DEF ScopeInv, Scopes
  <2>2. settled.map = scopes[s].map /\ settled.pending = FALSE
    BY <2>1 DEF Scope
  <2> HIDE DEF settled
  <2>3. scopes' = [scopes EXCEPT ![s] = settled]
    BY DEF Settle, settled
  <2>4. scopes \in Seq(Scope)
    BY DEF ScopeInv
  <2>5. /\ Len(scopes') = Len(scopes) /\ Scopes' = Scopes
        /\ \A t \in Scopes : scopes'[t] = IF t = s THEN settled ELSE scopes[t]
    BY <2>3, <2>4 DEF Scopes
  <2>6. \A t \in Scopes : scopes'[t].map = scopes[t].map
    BY <2>2, <2>5
  <2>7. \A t \in Scopes : scopes'[t].pending = IF t = s THEN FALSE ELSE scopes[t].pending
    BY <2>2, <2>5
  <2> QED
    BY <2>5, <2>6, <2>7
<1>6. Pending' = Pending \ {s}
  BY <1>5 DEF Pending
<1>7. ASSUME NEW t \in Scopes \cup {Outside} PROVE View(t)' = View(t)
  BY <1>1, <1>3, <1>5 DEF View, Outside
<1>8. ASSUME NEW t \in Pending' PROVE Under(t)' = Under(t) /\ t \in Pending
  <2>1. t \in Pending /\ ~(s < t)
    <3>1. t \in 1..Len(scopes) /\ s \in 1..Len(scopes) /\ t <= s
      BY <1>1, <1>3, <1>4, <1>6
    <3> QED
      BY <1>6, <3>1
  <2>2. {u \in Pending' : u < t} = {u \in Pending : u < t}
    BY <1>6, <2>1
  <2> QED
    BY <2>1, <2>2 DEF Under
<1>9. Innermost' = Under(s)
  <2>1. Pending' = {u \in Pending : u < s}
    <3>1. \A u \in Pending : u \in Int /\ s \in Int /\ u <= s
      BY <1>1, <1>3, <1>4
    <3> QED
      BY <1>6, <3>1
  <2>2. Innermost' = Latest(Pending')
    BY DEF Innermost, Latest, Pending
  <2> QED
    BY <2>1, <2>2 DEF Under
<1>10. mock'.store = View(Innermost)'
  <2>1. PICK i : i = Under(s)
    OBVIOUS
  <2>2. View(i)' = View(i) /\ Innermost' = i /\ mock.saved[s] = View(i)
    BY <1>1, <1>2, <1>3, <1>7, <1>9, <2>1
  <2>3. mock'.store = mock.saved[s]
    BY <1>1, <1>2
  <2> QED
    BY <2>2, <2>3 DEF View
<1>11. mock'.saved = mock.saved
  BY <1>1, <1>2
<1>12. ASSUME NEW t \in Pending' PROVE mock'.saved[t] = View(Under(t))'
  <2>1. PICK i : i = Under(t)
    OBVIOUS
  <2>2. View(i)' = View(i) /\ Under(t)' = i /\ mock.saved[t] = View(i)
    BY <1>2, <1>3, <1>7, <1>8, <2>1
  <2> QED
    BY <1>11, <2>2 DEF View
<1>13. mock' \in [store : Data, saved : Seq(Data)]
  <2>1. mock.saved[s] \in Data
    <3>1. s \in 1..Len(mock.saved) /\ mock.saved \in Seq(Data)
      BY <1>2, <1>3
    <3> HIDE DEF Data
    <3> QED
      BY <3>1
  <2> HIDE DEF Data
  <2> QED
    BY <1>1, <1>2, <2>1
<1> QED
  BY <1>2, <1>5, <1>10, <1>11, <1>12, <1>13

(* A field set by the innermost work is in the one store, and in no store   *)
(* that waits to be restored.                                               *)
LEMMA PutMock ==
  ASSUME ScopeInv, MockInv, NEW s \in Scopes \cup {Outside}, NEW k \in AllKeys, NEW v \in Stored,
         Put(s, k, v), MockPut(s, k, v), scopes' = scopes
  PROVE  MockInv'
<1> SUFFICES ASSUME mock' # NoMock
             PROVE  /\ mock' \in [store : Data, saved : Seq(Data)]
                    /\ Len(mock'.saved) = Len(scopes')
                    /\ mock'.store = View(Innermost)'
                    /\ \A t \in Pending' : mock'.saved[t] = View(Under(t))'
  BY DEF MockInv
<1>1. /\ mock # NoMock /\ s = Innermost /\ s # Outside /\ s \in Scopes
      /\ mock' = [mock EXCEPT !.store[k] = v]
  BY DEF MockPut, Follows
<1>2. /\ mock \in [store : Data, saved : Seq(Data)] /\ Len(mock.saved) = Len(scopes)
      /\ mock.store = View(Innermost)
      /\ \A t \in Pending : mock.saved[t] = View(Under(t))
  BY <1>1 DEF MockInv
<1>3. /\ Len(scopes) \in Nat /\ Scopes = 1..Len(scopes) /\ Pending \in SUBSET (1..Len(scopes))
      /\ \A t \in Pending : Under(t) \in Scopes \cup {Outside} /\ Under(t) < t
  BY PendingFact
<1>4. \A t \in Pending : t <= s
  BY <1>1, <1>3, InnermostIsLatest, LatestFact
<1>5. View(s) = maps[s] /\ scopes[s].map = s /\ View(s) \in Data /\ s \in DOMAIN maps
  BY <1>1, <1>3, ViewIsData DEF ScopeInv
<1>6. maps' = [maps EXCEPT ![s][k] = v]
  BY <1>1, <1>5 DEF Put
<1>7. maps'[s] = [maps[s] EXCEPT ![k] = v] /\ \A t \in DOMAIN maps : t # s => maps'[t] = maps[t]
  BY <1>5, <1>6
<1>8. View(s)' = [View(s) EXCEPT ![k] = v]
  BY <1>1, <1>5, <1>7 DEF View
<1>9. ASSUME NEW t \in Scopes \cup {Outside}, t # s PROVE View(t)' = View(t)
  <2>1. t # Outside => t \in DOMAIN maps /\ scopes[t].map = t
    BY <1>3 DEF ScopeInv
  <2> QED
    BY <1>7, <1>9, <2>1 DEF View
<1>10. /\ mock'.store = [mock.store EXCEPT ![k] = v] /\ mock'.saved = mock.saved
       /\ mock' \in [store : Data, saved : Seq(Data)]
  <2> DEFINE st == [mock.store EXCEPT ![k] = v]
  <2>1. st \in Data
    BY <1>2 DEF Data
  <2>2. mock' = [mock EXCEPT !.store = st]
    BY <1>1
  <2> HIDE DEF st, Data
  <2>3. mock'.store = st /\ mock'.saved = mock.saved /\ mock' \in [store : Data, saved : Seq(Data)]
    BY <1>2, <2>1, <2>2
  <2> QED
    BY <2>3 DEF st
<1>11. Innermost' = Innermost /\ Pending' = Pending
  BY DEF Innermost, Pending, Scopes
<1>12. mock'.store = View(Innermost)'
  BY <1>1, <1>2, <1>8, <1>10, <1>11 DEF View
<1>13. ASSUME NEW t \in Pending' PROVE mock'.saved[t] = View(Under(t))'
  <2>1. PICK i : i = Under(t)
    OBVIOUS
  <2>2. Under(t)' = i
    BY <1>11, <2>1 DEF Under
  <2>3. i \in Scopes \cup {Outside} /\ i # s
    <3>1. i \in Scopes \cup {Outside} /\ i < t /\ t <= s /\ t \in 1..Len(scopes) /\ s \in 1..Len(scopes)
      BY <1>1, <1>3, <1>4, <1>11, <2>1
    <3>2. i \in Int
      BY <1>3, <3>1 DEF Outside
    <3> QED
      BY <3>1, <3>2
  <2>4. View(i)' = View(i) /\ mock.saved[t] = View(i)
    BY <1>2, <1>9, <1>11, <2>1, <2>3
  <2> QED
    BY <1>10, <2>2, <2>4 DEF View
<1> QED
  BY <1>2, <1>10, <1>12, <1>13

LEMMA MockStep ==
  ASSUME CtxInv, MockInv, [Next]_vars
  PROVE  MockInv'
<1>0. ScopeInv /\ ScopeInv' /\ MaxIds \in Nat /\ ids \in 0..MaxIds
  BY CtxStep, KeyAssumption DEF CtxInv, ScopeInv
<1>1. ASSUME UNCHANGED <<maps, scopes, mock>> PROVE MockInv'
  <2>1. Pending' = Pending /\ Innermost' = Innermost
    BY <1>1 DEF Innermost, Pending, Scopes
  <2>2. ASSUME NEW t PROVE Under(t)' = Under(t) /\ View(t)' = View(t)
    BY <1>1, <2>1 DEF Under, View
  <2>3. View(Innermost)' = View(Innermost)
    <3>1. PICK i : i = Innermost
      OBVIOUS
    <3> QED
      BY <2>1, <2>2, <3>1 DEF View
  <2>4. ASSUME NEW t PROVE View(Under(t))' = View(Under(t))
    <3>1. PICK i : i = Under(t)
      OBVIOUS
    <3> QED
      BY <2>2, <3>1 DEF View
  <2> QED
    BY <1>1, <2>1, <2>3, <2>4 DEF MockInv
<1>2. ASSUME mock' = NoMock PROVE MockInv'
  BY <1>2 DEF MockInv
<1>3. CASE Request
  <2> DEFINE opened == [Empty EXCEPT ![Header] = ids + 1]
  <2>1. Open(Outside, opened, ids + 1) /\ MockOpen(Outside, Header, ids + 1) /\ ids < MaxIds
    BY <1>3 DEF Request, ForRequest
  <2>2. opened \in Data /\ Header \in AllKeys /\ ids + 1 \in Stored
    BY <1>0, <2>1, EmptyIsData, IdsFacts DEF Data
  <2>3. mock # NoMock /\ Outside = Innermost => opened = [mock.store EXCEPT ![Header] = ids + 1]
    BY DEF MockInv, View
  <2> HIDE DEF opened
  <2> QED
    BY <1>0, <2>1, <2>2, <2>3, OpenedMock
<1>4. ASSUME NEW s \in Scopes, Settle(s) PROVE MockInv'
  BY <1>0, <1>4, SettledMock
<1>5. ASSUME NEW s \in Scopes \cup {Outside}, Run(s) PROVE MockInv'
  <2>1. CASE mock # NoMock /\ s = Innermost
    <3> DEFINE id == IF s = Outside THEN Absent ELSE echoed[s]  v == mock.store[Header]
    <3>1. Open(s, View(s), id) /\ MockOpen(s, Header, v)
      BY <1>5 DEF Run
    <3>2. View(s) \in Data /\ mock.store = View(s)
      BY <1>0, <2>1, ViewIsData DEF MockInv
    <3>3. v \in Stored /\ Header \in AllKeys /\ View(s) = [mock.store EXCEPT ![Header] = v]
      BY <3>2, IdsFacts DEF Data, AllKeys
    <3> HIDE DEF id, v
    <3> QED
      BY <1>0, <3>1, <3>2, <3>3, OpenedMock
  <2>2. CASE ~(mock # NoMock /\ s = Innermost)
    BY <1>2, <1>5, <2>2 DEF Run, MockOpen, Follows
  <2> QED
    BY <2>1, <2>2
<1>6. ASSUME NEW s, Hop(s) PROVE MockInv'
  BY <1>2, <1>6 DEF Hop
<1>7. ASSUME NEW s \in Scopes \cup {Outside}, NEW k \in Keys \cup {Alias}, NEW v \in Values,
             Set(s, k, v)
      PROVE  MockInv'
  <2>1. k \in AllKeys /\ v \in Stored
    BY DEF AllKeys, Stored
  <2> QED
    BY <1>0, <1>7, <2>1, PutMock DEF Set
<1>8. ASSUME NEW s \in Scopes \cup {Outside}, SetCorrelationId(s) PROVE MockInv'
  <2>1. Header \in AllKeys /\ ids + 1 \in Stored
    BY <1>0, <1>8, IdsFacts DEF SetCorrelationId
  <2> QED
    BY <1>0, <1>8, <2>1, PutMock DEF SetCorrelationId
<1>9. ASSUME NEW s \in Scopes \cup {Outside}, GetCorrelationId(s) PROVE MockInv'
  <2>1. Header \in AllKeys /\ ids + 1 \in Stored
    BY <1>0, <1>9, IdsFacts DEF GetCorrelationId
  <2> QED
    BY <1>0, <1>9, <2>1, PutMock DEF GetCorrelationId
<1>10. ASSUME NEW s, GetCorrelationIdAliased(s) PROVE MockInv'
  BY <1>2, <1>10 DEF GetCorrelationIdAliased
<1>11. ASSUME NEW m, ReconfigureLoggingMatrix(m) PROVE MockInv'
  BY <1>1, <1>11 DEF ReconfigureLoggingMatrix
<1>12. CASE UNCHANGED vars
  BY <1>1, <1>12 DEF vars
<1> QED
  BY <1>3, <1>4, <1>5, <1>6, <1>7, <1>8, <1>9, <1>10, <1>11, <1>12 DEF Next

(* Where runs nest and nothing is set outside them, the mock, with its one  *)
(* store, shows what the real manager would, to any depth                   *)
(* (src/context/MockContextManager.ts:60).                                  *)
THEOREM MockAgreesHolds == Spec => []MockAgrees
<1>1. Init => MockInv
  <2> SUFFICES ASSUME Init PROVE MockInv
    OBVIOUS
  <2>1. /\ scopes = <<>> /\ Scopes = {} /\ Pending = {} /\ Innermost = Outside
        /\ mock = [store |-> Empty, saved |-> <<>>]
    BY DEF Init, Scopes, Pending, Innermost
  <2>2. Empty \in Data /\ <<>> \in Seq(Data) /\ View(Outside) = Empty
    BY EmptyIsData DEF View
  <2> HIDE DEF Data, Empty
  <2> QED
    BY <2>1, <2>2 DEF MockInv
<1>2. CtxInv /\ MockInv /\ [Next]_vars => MockInv'
  BY MockStep
<1>3. MockInv => MockAgrees
  BY DEF MockInv, MockAgrees
<1> QED
  BY <1>1, <1>2, <1>3, CtxCorrect, PTL DEF Spec
================================================================================
