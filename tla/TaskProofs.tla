------------------------------- MODULE TaskProofs -------------------------------
(***************************************************************************)
(* Proofs about the functions of Masks, Resolution and Configuration: what *)
(* a task yields, for every input that the constants allow.                *)
(***************************************************************************)
EXTENDS Masks, Resolution, Configuration, FiniteSetTheorems, Recursion

-----------------------------------------------------------------------------
(* Sequences                                                                *)

LEMMA AppendRange ==
  ASSUME NEW S, NEW s \in Seq(S), NEW e \in S
  PROVE  /\ Append(s, e) \in Seq(S)
         /\ \A x : x \in Range(Append(s, e)) <=> x \in Range(s) \/ x = e
<1>1. /\ Append(s, e) \in Seq(S) /\ DOMAIN Append(s, e) = 1..(Len(s) + 1)
      /\ DOMAIN s = 1..Len(s) /\ Len(s) \in Nat
      /\ \A i \in 1..(Len(s) + 1) : Append(s, e)[i] = IF i = Len(s) + 1 THEN e ELSE s[i]
  OBVIOUS
<1> DEFINE a == Append(s, e)
<1> HIDE DEF a
<1>2. /\ DOMAIN a = 1..(Len(s) + 1) /\ a[Len(s) + 1] = e
      /\ \A i \in 1..Len(s) : a[i] = s[i]
  BY <1>1 DEF a
<1>3. \A x : x \in Range(a) <=> x \in Range(s) \/ x = e
  <2> SUFFICES ASSUME NEW x PROVE x \in Range(a) <=> x \in Range(s) \/ x = e
    OBVIOUS
  <2>1. ASSUME x \in Range(a) PROVE x \in Range(s) \/ x = e
    <3>1. PICK i \in 1..(Len(s) + 1) : a[i] = x
      BY <1>2, <2>1 DEF Range
    <3>2. i = Len(s) + 1 \/ i \in 1..Len(s)
      BY <1>1
    <3> QED
      BY <1>1, <1>2, <3>1, <3>2 DEF Range
  <2>2. ASSUME x \in Range(s) PROVE x \in Range(a)
    <3>1. PICK i \in 1..Len(s) : s[i] = x
      BY <1>1, <2>2 DEF Range
    <3>2. i \in 1..(Len(s) + 1)
      BY <1>1
    <3> QED
      BY <1>2, <3>1, <3>2 DEF Range
  <2>3. e \in Range(a)
    <3>1. Len(s) + 1 \in 1..(Len(s) + 1)
      BY <1>1
    <3> QED
      BY <1>2, <3>1 DEF Range
  <2> QED
    BY <2>1, <2>2, <2>3
<1> QED
  BY <1>1, <1>3 DEF a

(* What is picked from a sequence: the elements at the positions, no other. *)
LEMMA PickedFact ==
  ASSUME NEW S, NEW s \in Seq(S), NEW at
  PROVE  /\ Picked(s, at) \in Seq(S)
         /\ \A x : x \in Range(Picked(s, at)) <=> \E i \in DOMAIN s \cap at : s[i] = x
<1> DEFINE n == Len(s)
           g == [i \in 1..n |-> [x \in Seq(S) |-> IF i \in at THEN Append(x, s[i]) ELSE x]]
           upTo == CHOOSE f : f = [i \in 0..n |-> IF i = 0 THEN <<>>
                     ELSE IF i \in at THEN Append(f[i - 1], s[i]) ELSE f[i - 1]]
<1>1. n \in Nat /\ DOMAIN s = 1..n /\ <<>> \in Seq(S)
  OBVIOUS
<1>2. StepsIn(g, n, Seq(S))
  BY DEF StepsIn
<1>3. PICK f : Runs(f, n, Seq(S), <<>>, g)
  <2> HIDE DEF g, n, upTo
  <2> QED
    BY <1>1, <1>2, RecursionFact
<1>4. \A i \in 1..n : f[i - 1] \in Seq(S)
  <2> HIDE DEF g, upTo
  <2>1. f \in [0..n -> Seq(S)] /\ \A i \in 1..n : i - 1 \in 0..n
    BY <1>1, <1>3 DEF Runs
  <2> HIDE DEF n
  <2> QED
    BY <2>1
<1>5. ASSUME NEW i \in 0..n
      PROVE  f[i] = IF i = 0 THEN <<>>
                     ELSE IF i \in at THEN Append(f[i - 1], s[i]) ELSE f[i - 1]
  <2>1. CASE i = 0
    BY <1>3, <2>1 DEF Runs
  <2>2. CASE i # 0
    <3>1. i \in 1..n
      BY <1>1, <2>2
    <3>2. f[i] = g[i][f[i - 1]]
      BY <1>3, <3>1 DEF Runs
    <3> QED
      BY <1>4, <2>2, <3>1, <3>2
  <2> QED
    BY <2>1, <2>2
<1>6. f = [i \in 0..n |-> IF i = 0 THEN <<>>
                     ELSE IF i \in at THEN Append(f[i - 1], s[i]) ELSE f[i - 1]]
  <2> HIDE DEF g, n
  <2>1. f = [i \in 0..n |-> f[i]]
    BY <1>3 DEF Runs
  <2> QED
    BY <1>5, <2>1
<1>7. upTo = [i \in 0..n |-> IF i = 0 THEN <<>>
                     ELSE IF i \in at THEN Append(upTo[i - 1], s[i]) ELSE upTo[i - 1]]
  <2> HIDE DEF g, n
  <2> QED
  BY <1>6
<1>8. upTo[0] = <<>>
  <2> HIDE DEF n, upTo, g
  <2> QED
    BY <1>1, <1>7
<1>9. ASSUME NEW i \in 1..n
      PROVE  /\ i \in at => upTo[i] = Append(upTo[i - 1], s[i])
             /\ i \notin at => upTo[i] = upTo[i - 1]
  <2> HIDE DEF n, upTo, g
  <2>1. i \in 0..n /\ i # 0
    BY <1>1
  <2> QED
    BY <1>7, <2>1
<1>10. Picked(s, at) = upTo[n]
  BY DEF Picked
<1> HIDE DEF n, upTo, g
<1> DEFINE Holds(i) == /\ upTo[i] \in Seq(S)
                       /\ \A x : x \in Range(upTo[i]) <=> \E j \in (1..i) \cap at : s[j] = x
           P == {i \in 0..n : Holds(i)}
<1>11. 0 \in P
  <2>1. \A x : x \notin Range(<<>>)
    BY DEF Range
  <2>2. (1..0) \cap at = {}
    OBVIOUS
  <2>3. \A x : x \in Range(upTo[0]) <=> \E j \in (1..0) \cap at : s[j] = x
    BY <1>8, <2>1, <2>2
  <2>4. Holds(0) /\ 0 \in 0..n
    BY <1>1, <1>8, <2>3
  <2> HIDE DEF Holds
  <2> QED
    BY <2>4
<1>12. ASSUME NEW i \in 1..n, i - 1 \in P PROVE i \in P
  <2>1. Holds(i - 1)
    BY <1>12
  <2>2. CASE i \notin at
    <3>1. (1..i) \cap at = (1..(i - 1)) \cap at
      BY <1>1, <2>2
    <3> QED
      BY <1>9, <2>1, <2>2, <3>1
  <2>3. CASE i \in at
    <3>1. (1..i) \cap at = ((1..(i - 1)) \cap at) \cup {i} /\ s[i] \in S
      BY <1>1, <2>3
    <3>2. /\ upTo[i] \in Seq(S)
          /\ \A x : x \in Range(upTo[i]) <=> x \in Range(upTo[i - 1]) \/ x = s[i]
      <4> DEFINE old == upTo[i - 1]
                 new == s[i]
      <4>1. old \in Seq(S) /\ new \in S /\ upTo[i] = Append(old, new)
        BY <1>9, <2>1, <2>3, <3>1
      <4> HIDE DEF old, new
      <4>2. /\ Append(old, new) \in Seq(S)
            /\ \A x : x \in Range(Append(old, new)) <=> x \in Range(old) \/ x = new
        BY <4>1, AppendRange
      <4> QED
        BY <4>1, <4>2 DEF old, new
    <3> QED
      BY <2>1, <3>1, <3>2
  <2> QED
    BY <2>2, <2>3
<1>13. n \in P
  <2> HIDE DEF P
  <2>1. \A i \in 1..n : i - 1 \in P => i \in P
    BY <1>12
  <2>2. \A i \in 0..n : i \in P
    BY <1>1, <1>11, <2>1, Reaches
  <2> QED
    BY <1>1, <2>2
<1> QED
  BY <1>1, <1>10, <1>13

-----------------------------------------------------------------------------
(* The first of a sequence that passes a test.                              *)

LEMMA MinIsSmallest ==
  ASSUME NEW S \in SUBSET Nat, S # {}
  PROVE  Min(S) \in S /\ \A j \in S : Min(S) <= j
<1>1. \E i \in S : \A j \in S : i <= j
  BY Smallest
<1> QED
  BY <1>1 DEF Min

(* A set of positions has a last one. *)
LEMMA MaxIsLargest ==
  ASSUME NEW n \in Nat, NEW S \in SUBSET (0..n), S # {}
  PROVE  Max(S) \in S /\ \A j \in S : Max(S) >= j
<1> DEFINE T == {n - i : i \in S}
<1>1. T \in SUBSET Nat /\ T # {}
  <2>1. \A i \in S : n - i \in Nat
    OBVIOUS
  <2>2. PICK i \in S : TRUE
    OBVIOUS
  <2> QED
    BY <2>1, <2>2
<1>2. PICK k \in T : \A j \in T : k <= j
  <2> HIDE DEF T
  <2> QED
    BY <1>1, Smallest
<1>3. PICK i \in S : k = n - i
  BY <1>2
<1>4. \A j \in S : i >= j
  BY <1>2, <1>3
<1> QED
  BY <1>4 DEF Max

(* The caller's id: the first filled value of the first header that has one.*)
LEMMA FirstHeaderValueFact ==
  ASSUME NEW values \in Seq(HeaderValue)
  PROVE  \/ /\ FirstHeaderValue(values) = None
            /\ \A i \in DOMAIN values : values[i] = Blank
         \/ \E i \in DOMAIN values :
              /\ FirstHeaderValue(values) = values[i] /\ values[i] # Blank
              /\ \A j \in 1..(i - 1) : values[j] = Blank
<1> DEFINE I == {i \in 1..Len(values) : values[i] # Blank}
<1>1. SelectInSeq(values, LAMBDA v : v # Blank) = IF I # {} THEN Min(I) ELSE 0
  BY DEF SelectInSeq
<1>2. DOMAIN values = 1..Len(values) /\ Len(values) \in Nat
  OBVIOUS
<1>3. CASE I = {}
  BY <1>1, <1>2, <1>3 DEF FirstHeaderValue
<1>4. CASE I # {}
  <2>1. I \in SUBSET Nat
    BY <1>2
  <2> DEFINE i == Min(I)
  <2> HIDE DEF I
  <2>2. i \in I /\ \A j \in I : i <= j
    BY <1>4, <2>1, MinIsSmallest
  <2> HIDE DEF i
  <2>3. i \in DOMAIN values /\ i # 0 /\ values[i] # Blank
    BY <1>2, <2>2 DEF I
  <2>4. \A j \in 1..(i - 1) : values[j] = Blank
    BY <1>2, <2>2, <2>3 DEF I
  <2>5. FirstHeaderValue(values) = values[i]
    BY <1>1, <1>4, <2>3 DEF FirstHeaderValue, i
  <2> QED
    BY <2>3, <2>4, <2>5
<1> QED
  BY <1>3, <1>4

-----------------------------------------------------------------------------
(* The arguments of a log call.                                             *)

LEMMA ParsedFact ==
  ASSUME NEW args \in Seq(Argument), Len(args) <= 2, NEW i \in ParseLogArgs(args).text
  PROVE  args[i] # "plain"
<1>1. Len(args) = 0 \/ Len(args) = 1 \/ Len(args) = 2
  <2>1. Len(args) \in Nat
    OBVIOUS
  <2>2. \A k \in Nat : k <= 2 => k = 0 \/ k = 1 \/ k = 2
    OBVIOUS
  <2> QED
    BY <2>1, <2>2
<1>2. CASE Len(args) = 0
  BY <1>2 DEF ParseLogArgs, Parsed
<1>3. CASE Len(args) = 1
  BY <1>1, <1>3 DEF ParseLogArgs, Parsed, MetadataFirst
<1>4. CASE Len(args) = 2
  BY <1>1, <1>4 DEF ParseLogArgs, Parsed, MetadataFirst, IsPlainObject
<1> QED
  BY <1>1, <1>2, <1>3, <1>4

(* Whatever its one or two arguments are, no call puts a plain object into  *)
(* the text of the message.                                                 *)
THEOREM ObjectsReachMaskingHolds == ResolveSpec => []ObjectsReachMasking
<1>1. Init => ObjectsReachMasking
  BY DEF Init, Idle, ObjectsReachMasking
<1>2. ASSUME Resolve PROVE ObjectsReachMasking'
  <2>1. ASSUME NEW c \in Calls, Parse(c) PROVE ObjectsReachMasking'
    <3>1. c \in Seq(Argument)
      BY CallAssumption
    <3>2. task' = [do |-> "parse", args |-> c, result |-> ParseLogArgs(c)]
      BY <2>1 DEF Parse
    <3> QED
      BY <3>1, <3>2, ParsedFact DEF ObjectsReachMasking
  <2>2. ASSUME task'.do # "parse" PROVE ObjectsReachMasking'
    BY <2>2 DEF ObjectsReachMasking
  <2> QED
    BY <1>2, <2>1, <2>2 DEF Resolve, Configure, Tag, LookUp, Correlate
<1>3. UNCHANGED task /\ ObjectsReachMasking => ObjectsReachMasking'
  BY DEF ObjectsReachMasking
<1> QED
  BY <1>1, <1>2, <1>3, PTL DEF ResolveSpec

-----------------------------------------------------------------------------
(* The id of a request.                                                     *)

LEMMA FoundHeader ==
  ASSUME NEW headers \in Requests
  PROVE  LET found == SelectInSeq(HeaderNames, LAMBDA n : FirstHeaderValue(headers[n]) # None)
             filled == {i \in DOMAIN HeaderNames : FirstHeaderValue(headers[HeaderNames[i]]) # None}
         IN  \/ found = 0 /\ filled = {}
             \/ found \in filled /\ found # 0 /\ found = Min(filled)
<1> DEFINE filled == {i \in DOMAIN HeaderNames : FirstHeaderValue(headers[HeaderNames[i]]) # None}
           found == SelectInSeq(HeaderNames, LAMBDA n : FirstHeaderValue(headers[n]) # None)
<1>1. DOMAIN HeaderNames = 1..Len(HeaderNames) /\ Len(HeaderNames) \in Nat
  BY HeaderAssumption
<1>2. filled = {i \in 1..Len(HeaderNames) : FirstHeaderValue(headers[HeaderNames[i]]) # None}
  BY <1>1
<1>3. found = IF filled # {} THEN Min(filled) ELSE 0
  BY <1>2 DEF SelectInSeq
<1>4. filled \in SUBSET Nat /\ 0 \notin filled
  BY <1>1
<1> HIDE DEF filled, found
<1>5. filled # {} => Min(filled) \in filled
  BY <1>4, MinIsSmallest
<1>6. \/ found = 0 /\ filled = {}
      \/ found \in filled /\ found # 0 /\ found = Min(filled)
  BY <1>3, <1>4, <1>5
<1> QED
  BY <1>6 DEF filled, found

LEMMA CallerIdFact ==
  ASSUME NEW headers \in Requests, NEW parse \in BOOLEAN,
         task' = [do |-> "correlate", headers |-> headers, parse |-> parse,
                  id |-> ResolveCorrelationId(headers, parse)]
  PROVE  CallerIdKept'
<1> DEFINE rank == {i \in DOMAIN HeaderNames : Range(headers[HeaderNames[i]]) \ {Blank} # {}}
           filled == {i \in DOMAIN HeaderNames : FirstHeaderValue(headers[HeaderNames[i]]) # None}
           found == SelectInSeq(HeaderNames, LAMBDA n : FirstHeaderValue(headers[n]) # None)
           trace == headers[Traceparent]
           valid == trace # <<>> /\ trace[1] \notin {Blank, Bad, Zero}
           traceId == TraceIdFromTraceparent(trace)
<1>1. ASSUME NEW i \in DOMAIN HeaderNames
      PROVE  headers[HeaderNames[i]] \in Seq(HeaderValue)
  BY HeaderAssumption DEF Range
<1>2. ASSUME NEW i \in DOMAIN HeaderNames PROVE i \in rank <=> i \in filled
  <2> DEFINE values == headers[HeaderNames[i]]
  <2>1. values \in Seq(HeaderValue)
    BY <1>1
  <2> HIDE DEF values
  <2>2. i \in rank <=> \E j \in DOMAIN values : values[j] # Blank
    BY DEF Range, values
  <2>3. \A j \in DOMAIN values : values[j] # None
    BY <2>1, HeaderAssumption
  <2>4. i \in filled <=> FirstHeaderValue(values) # None
    BY DEF values
  <2> QED
    BY <2>1, <2>2, <2>3, <2>4, FirstHeaderValueFact
<1>3. rank = filled
  BY <1>2
<1>4. \/ found = 0 /\ filled = {}
      \/ found \in filled /\ found # 0 /\ found = Min(filled)
  BY FoundHeader
<1>5. trace \in Seq(HeaderValue)
  BY HeaderAssumption
<1>6. valid <=> traceId # None
  BY <1>5, HeaderAssumption DEF TraceIdFromTraceparent
<1>7. valid => traceId = trace[1]
  BY <1>5 DEF TraceIdFromTraceparent
<1> DEFINE id == ResolveCorrelationId(headers, parse)
<1>8. id = CASE found # 0 -> FirstHeaderValue(headers[HeaderNames[found]])
             [] found = 0 /\ parse /\ traceId # None -> traceId
             [] OTHER -> Generated
  BY DEF ResolveCorrelationId
<1>9. CallerIdKept' <=>
        IF rank # {}
          THEN LET values == headers[HeaderNames[Min(rank)]]
               IN  \E i \in DOMAIN values : id = values[i] /\ \A j \in 1..i - 1 : values[j] = Blank
          ELSE id = IF parse /\ valid THEN trace[1] ELSE Generated
  BY DEF CallerIdKept
<1> HIDE DEF rank, filled, found, trace, valid, traceId, id
<1>10. CASE rank # {}
  <2> DEFINE values == headers[HeaderNames[Min(rank)]]
  <2>1. found # 0 /\ found \in DOMAIN HeaderNames /\ found = Min(rank) /\ found \in filled
    BY <1>3, <1>4, <1>10 DEF filled
  <2>2. id = FirstHeaderValue(values) /\ values \in Seq(HeaderValue)
    BY <1>1, <1>8, <2>1
  <2>3. FirstHeaderValue(values) # None
    BY <2>1 DEF filled
  <2>4. \E i \in DOMAIN values : id = values[i] /\ \A j \in 1..i - 1 : values[j] = Blank
    BY <2>2, <2>3, FirstHeaderValueFact
  <2> QED
    BY <1>9, <1>10, <2>4
<1>11. CASE rank = {}
  <2>1. found = 0
    BY <1>3, <1>4, <1>11
  <2>2. id = IF parse /\ valid THEN trace[1] ELSE Generated
    BY <1>6, <1>7, <1>8, <2>1
  <2> QED
    BY <1>9, <1>11, <2>2
<1> QED
  BY <1>10, <1>11

(* An id that came with a request is the one the request gets, for any      *)
(* headers that are looked at and any values they have.                     *)
THEOREM CallerIdKeptHolds == ResolveSpec => []CallerIdKept
<1>1. Init => CallerIdKept
  BY DEF Init, Idle, CallerIdKept
<1>2. ASSUME Resolve PROVE CallerIdKept'
  <2>1. ASSUME NEW r \in Requests, NEW p \in BOOLEAN, Correlate(r, p) PROVE CallerIdKept'
    BY <2>1, CallerIdFact DEF Correlate
  <2>2. ASSUME task'.do # "correlate" PROVE CallerIdKept'
    BY <2>2 DEF CallerIdKept
  <2> QED
    BY <1>2, <2>1, <2>2 DEF Resolve, Configure, Parse, Tag, LookUp
<1>3. UNCHANGED task /\ CallerIdKept => CallerIdKept'
  BY DEF CallerIdKept
<1> QED
  BY <1>1, <1>2, <1>3, PTL DEF ResolveSpec

-----------------------------------------------------------------------------
(* The transports of an environment.                                        *)

(* Sequences joined to one are a sequence. *)
LEMMA FlattenFact ==
  ASSUME NEW S, NEW seqs \in Seq(Seq(S))
  PROVE  FlattenSeq(seqs) \in Seq(S)
<1> DEFINE n == Len(seqs)
           m == n - 1
           g == [i \in 1..m |-> [x \in Seq(S) |-> x \o seqs[i + 1]]]
           flatten == CHOOSE f : f = [i \in 1..n |-> IF i = 1 THEN seqs[i] ELSE f[i - 1] \o seqs[i]]
<1>1. n \in Nat /\ DOMAIN seqs = 1..n /\ \A i \in 1..n : seqs[i] \in Seq(S)
  OBVIOUS
<1>2. CASE n = 0
  <2>1. FlattenSeq(seqs) = seqs
    BY <1>2 DEF FlattenSeq
  <2>2. seqs = <<>>
    BY <1>2
  <2> QED
    BY <2>1, <2>2
<1>3. CASE n # 0
  <2>1. m \in Nat /\ 1 \in 1..n /\ n \in 1..n /\ seqs[1] \in Seq(S)
    BY <1>1, <1>3
  <2>2. StepsIn(g, m, Seq(S))
    <3> SUFFICES ASSUME NEW x \in Seq(S), NEW i \in 1..m PROVE g[i][x] \in Seq(S)
      BY DEF StepsIn
    <3>1. seqs[i + 1] \in Seq(S)
      BY <1>1
    <3>2. x \o seqs[i + 1] \in Seq(S)
      BY <3>1
    <3> QED
      BY <3>2
  <2>3. PICK f : Runs(f, m, Seq(S), seqs[1], g)
    <3> HIDE DEF g, m, n, flatten
    <3> QED
      BY <2>1, <2>2, RecursionFact
  <2> DEFINE h == [i \in 1..n |-> f[i - 1]]
  <2>4. ASSUME NEW i \in 1..n PROVE h[i] = IF i = 1 THEN seqs[i] ELSE h[i - 1] \o seqs[i]
    <3>1. CASE i = 1
      BY <1>1, <2>3, <3>1 DEF Runs
    <3>2. CASE i # 1
      <4>1. i - 1 \in 1..m /\ i - 1 \in 1..n /\ (i - 1) + 1 = i /\ (i - 1) - 1 \in 0..m
        BY <1>1, <3>2
      <4>2. f[i - 1] = g[i - 1][f[(i - 1) - 1]] /\ f[(i - 1) - 1] \in Seq(S)
        BY <2>3, <4>1 DEF Runs
      <4>3. f[i - 1] = f[(i - 1) - 1] \o seqs[i]
        BY <4>1, <4>2
      <4> QED
        BY <3>2, <4>1, <4>3
    <3> QED
      BY <3>1, <3>2
  <2>5. h = [i \in 1..n |-> IF i = 1 THEN seqs[i] ELSE h[i - 1] \o seqs[i]]
    <3> HIDE DEF n, g, flatten
    <3>1. h = [i \in 1..n |-> h[i]]
      OBVIOUS
    <3> HIDE DEF h
    <3> QED
      BY <2>4, <3>1
  <2>6. flatten = [i \in 1..n |-> IF i = 1 THEN seqs[i] ELSE flatten[i - 1] \o seqs[i]]
    <3> HIDE DEF g, n, h
    <3> QED
      BY <2>5
  <2>7. FlattenSeq(seqs) = flatten[n]
    BY <1>3 DEF FlattenSeq
  <2> HIDE DEF flatten, g, h
  <2>8. ASSUME NEW i \in 1..n PROVE flatten[i] = IF i = 1 THEN seqs[i] ELSE flatten[i - 1] \o seqs[i]
    <3> HIDE DEF n
    <3> QED
      BY <2>6
  <2> DEFINE P == {i \in 0..m : flatten[i + 1] \in Seq(S)}
  <2>9. 0 \in P
    BY <2>1, <2>8
  <2>10. ASSUME NEW i \in 1..m, i - 1 \in P PROVE i \in P
    <3>1. i + 1 \in 1..n /\ i + 1 # 1 /\ (i + 1) - 1 = i /\ (i - 1) + 1 = i
      BY <1>1
    <3>2. flatten[i] \in Seq(S) /\ seqs[i + 1] \in Seq(S)
      BY <1>1, <2>10, <3>1
    <3>3. flatten[i + 1] = flatten[i] \o seqs[i + 1]
      BY <2>8, <3>1
    <3>4. flatten[i] \o seqs[i + 1] \in Seq(S)
      <4> DEFINE a == flatten[i]
                 b == seqs[i + 1]
      <4>1. a \in Seq(S) /\ b \in Seq(S)
        BY <3>2
      <4> HIDE DEF a, b
      <4>2. a \o b \in Seq(S)
        BY <4>1
      <4> QED
        BY <4>2 DEF a, b
    <3>5. flatten[i + 1] \in Seq(S)
      BY ONLY <3>3, <3>4
    <3>6. i \in 0..m
      BY <1>1
    <3> QED
      BY <3>5, <3>6
  <2>11. m \in P
    <3> HIDE DEF P, m, n
    <3>1. \A i \in 1..m : i - 1 \in P => i \in P
      BY <2>10
    <3>2. \A i \in 0..m : i \in P
      BY <2>1, <2>9, <3>1, Reaches
    <3> QED
      BY <2>1, <3>2
  <2> QED
    BY <1>1, <2>7, <2>11
<1> QED
  BY <1>2, <1>3

(* The transports of a list of entries for an environment. *)
LEMMA ForEnvFact ==
  ASSUME NEW entries \in Seq(RouteEntry), NEW env
  PROVE  \A t : t \in Range(ResolveTransportsForEnv(entries, env)) <=>
               \E e \in Range(entries) : e.transport = t /\ env \in e.envs
<1> DEFINE at == {i \in DOMAIN entries : env \in entries[i].envs}
           kept == Picked(entries, at)
<1>1. \A x : x \in Range(kept) <=> \E i \in DOMAIN entries \cap at : entries[i] = x
  <2> HIDE DEF at
  <2> QED
    BY PickedFact
<1>2. \A x : x \in Range(kept) <=> x \in Range(entries) /\ env \in x.envs
  BY <1>1 DEF Range
<1>3. ResolveTransportsForEnv(entries, env) = [i \in DOMAIN kept |-> kept[i].transport]
  BY DEF ResolveTransportsForEnv
<1> HIDE DEF kept
<1>4. \A t : t \in Range(ResolveTransportsForEnv(entries, env)) <=>
              \E x \in Range(kept) : x.transport = t
  BY <1>3 DEF Range
<1> QED
  BY <1>2, <1>4

(* The transports a list of names stands for. *)
LEMMA NamedFact ==
  ASSUME NEW names \in Seq(STRING), NEW list
  PROVE  LET known == Picked(names, {i \in DOMAIN names : names[i] \in DOMAIN list})
         IN  \A t : t \in Range([i \in DOMAIN known |-> list[known[i]]]) <=>
                   \E n \in Range(names) \cap DOMAIN list : list[n] = t
<1> DEFINE at == {i \in DOMAIN names : names[i] \in DOMAIN list}
           known == Picked(names, at)
<1>1. \A x : x \in Range(known) <=> \E i \in DOMAIN names \cap at : names[i] = x
  <2> HIDE DEF at
  <2> QED
    BY PickedFact
<1>2. \A x : x \in Range(known) <=> x \in Range(names) \cap DOMAIN list
  BY <1>1 DEF Range
<1> HIDE DEF known
<1>3. \A t : t \in Range([i \in DOMAIN known |-> list[known[i]]]) <=>
              \E x \in Range(known) : list[x] = t
  BY DEF Range
<1>4. \A t : t \in Range([i \in DOMAIN known |-> list[known[i]]]) <=>
              \E n \in Range(names) \cap DOMAIN list : list[n] = t
  BY <1>2, <1>3
<1> QED
  BY <1>4 DEF known

(* Each transport of the entries is under its name, or gave way to a later. *)
LEMMA CollectedFact ==
  ASSUME NEW E \in Seq(RouteEntry), NEW i \in DOMAIN E
  PROVE  \/ E[i].transport \in Range(Collected(E))
         \/ \E j \in DOMAIN E : j > i /\ TransportName[E[j].transport] = TransportName[E[i].transport]
<1> DEFINE name == TransportName[E[i].transport]
           J == {j \in DOMAIN E : TransportName[E[j].transport] = name}
           k == Max(J)
<1>1. Len(E) \in Nat /\ DOMAIN E = 1..Len(E)
  OBVIOUS
<1>2. k \in J /\ \A j \in J : k >= j
  <2>1. J \in SUBSET (0..Len(E)) /\ J # {}
    BY <1>1
  <2> HIDE DEF J
  <2> QED
    BY <1>1, <2>1, MaxIsLargest
<1>3. name \in DOMAIN Collected(E) /\ Collected(E)[name] = E[k].transport
  BY DEF Collected
<1> HIDE DEF k
<1>4. CASE k = i
  BY <1>3, <1>4 DEF Range
<1>5. CASE k # i
  <2>1. k \in DOMAIN E /\ k > i /\ TransportName[E[k].transport] = name
    BY <1>1, <1>2, <1>5
  <2> QED
    BY <2>1
<1> QED
  BY <1>4, <1>5

LEMMA RoutesFact ==
  ASSUME NEW config \in Configs, NEW env,
         task' = [do |-> "configure", config |-> config, env |-> env,
                  result |-> ResolveTransports(config, env)]
  PROVE  RoutesFitEnvironment'
<1> DEFINE result == ResolveTransports(config, env)
           routes == result.routes
           pool   == result.pool
<1>1. RoutesFitEnvironment' <=>
        /\ \A i \in DOMAIN routes, t \in DOMAIN TransportName :
             t \in Range(routes[i].to) <=>
               CASE UsesList(config) ->
                      /\ env \in DOMAIN config.env
                      /\ \E n \in Range(config.env[env]) \cap DOMAIN config.list :
                           config.list[n] = t
                 [] ~UsesList(config) /\ config.routes # None ->
                      \E e \in Range(config.routes[i].entries) :
                        e.transport = t /\ env \in e.envs
                 [] OTHER -> t = Console
        /\ ~UsesList(config) /\ config.routes # None =>
             \A i \in DOMAIN Entries(config) :
               LET t == Entries(config)[i].transport
               IN  \/ t \in Range(pool)
                   \/ \E j \in DOMAIN Entries(config) :
                        j > i /\ TransportName[Entries(config)[j].transport] = TransportName[t]
  BY DEF RoutesFitEnvironment
<1>2. CASE UsesList(config)
  <2> DEFINE names == IF env \in DOMAIN config.env THEN config.env[env] ELSE <<>>
             known == Picked(names, {i \in DOMAIN names : names[i] \in DOMAIN config.list})
             to    == [i \in DOMAIN known |-> config.list[known[i]]]
  <2>1. routes = <<[route |-> "default", to |-> to]>>
    BY <1>2 DEF ResolveTransports
  <2>2. names \in Seq(STRING)
    <3>1. config.env \in [DOMAIN config.env -> Seq(STRING)]
      BY TransportsAssumption
    <3>2. <<>> \in Seq(STRING)
      OBVIOUS
    <3> QED
      BY <3>1, <3>2
  <2>3. \A t : t \in Range(to) <=> \E n \in Range(names) \cap DOMAIN config.list : config.list[n] = t
    <3> HIDE DEF names
    <3> QED
      BY <2>2, NamedFact
  <2>4. DOMAIN routes = {1} /\ routes[1].to = to
    <3> HIDE DEF to
    <3> QED
      BY <2>1
  <2>5. Range(<<>>) = {}
    BY DEF Range
  <2>6. \A t : t \in Range(to) <=>
              /\ env \in DOMAIN config.env
              /\ \E n \in Range(config.env[env]) \cap DOMAIN config.list : config.list[n] = t
    <3> HIDE DEF known, to
    <3> QED
      BY <2>3, <2>5
  <2> HIDE DEF to, routes, pool, result
  <2> QED
    BY <1>1, <1>2, <2>4, <2>6
<1>3. CASE ~UsesList(config) /\ config.routes # None
  <2> DEFINE E == Entries(config)
  <2>1. config.routes \in Seq([route : STRING, entries : Seq(RouteEntry)])
    BY <1>3, TransportsAssumption
  <2>2. /\ routes = [i \in DOMAIN config.routes |->
                     [route |-> config.routes[i].route,
                      to |-> ResolveTransportsForEnv(config.routes[i].entries, env)]]
        /\ pool = Collected(E)
    BY <1>3 DEF ResolveTransports
  <2>3. E \in Seq(RouteEntry)
    <3> DEFINE lists == [i \in DOMAIN config.routes |-> config.routes[i].entries]
    <3> DEFINE R == [route : STRING, entries : Seq(RouteEntry)]
               rs == config.routes
    <3>1. lists \in Seq(Seq(RouteEntry))
      <4>1. rs \in Seq(R)
        BY <2>1
      <4>2. DOMAIN rs = 1..Len(rs) /\ Len(rs) \in Nat /\ \A i \in DOMAIN rs : rs[i] \in R
        <5> HIDE DEF R, rs
        <5> QED
          BY <4>1
      <4>3. \A i \in DOMAIN rs : rs[i].entries \in Seq(RouteEntry)
        BY <4>2
      <4>4. lists \in [1..Len(rs) -> Seq(RouteEntry)]
        <5> HIDE DEF R
        <5> QED
          BY <4>2, <4>3
      <4> HIDE DEF lists, rs
      <4> QED
        BY <4>2, <4>4
    <3>2. FlattenSeq(lists) \in Seq(RouteEntry)
      <4> HIDE DEF lists
      <4> QED
        BY <3>1, FlattenFact
    <3> QED
      BY <3>2 DEF Entries
  <2> HIDE DEF E, routes, pool, result
  <2>4. \A i \in DOMAIN E :
          \/ E[i].transport \in Range(pool)
          \/ \E j \in DOMAIN E : j > i /\ TransportName[E[j].transport] = TransportName[E[i].transport]
    BY <2>2, <2>3, CollectedFact
  <2>5. ASSUME NEW i \in DOMAIN routes, NEW t
        PROVE  t \in Range(routes[i].to) <=>
                 \E e \in Range(config.routes[i].entries) : e.transport = t /\ env \in e.envs
    <3>1. i \in DOMAIN config.routes /\ config.routes[i].entries \in Seq(RouteEntry)
      <4> DEFINE R == [route : STRING, entries : Seq(RouteEntry)]
                 rs == config.routes
      <4>1. rs \in Seq(R) /\ i \in DOMAIN rs
        BY <2>1, <2>2
      <4>2. rs[i] \in R
        <5> HIDE DEF R, rs
        <5> QED
          BY <4>1
      <4> QED
        BY <4>1, <4>2
    <3>2. routes[i].to = ResolveTransportsForEnv(config.routes[i].entries, env)
      BY <2>2, <3>1
    <3> QED
      BY <3>1, <3>2, ForEnvFact
  <2> QED
    BY <1>1, <1>3, <2>4, <2>5 DEF E
<1>4. CASE ~UsesList(config) /\ config.routes = None
  <2>1. routes = <<[route |-> "default", to |-> <<Console>>]>>
    BY <1>4 DEF ResolveTransports
  <2>2. DOMAIN routes = {1} /\ routes[1].to = <<Console>>
    BY <2>1
  <2>3. \A t : t \in Range(<<Console>>) <=> t = Console
    BY DEF Range
  <2> HIDE DEF routes, pool, result
  <2> QED
    BY <1>1, <1>4, <2>2, <2>3
<1> QED
  BY <1>2, <1>3, <1>4

(* For every configuration and environment, an entry's default transports   *)
(* are those configured for the environment, and none is out of reach.      *)
THEOREM RoutesFitEnvironmentHolds == ResolveSpec => []RoutesFitEnvironment
<1>1. Init => RoutesFitEnvironment
  BY DEF Init, Idle, RoutesFitEnvironment
<1>2. ASSUME Resolve PROVE RoutesFitEnvironment'
  <2>1. ASSUME NEW c \in Configs, NEW e \in Environments, Configure(c, e)
        PROVE  RoutesFitEnvironment'
    BY <2>1, RoutesFact DEF Configure
  <2>2. ASSUME task'.do # "configure" PROVE RoutesFitEnvironment'
    BY <2>2 DEF RoutesFitEnvironment
  <2> QED
    BY <1>2, <2>1, <2>2 DEF Resolve, Parse, Tag, LookUp, Correlate
<1>3. UNCHANGED task /\ RoutesFitEnvironment => RoutesFitEnvironment'
  BY DEF RoutesFitEnvironment
<1> QED
  BY <1>1, <1>2, <1>3, PTL DEF ResolveSpec

-----------------------------------------------------------------------------
(* The calendar.                                                            *)

LEMMA MonthStep ==
  ASSUME NEW y \in Nat
  PROVE  /\ \A m \in 1..12 : DaysBefore(y, m) \in Int
         /\ \A m \in 1..11 : DaysBefore(y, m + 1) = DaysBefore(y, m) + DaysIn(y, m)
<1> DEFINE g == [k \in 1..12 |-> [x \in Int |-> x + DaysIn(y, k)]]
           through == CHOOSE f : f = [k \in 0..12 |-> IF k = 0 THEN 0 ELSE f[k - 1] + DaysIn(y, k)]
           years == 365 * y + ((y - 1) \div 4) - ((y - 1) \div 100) + ((y - 1) \div 400)
<1>1. \A k \in 1..12 : DaysIn(y, k) \in Nat
  BY DEF DaysIn
<1>2. StepsIn(g, 12, Int)
  <2> SUFFICES ASSUME NEW x \in Int, NEW k \in 1..12 PROVE g[k][x] \in Int
    BY DEF StepsIn
  <2>1. DaysIn(y, k) \in Nat
    BY <1>1
  <2> HIDE DEF through, years
  <2>2. g[k][x] = x + DaysIn(y, k)
    OBVIOUS
  <2> QED
    BY <2>1, <2>2
<1>3. PICK f : Runs(f, 12, Int, 0, g)
  <2> DEFINE n == 12
             c == 0
  <2>1. n \in Nat /\ c \in Int
    OBVIOUS
  <2>2. StepsIn(g, n, Int)
    BY <1>2
  <2> HIDE DEF g, n, c, through, years
  <2>3. \E f : Runs(f, n, Int, c, g)
    BY <2>1, <2>2, RecursionFact
  <2> QED
    BY <2>3 DEF n, c
<1>4. ASSUME NEW k \in 0..12 PROVE f[k] = IF k = 0 THEN 0 ELSE f[k - 1] + DaysIn(y, k)
  <2>1. CASE k = 0
    BY <1>3, <2>1 DEF Runs
  <2>2. CASE k # 0
    <3>1. k \in 1..12 /\ k - 1 \in 0..12
      BY <2>2
    <3>2. f[k] = g[k][f[k - 1]] /\ f[k - 1] \in Int
      BY <1>3, <3>1 DEF Runs
    <3> QED
      BY <2>2, <3>1, <3>2
  <2> QED
    BY <2>1, <2>2
<1>5. f = [k \in 0..12 |-> IF k = 0 THEN 0 ELSE f[k - 1] + DaysIn(y, k)]
  <2> HIDE DEF g, through
  <2>1. f = [k \in 0..12 |-> f[k]]
    BY <1>3 DEF Runs
  <2> QED
    BY <1>4, <2>1
<1>6. through = [k \in 0..12 |-> IF k = 0 THEN 0 ELSE through[k - 1] + DaysIn(y, k)]
  <2> HIDE DEF g
  <2> QED
    BY <1>5
<1>7. \A m \in 1..12 : DaysBefore(y, m) = years + through[m - 1]
  BY DEF DaysBefore
<1>8. years \in Int
  OBVIOUS
<1> HIDE DEF g, through, years
<1>9. ASSUME NEW k \in 0..12 PROVE through[k] = IF k = 0 THEN 0 ELSE through[k - 1] + DaysIn(y, k)
  BY <1>6
<1> DEFINE P == {k \in 0..12 : through[k] \in Int}
<1>10. 0 \in P
  BY <1>9
<1>11. ASSUME NEW k \in 1..12, k - 1 \in P PROVE k \in P
  <2>1. through[k] = through[k - 1] + DaysIn(y, k)
    BY <1>9
  <2> QED
    BY <1>1, <1>11, <2>1
<1>12. \A k \in 0..12 : through[k] \in Int
  <2> HIDE DEF P
  <2>1. \A k \in 1..12 : k - 1 \in P => k \in P
    BY <1>11
  <2>2. \A k \in 0..12 : k \in P
    BY <1>10, <2>1, Reaches
  <2> QED
    BY <2>2 DEF P
<1>13. ASSUME NEW m \in 1..12 PROVE DaysBefore(y, m) \in Int
  BY <1>7, <1>8, <1>12
<1>14. ASSUME NEW m \in 1..11 PROVE DaysBefore(y, m + 1) = DaysBefore(y, m) + DaysIn(y, m)
  <2>1. m \in 1..12 /\ m + 1 \in 1..12 /\ (m + 1) - 1 = m /\ m \in 0..12 /\ m # 0 /\ m - 1 \in 0..12
    OBVIOUS
  <2>2. /\ DaysBefore(y, m + 1) = years + through[m]
        /\ DaysBefore(y, m) = years + through[m - 1]
    BY <1>7, <2>1
  <2>3. through[m] = through[m - 1] + DaysIn(y, m)
    BY <1>9, <2>1
  <2> QED
    BY <1>1, <1>8, <1>12, <2>1, <2>2, <2>3
<1> QED
  BY <1>13, <1>14

(* A month begins after all the days of an earlier one. *)
LEMMA MonthsInOrder ==
  ASSUME NEW y \in Nat, NEW m \in 1..12, NEW n \in 1..12, m < n
  PROVE  DaysBefore(y, n) >= DaysBefore(y, m) + DaysIn(y, m)
<1>1. \A k \in 1..12 : DaysIn(y, k) \in Nat /\ DaysBefore(y, k) \in Int
  BY MonthStep DEF DaysIn
<1> DEFINE last == n - m - 1
           P == {k \in 0..last : DaysBefore(y, m + 1 + k) >= DaysBefore(y, m) + DaysIn(y, m)}
<1>2. last \in Nat /\ m + 1 + last = n
  OBVIOUS
<1>3. 0 \in P
  <2>1. m \in 1..11 /\ m + 1 + 0 = m + 1
    OBVIOUS
  <2> QED
    BY <1>1, <1>2, <2>1, MonthStep
<1>4. ASSUME NEW k \in 1..last, k - 1 \in P PROVE k \in P
  <2> DEFINE o == m + k
  <2>1. o \in 1..11 /\ m + 1 + k = o + 1 /\ m + 1 + (k - 1) = o
    BY <1>2
  <2>2. DaysBefore(y, o + 1) = DaysBefore(y, o) + DaysIn(y, o)
    BY <2>1, MonthStep
  <2>3. DaysBefore(y, o) >= DaysBefore(y, m) + DaysIn(y, m)
    BY <1>4, <2>1
  <2> HIDE DEF o
  <2>4. DaysBefore(y, m + 1 + k) >= DaysBefore(y, m) + DaysIn(y, m)
    BY <1>1, <2>1, <2>2, <2>3
  <2> QED
    BY <1>2, <2>4
<1>5. last \in P
  <2> HIDE DEF last, P
  <2>1. \A k \in 1..last : k - 1 \in P => k \in P
    BY <1>4
  <2>2. \A k \in 0..last : k \in P
    BY <1>2, <1>3, <2>1, Reaches
  <2> QED
    BY <1>2, <2>2
<1> QED
  BY <1>2, <1>5

(* A day that a month lacks is the first of the next one, and no day of the *)
(* year that is as late in it as the date is comes before the anniversary.  *)
LEMMA AnniversaryFact ==
  ASSUME NEW at \in Days, NEW years \in Int, years > 0
  PROVE  DayNumber(at.y + years, at.m, at.d) = Anniversary(at, years)
<1> DEFINE y == at.y + years
           m == at.m
           d == at.d
           later == {date \in (1..12) \X (1..31) :
                       /\ date[2] <= DaysIn(y, date[1])
                       /\ date[1] > m \/ (date[1] = m /\ date[2] >= d)}
           numbers == {DayNumber(y, date[1], date[2]) : date \in later}
           day == DayNumber(y, m, d)
<1>1. /\ y \in Nat /\ m \in 1..12 /\ d \in 1..31
      /\ d <= DaysIn(at.y, m)
  BY RetentionAssumption
<1>2. \A k \in 1..12 : DaysIn(y, k) \in Nat /\ DaysBefore(y, k) \in Int
  BY <1>1, MonthStep DEF DaysIn
<1>3. d <= DaysIn(y, m) \/ (m = 2 /\ d = 29 /\ DaysIn(y, m) = 28)
  BY <1>1 DEF DaysIn
<1>4. day = DaysBefore(y, m) + d
  BY DEF DayNumber
<1>5. Anniversary(at, years) = Min(numbers)
  BY DEF Anniversary
<1> HIDE DEF y, m, d, day, numbers
<1>6. day \in numbers
  <2>1. CASE d <= DaysIn(y, m)
    <3>1. <<m, d>> \in later
      BY <1>1, <2>1
    <3> QED
      BY <3>1 DEF numbers, day
  <2>2. CASE m = 2 /\ d = 29 /\ DaysIn(y, m) = 28
    <3>1. DaysIn(y, 3) = 31
      BY DEF DaysIn
    <3>2. <<3, 1>> \in later
      BY <1>1, <2>2, <3>1
    <3>3. DaysBefore(y, 3) = DaysBefore(y, 2) + 28
      BY <1>1, <2>2, MonthStep
    <3>4. DayNumber(y, 3, 1) = day
      BY <1>2, <1>4, <2>2, <3>3 DEF DayNumber
    <3> QED
      BY <3>2, <3>4 DEF numbers
  <2> QED
    BY <1>3, <2>1, <2>2
<1>7. ASSUME NEW date \in later PROVE DayNumber(y, date[1], date[2]) >= day
  <2>1. /\ date[1] \in 1..12 /\ date[2] \in 1..31 /\ date[2] <= DaysIn(y, date[1])
        /\ date[1] > m \/ (date[1] = m /\ date[2] >= d)
    OBVIOUS
  <2>2. DayNumber(y, date[1], date[2]) = DaysBefore(y, date[1]) + date[2]
    BY DEF DayNumber
  <2>3. CASE date[1] = m /\ date[2] >= d
    BY <1>1, <1>2, <1>4, <2>1, <2>2, <2>3
  <2>4. CASE date[1] > m
    <3>1. DaysBefore(y, date[1]) >= DaysBefore(y, m) + DaysIn(y, m)
      BY <1>1, <2>1, <2>4, MonthsInOrder
    <3>2. d <= DaysIn(y, m) + 1
      BY <1>1, <1>2, <1>3
    <3> QED
      BY <1>1, <1>2, <1>4, <2>1, <2>2, <3>1, <3>2
  <2> QED
    BY <2>1, <2>3, <2>4
<1>8. \A x \in numbers : x \in Int /\ day <= x
  <2>1. \A date \in later : DayNumber(y, date[1], date[2]) \in Int
    BY <1>2 DEF DayNumber
  <2>2. day \in Int
    BY <1>1, <1>2, <1>4
  <2> HIDE DEF later
  <2> QED
    BY <1>7, <2>1, <2>2 DEF numbers
<1>9. Min(numbers) = day
  BY <1>6, <1>8 DEF Min
<1> QED
  BY <1>5, <1>9 DEF y, m, d, day

-----------------------------------------------------------------------------
(* The retention of a logger.                                               *)

Bound == [retention : DOMAIN Registry \cup {None, Object}, rules : Int \cup {NoYears}]

LEMMA TaggedFact ==
  ASSUME NEW b \in Bound, NEW call \in Tagging
  PROVE  Tagged(b, call) \in Bound
<1>1. CASE call \in [by : {"name"}, policy : PolicyNames, emitRules : BOOLEAN]
  <2>1. call.by = "name" /\ call.policy \in PolicyNames
    BY <1>1
  <2>2. CASE call.policy \notin DOMAIN Registry
    BY <2>1, <2>2 DEF Tagged
  <2>3. CASE call.policy \in DOMAIN Registry
    <3>1. Registry[call.policy] \in Int \cup {NoYears}
      BY <2>3, RetentionAssumption
    <3>2. Tagged(b, call) = [retention |-> call.policy,
                             rules |-> IF call.emitRules THEN Registry[call.policy] ELSE b.rules]
      BY <2>1, <2>3 DEF Tagged
    <3>3. b.rules \in Int \cup {NoYears}
      BY DEF Bound
    <3> QED
      BY <2>3, <3>1, <3>2, <3>3 DEF Bound
  <2> QED
    BY <2>2, <2>3
<1>2. CASE call \in [by : {"inline"}, years : InlineYears]
  <2>1. call.by = "inline" /\ call.years \in Int \cup {NoYears}
    BY <1>2, RetentionAssumption
  <2>2. Tagged(b, call) = [b EXCEPT !.rules = call.years]
    BY <2>1 DEF Tagged
  <2> QED
    BY <2>1, <2>2 DEF Bound
<1>3. CASE call \in [by : {"meta"}]
  <2>1. Tagged(b, call) = [b EXCEPT !.retention = Object]
    BY <1>3 DEF Tagged
  <2> QED
    BY <2>1 DEF Bound
<1> QED
  BY <1>1, <1>2, <1>3 DEF Tagging

LEMMA BindingsFact ==
  ASSUME NEW calls \in Taggings
  PROVE  Bindings(calls) \in Bound
<1> DEFINE n == Len(calls)
           g == [i \in 1..n |-> [x \in Bound |-> Tagged(x, calls[i])]]
           upTo == CHOOSE f : f = [i \in 0..n |-> IF i = 0 THEN Untagged ELSE Tagged(f[i - 1], calls[i])]
<1>1. n \in Nat /\ \A i \in 1..n : calls[i] \in Tagging
  <2>1. calls \in Seq(Tagging)
    BY RetentionAssumption
  <2> QED
    BY <2>1
<1>2. Untagged \in Bound
  BY DEF Untagged, Bound
<1>3. StepsIn(g, n, Bound)
  <2> SUFFICES ASSUME NEW x \in Bound, NEW i \in 1..n PROVE g[i][x] \in Bound
    BY DEF StepsIn
  <2>1. Tagged(x, calls[i]) \in Bound
    BY <1>1, TaggedFact
  <2> QED
    BY <2>1
<1>4. PICK f : Runs(f, n, Bound, Untagged, g)
  <2> HIDE DEF g, n, upTo
  <2> QED
    BY <1>1, <1>2, <1>3, RecursionFact
<1>5. ASSUME NEW i \in 0..n PROVE f[i] = IF i = 0 THEN Untagged ELSE Tagged(f[i - 1], calls[i])
  <2>1. CASE i = 0
    BY <1>4, <2>1 DEF Runs
  <2>2. CASE i # 0
    <3>1. i \in 1..n /\ i - 1 \in 0..n
      BY <1>1, <2>2
    <3>2. f[i] = g[i][f[i - 1]] /\ f[i - 1] \in Bound
      BY <1>4, <3>1 DEF Runs
    <3> QED
      BY <2>2, <3>1, <3>2
  <2> QED
    BY <2>1, <2>2
<1>6. f = [i \in 0..n |-> IF i = 0 THEN Untagged ELSE Tagged(f[i - 1], calls[i])]
  <2> HIDE DEF g, n, upTo
  <2>1. f = [i \in 0..n |-> f[i]]
    BY <1>4 DEF Runs
  <2> QED
    BY <1>5, <2>1
<1>7. upTo = [i \in 0..n |-> IF i = 0 THEN Untagged ELSE Tagged(upTo[i - 1], calls[i])]
  <2> HIDE DEF g, n
  <2> QED
    BY <1>6
<1>8. Bindings(calls) = upTo[n]
  BY DEF Bindings
<1> HIDE DEF n, g, upTo
<1>9. ASSUME NEW i \in 0..n PROVE upTo[i] = IF i = 0 THEN Untagged ELSE Tagged(upTo[i - 1], calls[i])
  BY <1>7
<1> DEFINE P == {i \in 0..n : upTo[i] \in Bound}
<1>10. 0 \in P
  BY <1>1, <1>2, <1>9
<1>11. ASSUME NEW i \in 1..n, i - 1 \in P PROVE i \in P
  <2>1. i \in 0..n /\ i # 0 /\ upTo[i - 1] \in Bound /\ calls[i] \in Tagging
    BY <1>1, <1>11
  <2>2. Tagged(upTo[i - 1], calls[i]) \in Bound
    BY <2>1, TaggedFact
  <2> QED
    BY <1>9, <2>1, <2>2
<1>12. n \in P
  <2> HIDE DEF P
  <2>1. \A i \in 1..n : i - 1 \in P => i \in P
    BY <1>11
  <2>2. \A i \in 0..n : i \in P
    BY <1>1, <1>10, <2>1, Reaches
  <2> QED
    BY <1>1, <2>2
<1> QED
  BY <1>8, <1>12

LEMMA WindowFact ==
  ASSUME NEW at \in Days, NEW years \in Int \cup {NoYears}
  PROVE  RetentionUntil(at, years) =
           IF years = NoYears \/ years <= 0 THEN None ELSE Anniversary(at, years)
<1>1. CASE years = NoYears \/ years <= 0
  BY <1>1 DEF RetentionUntil
<1>2. CASE ~(years = NoYears \/ years <= 0)
  <2>1. years \in Int /\ years > 0
    BY <1>2
  <2>2. DayNumber(at.y + years, at.m, at.d) = Anniversary(at, years)
    BY <2>1, AnniversaryFact
  <2> QED
    BY <1>2, <2>2 DEF RetentionUntil
<1> QED
  BY <1>1, <1>2

(* For every registry, every sequence of taggings and every day, the date   *)
(* on an entry and the date getRetentionUntil() gives are the first on      *)
(* which the years of the policy have passed.                               *)
THEOREM WindowMatchesLabelHolds == ResolveSpec => []WindowMatchesLabel
<1>1. Init => WindowMatchesLabel
  BY DEF Init, Idle, WindowMatchesLabel
<1>2. ASSUME Resolve PROVE WindowMatchesLabel'
  <2>1. ASSUME NEW t \in Taggings, NEW d \in Days, Tag(t, d) PROVE WindowMatchesLabel'
    <3> DEFINE b == Bindings(t)
               years == ResolveRetentionYears(b)
    <3>1. task' = [do |-> "tag", calls |-> t, at |-> d, bindings |-> b,
                   until |-> RetentionUntil(d, years)]
      BY <2>1 DEF Tag
    <3>2. b \in Bound
      BY BindingsFact
    <3> HIDE DEF b
    <3>3. years = (IF b.retention \in DOMAIN Registry THEN Registry[b.retention] ELSE b.rules)
      BY DEF ResolveRetentionYears
    <3>4. years \in Int \cup {NoYears}
      BY <3>2, <3>3, RetentionAssumption DEF Bound
    <3> HIDE DEF years
    <3> QED
      BY <3>1, <3>3, <3>4, WindowFact DEF WindowMatchesLabel
  <2>2. ASSUME NEW n \in PolicyNames, NEW d \in Days, LookUp(n, d) PROVE WindowMatchesLabel'
    <3>1. task' = [do |-> "lookUp", policy |-> n, at |-> d, until |-> GetRetentionUntil(n, d)]
      BY <2>2 DEF LookUp
    <3>2. n \in DOMAIN Registry => /\ GetRetentionUntil(n, d) = RetentionUntil(d, Registry[n])
                                   /\ Registry[n] \in Int \cup {NoYears}
      BY RetentionAssumption DEF GetRetentionUntil
    <3> QED
      BY <3>1, <3>2, WindowFact DEF WindowMatchesLabel
  <2>3. ASSUME task'.do \notin {"tag", "lookUp"} PROVE WindowMatchesLabel'
    BY <2>3 DEF WindowMatchesLabel
  <2> QED
    BY <1>2, <2>1, <2>2, <2>3 DEF Resolve, Configure, Parse, Correlate
<1>3. UNCHANGED task /\ WindowMatchesLabel => WindowMatchesLabel'
  BY DEF WindowMatchesLabel
<1> QED
  BY <1>1, <1>2, <1>3, PTL DEF ResolveSpec

-----------------------------------------------------------------------------
(* Truncation.                                                              *)

(* The bytes of a text are the sum of the widths of its characters. *)
LEMMA SumFact ==
  ASSUME NEW text \in Seq(Nat)
  PROVE  \E sum \in [0..Len(text) -> Nat] :
           /\ sum[0] = 0 /\ Bytes(text) = sum[Len(text)]
           /\ \A i \in 1..Len(text) : sum[i] = sum[i - 1] + text[i]
<1> DEFINE n == Len(text)
           g == [i \in 1..n |-> [x \in Nat |-> x + text[i]]]
           upTo == CHOOSE f : f = [i \in 0..n |-> IF i = 0 THEN 0 ELSE f[i - 1] + text[i]]
<1>1. n \in Nat /\ \A i \in 1..n : text[i] \in Nat
  OBVIOUS
<1>2. StepsIn(g, n, Nat)
  <2> SUFFICES ASSUME NEW x \in Nat, NEW i \in 1..n PROVE g[i][x] \in Nat
    BY DEF StepsIn
  <2>1. text[i] \in Nat
    BY <1>1
  <2> QED
    BY <2>1
<1>3. PICK f : Runs(f, n, Nat, 0, g)
  <2> HIDE DEF g, n, upTo
  <2> DEFINE c == 0
  <2>1. c \in Nat
    OBVIOUS
  <2> HIDE DEF c
  <2>2. \E f : Runs(f, n, Nat, c, g)
    BY <1>1, <1>2, <2>1, RecursionFact
  <2> QED
    BY <2>2 DEF c
<1>4. ASSUME NEW i \in 0..n PROVE f[i] = IF i = 0 THEN 0 ELSE f[i - 1] + text[i]
  <2>1. CASE i = 0
    BY <1>3, <2>1 DEF Runs
  <2>2. CASE i # 0
    <3>1. i \in 1..n /\ i - 1 \in 0..n
      BY <1>1, <2>2
    <3>2. f[i] = g[i][f[i - 1]] /\ f[i - 1] \in Nat
      BY <1>3, <3>1 DEF Runs
    <3> QED
      BY <2>2, <3>1, <3>2
  <2> QED
    BY <2>1, <2>2
<1>5. f = [i \in 0..n |-> IF i = 0 THEN 0 ELSE f[i - 1] + text[i]]
  <2> HIDE DEF g, n, upTo
  <2>1. f = [i \in 0..n |-> f[i]]
    BY <1>3 DEF Runs
  <2> QED
    BY <1>4, <2>1
<1>6. upTo = [i \in 0..n |-> IF i = 0 THEN 0 ELSE upTo[i - 1] + text[i]]
  <2> HIDE DEF g, n
  <2> QED
    BY <1>5
<1>7. Bytes(text) = upTo[n]
  BY DEF Bytes
<1> HIDE DEF n, g, upTo
<1>8. ASSUME NEW i \in 0..n PROVE upTo[i] = IF i = 0 THEN 0 ELSE upTo[i - 1] + text[i]
  BY <1>6
<1> DEFINE P == {i \in 0..n : upTo[i] \in Nat}
<1>9. 0 \in P
  BY <1>1, <1>8
<1>10. ASSUME NEW i \in 1..n, i - 1 \in P PROVE i \in P
  <2>1. i \in 0..n /\ i # 0 /\ upTo[i - 1] \in Nat /\ text[i] \in Nat
    BY <1>1, <1>10
  <2> QED
    BY <1>8, <2>1
<1>11. \A i \in 0..n : upTo[i] \in Nat
  <2> HIDE DEF P
  <2>1. \A i \in 1..n : i - 1 \in P => i \in P
    BY <1>10
  <2>2. \A i \in 0..n : i \in P
    BY <1>1, <1>9, <2>1, Reaches
  <2> QED
    BY <2>2 DEF P
<1>12. upTo \in [0..n -> Nat]
  BY <1>6, <1>11
<1>13. upTo[0] = 0 /\ \A i \in 1..n : upTo[i] = upTo[i - 1] + text[i]
  BY <1>1, <1>8
<1> QED
  BY <1>7, <1>12, <1>13 DEF n

(* The bytes of the beginnings of a text. *)
LEMMA PrefixFact ==
  ASSUME NEW text \in Seq(Nat)
  PROVE  /\ \A k \in 0..Len(text) : Bytes(SubSeq(text, 1, k)) \in 0..Bytes(text)
         /\ Bytes(SubSeq(text, 1, 0)) = 0 /\ Bytes(text) \in Nat
<1> DEFINE n == Len(text)
<1>1. PICK sum \in [0..n -> Nat] :
        /\ sum[0] = 0 /\ Bytes(text) = sum[n]
        /\ \A i \in 1..n : sum[i] = sum[i - 1] + text[i]
  BY SumFact
<1>2. n \in Nat /\ \A i \in 1..n : text[i] \in Nat
  OBVIOUS
<1>3. ASSUME NEW k \in 0..n PROVE Bytes(SubSeq(text, 1, k)) = sum[k]
  <2> DEFINE p == SubSeq(text, 1, k)
  <2>1. p \in Seq(Nat) /\ Len(p) = k /\ \A i \in 1..k : p[i] = text[i]
    BY <1>2
  <2> HIDE DEF p
  <2>2. PICK part \in [0..k -> Nat] :
          /\ part[0] = 0 /\ Bytes(p) = part[k]
          /\ \A i \in 1..k : part[i] = part[i - 1] + p[i]
    BY <2>1, SumFact
  <2>3. k \in Nat /\ k \in 0..k /\ \A i \in 1..k : i \in 1..n
    BY <1>2
  <2>4. /\ \A i \in 1..k : part[i] = part[i - 1] + text[i]
        /\ \A i \in 1..k : sum[i] = sum[i - 1] + text[i]
    BY <1>1, <2>1, <2>2, <2>3
  <2>5. \A i \in 0..k : part[i] = sum[i]
    <3> DEFINE P == {i \in 0..k : part[i] = sum[i]}
    <3>1. 0 \in P
      BY <1>1, <2>2, <2>3
    <3>2. \A i \in 1..k : i - 1 \in P => i \in P
      BY <2>3, <2>4
    <3> HIDE DEF P
    <3>3. \A i \in 0..k : i \in P
      BY <2>3, <3>1, <3>2, Reaches
    <3> QED
      BY <3>3 DEF P
  <2> QED
    BY <2>2, <2>3, <2>5 DEF p
<1> DEFINE P == {i \in 0..n : \A k \in 0..i : sum[k] <= sum[i]}
<1>4. 0 \in P
  BY <1>1, <1>2
<1>5. ASSUME NEW i \in 1..n, i - 1 \in P PROVE i \in P
  <2>1. sum[i] = sum[i - 1] + text[i] /\ text[i] \in Nat /\ sum[i] \in Nat /\ sum[i - 1] \in Nat
    BY <1>1, <1>2
  <2>2. ASSUME NEW k \in 0..i PROVE sum[k] <= sum[i]
    <3>1. CASE k = i
      BY <2>1, <3>1
    <3>2. CASE k # i
      <4>1. k \in 0..(i - 1) /\ k \in 0..n
        BY <1>2, <3>2
      <4>2. sum[k] <= sum[i - 1] /\ sum[k] \in Nat
        BY <1>5, <4>1
      <4> QED
        BY <2>1, <4>1, <4>2
    <3> QED
      BY <3>1, <3>2
  <2> QED
    BY <1>2, <2>2
<1>6. n \in P
  <2> HIDE DEF P, n
  <2>1. \A i \in 1..n : i - 1 \in P => i \in P
    BY <1>5
  <2>2. \A i \in 0..n : i \in P
    BY <1>2, <1>4, <2>1, Reaches
  <2> QED
    BY <1>2, <2>2
<1>7. \A k \in 0..n : sum[k] \in 0..sum[n]
  BY <1>1, <1>2, <1>6
<1>8. 0 \in 0..n /\ sum[n] \in Nat
  BY <1>1, <1>2
<1> HIDE DEF n
<1>9. /\ \A k \in 0..n : Bytes(SubSeq(text, 1, k)) \in 0..Bytes(text)
      /\ Bytes(SubSeq(text, 1, 0)) = 0 /\ Bytes(text) \in Nat
  BY <1>1, <1>3, <1>7, <1>8
<1> QED
  BY <1>9 DEF n

LEMMA TruncateFact ==
  ASSUME NEW text \in Seq(Nat), NEW maxLen \in Nat,
         task' = [do |-> "truncate", text |-> text, maxLen |-> maxLen,
                  result |-> TruncateAt(text, maxLen)]
  PROVE  TruncatesBetweenCharacters'
<1> DEFINE n == Len(text)
           prefix(k) == Bytes(SubSeq(text, 1, k))
           result == TruncateAt(text, maxLen)
           kept == result.kept
           end == IF maxLen < 3 THEN 0 ELSE maxLen - 3
           fits == {b \in Boundaries(text) : b <= end}
<1>1. TruncatesBetweenCharacters' <=>
        /\ \E k \in 0..n : kept = prefix(k)
        /\ result.cut /\ maxLen >= 3 => kept + 3 <= maxLen
        /\ \A k \in 1..n : prefix(k) > kept => prefix(k) + 3 > maxLen
  BY DEF TruncatesBetweenCharacters
<1>2. n \in Nat /\ SubSeq(text, 1, n) = text
  OBVIOUS
<1>3. /\ \A k \in 0..n : prefix(k) \in 0..Bytes(text)
      /\ prefix(0) = 0 /\ Bytes(text) \in Nat
  BY PrefixFact
<1>4. Boundaries(text) = {prefix(k) : k \in 0..n}
  BY DEF Boundaries
<1>5. CASE Bytes(text) <= maxLen
  <2>1. kept = Bytes(text) /\ ~result.cut
    BY <1>5 DEF TruncateAt
  <2>2. kept = prefix(n)
    BY <1>2, <2>1
  <2> HIDE DEF n, prefix, result, kept
  <2>3. \A k \in 1..n : ~(prefix(k) > kept)
    BY <1>2, <1>3, <2>1
  <2>4. n \in 0..n
    BY <1>2
  <2> QED
    BY <1>1, <2>1, <2>2, <2>3, <2>4
<1>6. CASE ~(Bytes(text) <= maxLen)
  <2>1. kept = Max(fits) /\ result.cut
    BY <1>6 DEF TruncateAt
  <2>2. end \in Nat
    OBVIOUS
  <2> HIDE DEF n, prefix, result, kept, end
  <2>3. fits \in SUBSET (0..end) /\ 0 \in fits
    <3>1. 0 \in 0..n
      BY <1>2
    <3>2. \A b \in Boundaries(text) : b \in Nat
      BY <1>3, <1>4
    <3>3. 0 \in Boundaries(text)
      BY <1>3, <1>4, <3>1
    <3> QED
      BY <2>2, <3>2, <3>3
  <2>4. kept \in fits /\ \A b \in fits : kept >= b
    <3> HIDE DEF fits
    <3> QED
      BY <2>1, <2>2, <2>3, MaxIsLargest
  <2>5. kept \in Nat /\ kept <= end
    BY <2>2, <2>3, <2>4
  <2>6. \E k \in 0..n : kept = prefix(k)
    BY <1>4, <2>4
  <2>7. maxLen >= 3 => kept + 3 <= maxLen
    BY <2>5 DEF end
  <2>8. ASSUME NEW k \in 1..n, prefix(k) > kept PROVE prefix(k) + 3 > maxLen
    <3>1. k \in 0..n /\ prefix(k) \in Nat
      BY <1>2, <1>3
    <3>2. ~(prefix(k) <= end)
      BY <1>4, <2>4, <2>5, <2>8, <3>1
    <3> QED
      BY <3>1, <3>2 DEF end
  <2> QED
    BY <1>1, <2>1, <2>6, <2>7, <2>8
<1> QED
  BY <1>5, <1>6

(* Texts of characters of any width, cut to any length.                     *)
THEOREM TruncatesBetweenCharactersHolds == TransformSpec => []TruncatesBetweenCharacters
<1>1. Init => TruncatesBetweenCharacters
  BY DEF Init, Idle, TruncatesBetweenCharacters
<1>2. ASSUME Transform PROVE TruncatesBetweenCharacters'
  <2>1. ASSUME NEW t \in Texts, NEW m \in MaxLengths, Truncate(t, m)
        PROVE  TruncatesBetweenCharacters'
    BY <2>1, TruncateFact, InputAssumption DEF Truncate
  <2>2. ASSUME task'.do # "truncate" PROVE TruncatesBetweenCharacters'
    BY <2>2 DEF TruncatesBetweenCharacters
  <2> QED
    BY <1>2, <2>1, <2>2 DEF Transform, Mask, Judge
<1>3. UNCHANGED task /\ TruncatesBetweenCharacters => TruncatesBetweenCharacters'
  BY DEF TruncatesBetweenCharacters
<1> QED
  BY <1>1, <1>2, <1>3, PTL DEF TransformSpec

-----------------------------------------------------------------------------
(* The declarative mask.                                                    *)

LEMMA ConcatFact ==
  ASSUME NEW S, NEW p \in Seq(S), NEW q \in Seq(S)
  PROVE  /\ p \o q \in Seq(S) /\ Len(p \o q) = Len(p) + Len(q)
         /\ \A i \in 1..Len(p) + Len(q) :
              (p \o q)[i] = IF i <= Len(p) THEN p[i] ELSE q[i - Len(p)]
OBVIOUS

LEMMA PartFact ==
  ASSUME NEW S, NEW s \in Seq(S), NEW m \in Nat, NEW n \in Nat,
         1 <= m, m <= n + 1, n <= Len(s)
  PROVE  /\ SubSeq(s, m, n) \in Seq(S) /\ Len(SubSeq(s, m, n)) = n - m + 1
         /\ \A i \in 1..n - m + 1 : SubSeq(s, m, n)[i] = s[m + i - 1]
OBVIOUS

(* Of n units, those between ks kept at the start and ke kept at the end    *)
(* have start units before them and end after them.                         *)
Between(n, ks, ke, start, end) ==
  \A r \in 1..n : r \in ks + 1..n - ke <=> r - 1 >= start /\ n - r >= end

LEMMA KeepFact ==
  ASSUME NEW n \in Nat, NEW start \in Nat, NEW end \in Nat
  PROVE  \E ks, ke \in Nat : /\ ks = AtMost(start, n) /\ ke = AtMost(end, n - ks)
                             /\ ks + ke <= n /\ Between(n, ks, ke, start, end)
<1>1. PICK ks \in Nat : ks = AtMost(start, n)
  BY DEF AtMost
<1>2. ks <= n
  BY <1>1 DEF AtMost
<1>3. PICK ke \in Nat : ke = AtMost(end, n - ks)
  BY <1>2 DEF AtMost
<1>4. ks + ke <= n /\ Between(n, ks, ke, start, end)
  BY <1>1, <1>2, <1>3 DEF AtMost, Between
<1> QED
  BY <1>1, <1>3, <1>4

LEMMA HeadUntilFact ==
  ASSUME NEW s \in Seq(Chars), NEW delim
  PROVE  HeadUntil(s, delim) \in 0..Len(s)
<1> DEFINE fits == {j \in DOMAIN s : j + Len(delim) - 1 <= Len(s)}
           at == {Len(s)} \cup
                   {j - 1 : j \in {i \in fits : SubSeq(s, i, i + Len(delim) - 1) = delim}}
<1>1. Len(s) \in Nat /\ DOMAIN s = 1..Len(s)
  OBVIOUS
<1>2. at \in SUBSET (0..Len(s)) /\ Len(s) \in at
  BY <1>1
<1>3. HeadUntil(s, delim) = IF delim = <<>> THEN 0 ELSE Min(at)
  BY DEF HeadUntil
<1> HIDE DEF at
<1>4. Min(at) \in at
  BY <1>1, <1>2, MinIsSmallest
<1>5. Min(at) \in 0..Len(s) /\ 0 \in 0..Len(s)
  <2>1. \A i \in at : i \in 0..Len(s)
    BY <1>2
  <2> QED
    BY <1>1, <1>4, <2>1
<1>6. CASE delim = <<>>
  BY <1>3, <1>5, <1>6
<1>7. CASE delim # <<>>
  BY <1>3, <1>5, <1>7
<1> QED
  BY <1>6, <1>7

LEMMA SplitFact ==
  ASSUME NEW s \in Seq(Chars), NEW keepAfter
  PROVE  SplitKeptTail(s, keepAfter) \in 0..Len(s)
<1> DEFINE at == {Len(s)} \cup {HeadUntil(s, d) : d \in keepAfter \ {<<>>}}
<1>1. Len(s) \in Nat
  OBVIOUS
<1>2. at \in SUBSET (0..Len(s)) /\ Len(s) \in at
  BY <1>1, HeadUntilFact
<1>3. SplitKeptTail(s, keepAfter) = Min(at)
  BY DEF SplitKeptTail
<1> HIDE DEF at
<1>4. Min(at) \in at
  BY <1>1, <1>2, MinIsSmallest
<1> QED
  BY <1>2, <1>3, <1>4

(* A run of mask characters between a beginning and an end of a sequence. *)
Joined(s, n, ks, body, ke) ==
  SubSeq(s, 1, ks) \o [i \in 1..body |-> MaskChar] \o SubSeq(s, n - ke + 1, n)
JoinedOf(x, S, s, n, ks, body, ke) ==
  /\ x \in Seq(S) /\ Len(x) = ks + body + ke
  /\ \A i \in 1..ks + body + ke :
       x[i] = IF i <= ks THEN s[i]
              ELSE IF i <= ks + body THEN MaskChar ELSE s[i - ks - body + n - ke]

LEMMA JoinFact ==
  ASSUME NEW S, MaskChar \in S, NEW s \in Seq(S), NEW n \in Nat, n = Len(s),
         NEW ks \in Nat, NEW ke \in Nat, NEW body \in Nat, ks <= n, ke <= n
  PROVE  JoinedOf(Joined(s, n, ks, body, ke), S, s, n, ks, body, ke)
<1> DEFINE p == SubSeq(s, 1, ks)
           m == [i \in 1..body |-> MaskChar]
           q == SubSeq(s, n - ke + 1, n)
           pm == p \o m
           x == pm \o q
<1>1. x = pm \o q
  OBVIOUS
<1>2. ks \in 0..n /\ ke \in 0..n
  OBVIOUS
<1>3. /\ p \in Seq(S) /\ Len(p) = ks
      /\ \A i \in 1..ks : p[i] = s[i]
  <2>1. /\ p \in Seq(S) /\ Len(p) = ks - 1 + 1
        /\ \A i \in 1..ks - 1 + 1 : p[i] = s[1 + i - 1]
    BY <1>2, PartFact
  <2>2. ks - 1 + 1 = ks /\ \A i \in 1..ks : 1 + i - 1 = i
    BY <1>2
  <2> HIDE DEF p
  <2> QED
    BY <2>1, <2>2
<1>5. /\ m \in Seq(S) /\ Len(m) = body
      /\ \A i \in 1..body : m[i] = MaskChar
  BY <1>2
<1>6. /\ q \in Seq(S) /\ Len(q) = ke
      /\ \A i \in 1..ke : q[i] = s[n - ke + i]
  <2>1. n - ke + 1 \in Nat /\ 1 <= n - ke + 1 /\ n - ke + 1 <= n + 1
    BY <1>2
  <2>2. /\ q \in Seq(S) /\ Len(q) = n - (n - ke + 1) + 1
        /\ \A i \in 1..n - (n - ke + 1) + 1 : q[i] = s[n - ke + 1 + i - 1]
    BY <1>2, <2>1, PartFact
  <2>3. n - (n - ke + 1) + 1 = ke /\ \A i \in 1..ke : n - ke + 1 + i - 1 = n - ke + i
    BY <1>2
  <2> HIDE DEF q
  <2> QED
    BY <2>2, <2>3
<1> HIDE DEF p, m, q
<1>7. /\ pm \in Seq(S) /\ Len(pm) = ks + body
      /\ \A i \in 1..ks + body : pm[i] = IF i <= ks THEN p[i] ELSE m[i - ks]
  <2>1. p \in Seq(S) /\ m \in Seq(S) /\ Len(p) = ks /\ Len(m) = body
    BY <1>3, <1>5
  <2>2. /\ pm \in Seq(S) /\ Len(pm) = Len(p) + Len(m)
        /\ \A i \in 1..Len(p) + Len(m) : pm[i] = IF i <= Len(p) THEN p[i] ELSE m[i - Len(p)]
    BY <2>1, ConcatFact, Zenon
  <2> HIDE DEF pm
  <2> QED
    BY <2>1, <2>2
<1> HIDE DEF pm
<1>8. /\ pm \o q \in Seq(S) /\ Len(pm \o q) = ks + body + ke
      /\ \A i \in 1..ks + body + ke :
           (pm \o q)[i] = IF i <= ks + body THEN pm[i] ELSE q[i - (ks + body)]
  <2> DEFINE k == ks + body
  <2>1. pm \in Seq(S) /\ q \in Seq(S) /\ Len(pm) = k /\ Len(q) = ke
    BY <1>6, <1>7
  <2>2. /\ pm \o q \in Seq(S) /\ Len(pm \o q) = Len(pm) + Len(q)
        /\ \A i \in 1..Len(pm) + Len(q) :
             (pm \o q)[i] = IF i <= Len(pm) THEN pm[i] ELSE q[i - Len(pm)]
    BY <2>1, ConcatFact, Zenon
  <2> DEFINE pmq == pm \o q
  <2>3. /\ pmq \in Seq(S) /\ Len(pmq) = k + ke
        /\ \A i \in 1..k + ke : pmq[i] = IF i <= k THEN pm[i] ELSE q[i - k]
    BY <2>1, <2>2, Zenon
  <2> QED
    BY <2>3
<1> HIDE DEF x
<1>9. ASSUME NEW i \in 1..ks + body + ke
      PROVE  x[i] = IF i <= ks THEN s[i]
                    ELSE IF i <= ks + body THEN MaskChar ELSE s[i - ks - body + n - ke]
  <2>1. CASE i <= ks
    <3>1. i \in 1..ks /\ i <= ks + body /\ i \in 1..ks + body
      BY <1>2, <2>1
    <3> QED
      BY <1>1, <1>3, <1>7, <1>8, <2>1, <3>1
  <2>2. CASE ~(i <= ks) /\ i <= ks + body
    <3>1. i \in 1..ks + body /\ i - ks \in 1..body
      BY <1>2, <2>2
    <3> QED
      BY <1>1, <1>5, <1>7, <1>8, <2>2, <3>1
  <2>3. CASE ~(i <= ks) /\ ~(i <= ks + body)
    <3>1. i - (ks + body) \in 1..ke /\ n - ke + (i - (ks + body)) = i - ks - body + n - ke
      BY <1>2, <2>3
    <3> QED
      BY <1>1, <1>6, <1>8, <2>3, <3>1
  <2> QED
    BY <2>1, <2>2, <2>3
<1> QED
  BY <1>1, <1>8, <1>9 DEF x, pm, p, m, q, Joined, JoinedOf

(* What a value is to be masked to, given what is hidden of it. *)
MaskedAs(s, hidden, spec) ==
  LET plain  == [i \in DOMAIN s |-> IF i \in hidden THEN MaskChar ELSE s[i]]
      capped == spec.scope = "all" /\ ~spec.preserveLength /\ Cardinality(hidden) > Cap
  IN  IF capped THEN SubSeq(plain, 1, Min(hidden) - 1 + Cap)
                       \o SubSeq(plain, Max(hidden) + 1, Len(s))
      ELSE plain

(* All but what is kept at the ends of a head is hidden. *)
HidesBetween(s, h, spec, ks, ke) == Hidden(s, h, spec) = ks + 1..h - ke

(* Of all the characters of a head, the hidden ones are an interval. *)
LEMMA HiddenOfAll ==
  ASSUME NEW s, NEW h \in Nat, NEW spec \in MaskSpec, spec.scope = "all",
         NEW ks \in Nat, NEW ke \in Nat,
         Between(h, ks, ke, spec.unmaskStart, spec.unmaskEnd)
  PROVE  HidesBetween(s, h, spec, ks, ke)
<1> DEFINE units == Counted(s, h, spec)
<1>1. units = 1..h
  BY DEF Counted
<1>2. ASSUME NEW i \in 1..h
      PROVE  /\ Cardinality({j \in units : j < i}) = i - 1
             /\ Cardinality({j \in units : j > i}) = h - i
  <2>1. {j \in units : j < i} = 1..i - 1 /\ {j \in units : j > i} = i + 1..h
    BY <1>1
  <2>2. Cardinality(1..i - 1) = i - 1
    <3>1. 1 \in Int /\ i - 1 \in Int /\ i \in Nat /\ i >= 1
      OBVIOUS
    <3>2. Cardinality(1..i - 1) = IF 1 > i - 1 THEN 0 ELSE i - 1 - 1 + 1
      BY <3>1, FS_Interval
    <3> QED
      BY <3>1, <3>2
  <2>3. Cardinality(i + 1..h) = h - i
    <3>1. i + 1 \in Int /\ h \in Int /\ i \in Nat /\ i <= h
      OBVIOUS
    <3>2. Cardinality(i + 1..h) = IF i + 1 > h THEN 0 ELSE h - (i + 1) + 1
      BY <3>1, FS_Interval
    <3> QED
      BY <3>1, <3>2
  <2> QED
    BY <2>1, <2>2, <2>3
<1>3. Hidden(s, h, spec) = {i \in 1..h : /\ Cardinality({j \in units : j < i}) >= spec.unmaskStart
                                         /\ Cardinality({j \in units : j > i}) >= spec.unmaskEnd}
  BY <1>1 DEF Hidden
<1> HIDE DEF units
<1>4. Hidden(s, h, spec) = {i \in 1..h : i - 1 >= spec.unmaskStart /\ h - i >= spec.unmaskEnd}
  BY <1>2, <1>3
<1> QED
  BY <1>4 DEF Between, HidesBetween

(* A head so joined, and the rest of the value after it. *)
CappedOf(y, S, s, n, h, ks, body, ke) ==
  /\ y \in Seq(S) /\ Len(y) = ks + body + ke + n - h
  /\ \A i \in 1..ks + body + ke + n - h :
       y[i] = IF i <= ks THEN s[i] ELSE IF i <= ks + body THEN MaskChar
              ELSE s[i + h - ks - ke - body]

LEMMA CappedFact ==
  ASSUME NEW S, MaskChar \in S, NEW s \in Seq(S), NEW n \in Nat, n = Len(s),
         NEW h \in Nat, h <= n, NEW ks \in Nat, NEW ke \in Nat, NEW body \in Nat,
         ks + ke + body <= h
  PROVE  CappedOf(Joined(SubSeq(s, 1, h), h, ks, body, ke) \o SubSeq(s, h + 1, n),
                  S, s, n, h, ks, body, ke)
<1> DEFINE head == SubSeq(s, 1, h)
           tail == SubSeq(s, h + 1, n)
           x == Joined(head, h, ks, body, ke)
<1>1. head \in Seq(S) /\ Len(head) = h /\ \A i \in 1..h : head[i] = s[i]
  <2>1. /\ head \in Seq(S) /\ Len(head) = h - 1 + 1
        /\ \A i \in 1..h - 1 + 1 : head[i] = s[1 + i - 1]
    BY PartFact
  <2> HIDE DEF head
  <2>2. h - 1 + 1 = h /\ \A i \in 1..h : 1 + i - 1 = i
    OBVIOUS
  <2> QED
    BY <2>1, <2>2
<1>2. tail \in Seq(S) /\ Len(tail) = n - h /\ \A i \in 1..n - h : tail[i] = s[h + i]
  <2>1. /\ tail \in Seq(S) /\ Len(tail) = n - (h + 1) + 1
        /\ \A i \in 1..n - (h + 1) + 1 : tail[i] = s[h + 1 + i - 1]
    <3>1. h + 1 \in Nat /\ 1 <= h + 1 /\ h + 1 <= n + 1
      OBVIOUS
    <3> QED
      BY <3>1, PartFact
  <2> HIDE DEF tail
  <2>2. n - (h + 1) + 1 = n - h /\ \A i \in 1..n - h : h + 1 + i - 1 = h + i
    OBVIOUS
  <2> QED
    BY <2>1, <2>2
<1>3. /\ x \in Seq(S) /\ Len(x) = ks + body + ke
      /\ \A i \in 1..ks + body + ke :
           x[i] = IF i <= ks THEN head[i]
                  ELSE IF i <= ks + body THEN MaskChar ELSE head[i - ks - body + h - ke]
  <2> HIDE DEF head, tail
  <2>1. ks <= h /\ ke <= h
    OBVIOUS
  <2>2. head \in Seq(S) /\ h = Len(head) /\ MaskChar \in S
    BY <1>1
  <2> HIDE DEF x
  <2>3. JoinedOf(Joined(head, h, ks, body, ke), S, head, h, ks, body, ke)
    BY <2>1, <2>2, JoinFact
  <2> QED
    BY <2>3 DEF x, JoinedOf
<1> HIDE DEF head, tail, x
<1>4. /\ x \o tail \in Seq(S) /\ Len(x \o tail) = ks + body + ke + (n - h)
      /\ \A i \in 1..ks + body + ke + (n - h) :
           (x \o tail)[i] = IF i <= ks + body + ke THEN x[i] ELSE tail[i - (ks + body + ke)]
  <2>1. x \in Seq(S) /\ tail \in Seq(S) /\ Len(x) = ks + body + ke /\ Len(tail) = n - h
    BY <1>2, <1>3
  <2>2. /\ x \o tail \in Seq(S) /\ Len(x \o tail) = Len(x) + Len(tail)
        /\ \A i \in 1..Len(x) + Len(tail) :
             (x \o tail)[i] = IF i <= Len(x) THEN x[i] ELSE tail[i - Len(x)]
    BY <2>1, ConcatFact
  <2> QED
    BY ONLY <2>1, <2>2
<1>5. ASSUME NEW i \in 1..ks + body + ke + n - h
      PROVE  (x \o tail)[i] = IF i <= ks THEN s[i] ELSE IF i <= ks + body THEN MaskChar
                              ELSE s[i + h - ks - ke - body]
  <2>1. i \in 1..ks + body + ke + (n - h)
    OBVIOUS
  <2>2. CASE i <= ks
    <3>1. i <= ks + body + ke /\ i \in 1..ks + body + ke /\ i \in 1..h
      BY <2>2
    <3> QED
      BY <1>1, <1>3, <1>4, <2>1, <2>2, <3>1
  <2>3. CASE ~(i <= ks) /\ i <= ks + body
    <3>1. i <= ks + body + ke /\ i \in 1..ks + body + ke
      BY <2>3
    <3> QED
      BY <1>3, <1>4, <2>1, <2>3, <3>1
  <2>4. CASE ~(i <= ks + body) /\ i <= ks + body + ke
    <3>1. /\ ~(i <= ks) /\ i \in 1..ks + body + ke /\ i - ks - body + h - ke \in 1..h
          /\ i - ks - body + h - ke = i + h - ks - ke - body
      BY <2>4
    <3> QED
      BY <1>1, <1>3, <1>4, <2>1, <2>4, <3>1
  <2>5. CASE ~(i <= ks + body + ke)
    <3>1. /\ ~(i <= ks) /\ ~(i <= ks + body) /\ i - (ks + body + ke) \in 1..n - h
          /\ h + (i - (ks + body + ke)) = i + h - ks - ke - body
      BY <2>5
    <3> QED
      BY <1>2, <1>4, <2>1, <2>5, <3>1
  <2> QED
    BY <2>2, <2>3, <2>4, <2>5
<1>6. ks + body + ke + n - h = ks + body + ke + (n - h)
  OBVIOUS
<1> QED
  BY <1>4, <1>5, <1>6 DEF tail, head, x, CappedOf

(* The kept ends, and between them a run of the hidden length or of the cap. *)
LEMMA MaskedAllFact ==
  ASSUME NEW s \in Seq(Chars), NEW h \in Nat, h <= Len(s),
         NEW spec \in MaskSpec, spec.scope = "all"
  PROVE  MaskHead(s, h, spec) = MaskedAs(s, Hidden(s, h, spec), spec)
<1> DEFINE C == Chars \cup {MaskChar}
           start == spec.unmaskStart
           end == spec.unmaskEnd
           preserve == spec.preserveLength
<1>1. PICK n \in Nat : n = Len(s)
  OBVIOUS
<1>2. start \in Nat /\ end \in Nat /\ preserve \in BOOLEAN /\ Cap \in Nat
  BY CharAssumption DEF MaskSpec
<1>3. PICK ks, ke \in Nat : /\ ks = AtMost(start, h) /\ ke = AtMost(end, h - ks)
                            /\ ks + ke <= h /\ Between(h, ks, ke, start, end)
  BY <1>2, KeepFact
<1>6. PICK body \in Nat : body = IF preserve THEN h - ks - ke ELSE AtMost(h - ks - ke, Cap)
  <2> HIDE DEF start, end, preserve
  <2>1. h - ks - ke \in Nat
    BY <1>3
  <2>2. AtMost(h - ks - ke, Cap) \in Nat
    BY <1>2, <2>1 DEF AtMost
  <2>3. CASE preserve
    BY <2>1, <2>3
  <2>4. CASE ~preserve
    BY <2>2, <2>4
  <2> QED
    BY <2>3, <2>4
<1> DEFINE capped == ~preserve /\ h - ks - ke > Cap
           y == Joined(SubSeq(s, 1, h), h, ks, body, ke) \o SubSeq(s, h + 1, n)
<1>7. (capped => body = Cap) /\ (~capped => body = h - ks - ke) /\ ks + ke + body <= h
  <2>1. CASE preserve
    BY <1>3, <1>6, <2>1
  <2>2. CASE ~preserve
    <3>1. PICK m \in Nat : m = h - ks - ke
      BY <1>3
    <3>2. body = AtMost(m, Cap)
      BY <1>6, <2>2, <3>1
    <3>3. IF m < Cap THEN body = m ELSE body = Cap
      BY <3>2 DEF AtMost
    <3>4. capped <=> m > Cap
      BY <2>2, <3>1
    <3>5. Cap \in Nat
      BY <1>2
    <3> HIDE DEF capped
    <3>6. (capped => body = Cap) /\ (~capped => body = m) /\ body <= m
      BY <3>3, <3>4, <3>5
    <3> QED
      BY <1>3, <3>1, <3>6
  <2> QED
    BY <2>1, <2>2
<1>8. SubSeq(s, 1, h) \in Seq(Chars) /\ Len(SubSeq(s, 1, h)) = h
  OBVIOUS
<1>9. MaskHead(s, h, spec) = y
  <2>1. MaskHead(s, h, spec) = MaskChars(SubSeq(s, 1, h), start, end, preserve)
                                 \o SubSeq(s, h + 1, n)
    BY <1>1 DEF MaskHead
  <2>2. MaskChars(SubSeq(s, 1, h), start, end, preserve) =
          Joined(SubSeq(s, 1, h), h, ks, body, ke)
    <3> DEFINE head == SubSeq(s, 1, h)
    <3>1. Len(head) = h
      BY <1>8
    <3> HIDE DEF head, start, end, preserve
    <3>2. MaskChars(head, start, end, preserve) = Joined(head, h, ks, body, ke)
      BY <1>3, <1>6, <3>1, Zenon DEF MaskChars, Joined
    <3> QED
      BY <3>2 DEF head
  <2> QED
    BY <2>1, <2>2
<1>10. CappedOf(y, C, s, n, h, ks, body, ke)
  <2>1. s \in Seq(C) /\ MaskChar \in C
    OBVIOUS
  <2>2. h <= n /\ n = Len(s)
    BY <1>1
  <2> HIDE DEF C
  <2> QED
    BY <1>7, <2>1, <2>2, CappedFact
<1>11. Hidden(s, h, spec) = ks + 1..h - ke
  <2>1. Between(h, ks, ke, spec.unmaskStart, spec.unmaskEnd)
    BY <1>3
  <2> HIDE DEF start, end, preserve, C, y, capped
  <2>2. HidesBetween(s, h, spec, ks, ke)
    BY <2>1, HiddenOfAll
  <2> QED
    BY <2>2 DEF HidesBetween
<1>5. h <= n /\ ks + ke <= h /\ Cap \in Nat
  BY <1>1, <1>2, <1>3
<1>4. capped => body = Cap /\ ks + ke + Cap < h
  BY <1>2, <1>3, <1>7
<1> HIDE DEF start, end, preserve, C, y
<1> DEFINE plain == [i \in DOMAIN s |-> IF i \in ks + 1..h - ke THEN MaskChar ELSE s[i]]
           z == IF capped THEN SubSeq(plain, 1, ks + Cap) \o SubSeq(plain, h - ke + 1, n)
                ELSE plain
<1>12. MaskedAs(s, Hidden(s, h, spec), spec) = z
  <2>1. Cardinality(ks + 1..h - ke) = h - ks - ke
    <3>1. ks + 1 \in Int /\ h - ke \in Int
      OBVIOUS
    <3>2. Cardinality(ks + 1..h - ke) = IF ks + 1 > h - ke THEN 0 ELSE h - ke - (ks + 1) + 1
      BY <3>1, FS_Interval
    <3> DEFINE size == Cardinality(ks + 1..h - ke)
    <3> HIDE DEF size, capped, plain, z
    <3>3. size = IF ks + 1 > h - ke THEN 0 ELSE h - ke - (ks + 1) + 1
      BY <3>2 DEF size
    <3>4. size = h - ks - ke
      <4>1. CASE ks + 1 > h - ke
        <5>1. h - ks - ke = 0
          BY <1>5, <4>1
        <5> QED
          BY <3>3, <4>1, <5>1
      <4>2. CASE ~(ks + 1 > h - ke)
        <5>1. h - ke - (ks + 1) + 1 = h - ks - ke
          BY <1>5
        <5> QED
          BY <3>3, <4>2, <5>1
      <4> QED
        BY <4>1, <4>2
    <3> QED
      BY <3>4 DEF size
  <2>2. capped => Min(ks + 1..h - ke) = ks + 1 /\ Max(ks + 1..h - ke) = h - ke
    BY <1>2 DEF Min, Max
  <2> DEFINE hidden == ks + 1..h - ke
  <2>3. Min(hidden) - 1 + Cap = ks + Cap \/ ~capped
    BY <1>2, <2>2
  <2>4. MaskedAs(s, hidden, spec) =
          IF ~preserve /\ Cardinality(hidden) > Cap
            THEN SubSeq(plain, 1, Min(hidden) - 1 + Cap) \o SubSeq(plain, Max(hidden) + 1, n)
            ELSE plain
    BY <1>1 DEF MaskedAs, preserve
  <2> HIDE DEF plain
  <2>5. CASE capped
    BY <1>11, <2>1, <2>2, <2>3, <2>4, <2>5
  <2>6. CASE ~capped
    BY <1>11, <2>1, <2>4, <2>6
  <2> QED
    BY <2>5, <2>6
<1>13. /\ plain \in Seq(C) /\ Len(plain) = n /\ DOMAIN plain = 1..n
       /\ \A i \in 1..n : plain[i] = IF i \in ks + 1..h - ke THEN MaskChar ELSE s[i]
  BY <1>1 DEF C
<1> HIDE DEF plain
<1>14. CappedOf(z, C, s, n, h, ks, body, ke)
  <2>1. CASE capped
    <3> DEFINE p == SubSeq(plain, 1, ks + Cap)
               q == SubSeq(plain, h - ke + 1, n)
    <3>1. p \in Seq(C) /\ Len(p) = ks + Cap /\ \A i \in 1..ks + Cap : p[i] = plain[i]
      <4>1. /\ ks + Cap \in Nat /\ ks + Cap <= Len(plain) /\ 1 <= ks + Cap + 1
            /\ ks + Cap - 1 + 1 = ks + Cap /\ \A i \in 1..ks + Cap : 1 + i - 1 = i
        BY <1>4, <1>5, <1>13, <2>1
      <4>2. /\ p \in Seq(C) /\ Len(p) = ks + Cap - 1 + 1
            /\ \A i \in 1..ks + Cap - 1 + 1 : p[i] = plain[1 + i - 1]
        BY <1>13, <4>1, PartFact
      <4> HIDE DEF p
      <4> QED
        BY <4>1, <4>2
    <3>2. q \in Seq(C) /\ Len(q) = n - h + ke /\ \A i \in 1..n - h + ke : q[i] = plain[h - ke + i]
      <4>1. /\ h - ke + 1 \in Nat /\ 1 <= h - ke + 1 /\ h - ke + 1 <= n + 1
            /\ n - (h - ke + 1) + 1 = n - h + ke
            /\ \A i \in 1..n - h + ke : h - ke + 1 + i - 1 = h - ke + i
        BY <1>5
      <4>2. /\ q \in Seq(C) /\ Len(q) = n - (h - ke + 1) + 1
            /\ \A i \in 1..n - (h - ke + 1) + 1 : q[i] = plain[h - ke + 1 + i - 1]
        BY <1>13, <4>1, PartFact
      <4> HIDE DEF q
      <4> QED
        BY <4>1, <4>2
    <3> HIDE DEF p, q
    <3>3. /\ p \o q \in Seq(C) /\ Len(p \o q) = Len(p) + Len(q)
          /\ \A i \in 1..Len(p) + Len(q) :
               (p \o q)[i] = IF i <= Len(p) THEN p[i] ELSE q[i - Len(p)]
      BY <3>1, <3>2, ConcatFact
    <3>4. z = p \o q /\ body = Cap
      BY <1>7, <2>1 DEF p, q
    <3> HIDE DEF z
    <3>5. z \in Seq(C) /\ Len(z) = ks + body + ke + n - h
      BY <3>1, <3>2, <3>3, <3>4, <1>1, <1>2
    <3>6. ASSUME NEW i \in 1..ks + body + ke + n - h
          PROVE  z[i] = IF i <= ks THEN s[i] ELSE IF i <= ks + body THEN MaskChar
                        ELSE s[i + h - ks - ke - body]
      <4>1. z[i] = IF i <= ks + Cap THEN p[i] ELSE q[i - (ks + Cap)]
        <5>1. i \in 1..(ks + Cap) + (n - h + ke)
          BY <1>1, <1>2, <3>4
        <5> QED
          BY <3>1, <3>2, <3>3, <3>4, <5>1
      <4>2. CASE i <= ks + Cap
        <5>1. i \in 1..ks + Cap /\ i \in 1..n /\ (i <= ks \/ i \in ks + 1..h - ke)
          BY <1>4, <1>5, <2>1, <4>2
        <5>2. z[i] = plain[i]
          BY <3>1, <4>1, <4>2, <5>1
        <5> QED
          BY <1>13, <3>4, <4>2, <5>1, <5>2
      <4>3. CASE ~(i <= ks + Cap)
        <5>1. /\ i - (ks + Cap) \in 1..n - h + ke
              /\ h - ke + (i - (ks + Cap)) = i + h - ks - ke - body
              /\ i + h - ks - ke - body \in 1..n
              /\ i + h - ks - ke - body \notin ks + 1..h - ke
              /\ ~(i <= ks) /\ ~(i <= ks + body)
          BY <1>4, <1>5, <2>1, <4>3
        <5>2. z[i] = plain[i + h - ks - ke - body]
          BY <3>2, <4>1, <4>3, <5>1
        <5> QED
          BY <1>13, <5>1, <5>2
      <4> QED
        BY <1>2, <4>2, <4>3
    <3> QED
      BY <3>5, <3>6 DEF CappedOf
  <2>2. CASE ~capped
    <3>1. z = plain /\ body = h - ks - ke
      BY <1>7, <2>2
    <3>2. /\ ks + body + ke + n - h = n
          /\ \A i \in 1..n : i + h - ks - ke - body = i
          /\ \A i \in 1..n : i \in ks + 1..h - ke <=> ~(i <= ks) /\ i <= ks + body
      <4>1. body = h - ks - ke
        BY <3>1
      <4> QED
        BY <1>5, <4>1
    <3> HIDE DEF z
    <3> QED
      BY <1>13, <3>1, <3>2 DEF CappedOf
  <2> QED
    BY <2>1, <2>2
<1> HIDE DEF z
<1>15. y = z
  <2>1. y \in Seq(C) /\ z \in Seq(C) /\ Len(y) = Len(z)
    BY <1>10, <1>14 DEF CappedOf
  <2>2. \A i \in 1..Len(y) : y[i] = z[i]
    BY <1>10, <1>14 DEF CappedOf
  <2> QED
    BY <2>1, <2>2
<1> QED
  BY <1>9, <1>12, <1>15

(* The rank of a member of a finite set of numbers, and what is above it.   *)
LEMMA RankFact ==
  ASSUME NEW h \in Nat, NEW units \in SUBSET (1..h), NEW i \in units
  PROVE  LET r == Cardinality({j \in units : j <= i})
         IN  /\ r \in 1..Cardinality(units) /\ Cardinality(units) \in Nat
             /\ Cardinality({j \in units : j < i}) = r - 1
             /\ Cardinality({j \in units : j > i}) = Cardinality(units) - r
<1> DEFINE below == {j \in units : j < i}
           above == {j \in units : j > i}
           upTo == {j \in units : j <= i}
<1>1. IsFiniteSet(1..h)
  BY FS_Interval
<1>2. /\ units \in SUBSET (1..h) /\ below \in SUBSET (1..h)
      /\ above \in SUBSET (1..h) /\ upTo \in SUBSET (1..h)
  OBVIOUS
<1>3. i \notin below /\ upTo = below \cup {i} /\ units = upTo \cup above /\ upTo \cap above = {}
  <2>1. i \in Nat /\ \A j \in units : j \in Nat
    OBVIOUS
  <2>2. \A j \in units : /\ j <= i <=> j < i \/ j = i
                         /\ j <= i \/ j > i
                         /\ ~(j <= i /\ j > i)
    BY <2>1
  <2>3. i \notin below
    BY <2>1
  <2> QED
    BY <2>2, <2>3
<1> HIDE DEF below, above, upTo
<1>4. /\ IsFiniteSet(units) /\ IsFiniteSet(below) /\ IsFiniteSet(above) /\ IsFiniteSet(upTo)
  BY <1>1, <1>2, FS_Subset
<1>5. /\ Cardinality(units) \in Nat /\ Cardinality(below) \in Nat
      /\ Cardinality(above) \in Nat /\ Cardinality(upTo) \in Nat
  BY <1>4, FS_CardinalityType
<1>6. Cardinality(upTo) = Cardinality(below) + 1
  BY <1>3, <1>4, FS_AddElement
<1>7. Cardinality(units) = Cardinality(upTo) + Cardinality(above)
  <2>1. Cardinality(upTo \cup above) = Cardinality(upTo) + Cardinality(above) - Cardinality(upTo \cap above)
    BY <1>4, FS_Union
  <2>2. Cardinality(upTo \cap above) = 0
    BY <1>3, FS_EmptySet
  <2> QED
    BY <1>3, <1>5, <2>1, <2>2
<1>8. /\ Cardinality(upTo) \in 1..Cardinality(units)
      /\ Cardinality(below) = Cardinality(upTo) - 1
      /\ Cardinality(above) = Cardinality(units) - Cardinality(upTo)
  BY <1>5, <1>6, <1>7
<1> QED
  BY <1>5, <1>8 DEF below, above, upTo

(* Of the digits, those that are counted as neither first nor last.         *)
LEMMA MaskedDigitsFact ==
  ASSUME NEW s \in Seq(Chars), NEW h \in Nat, h <= Len(s),
         NEW spec \in MaskSpec, spec.scope = "digits"
  PROVE  MaskHead(s, h, spec) = MaskedAs(s, Hidden(s, h, spec), spec)
<1> DEFINE C == Chars \cup {MaskChar}
           start == spec.unmaskStart
           end == spec.unmaskEnd
           head == SubSeq(s, 1, h)
           units == {j \in 1..h : s[j] \in Digits}
           d == Cardinality(units)
           rank(i) == Cardinality({j \in units : j <= i})
           md == MaskDigits(head, start, end)
           plain == [i \in DOMAIN s |-> IF i \in Hidden(s, h, spec) THEN MaskChar ELSE s[i]]
<1>1. PICK n \in Nat : n = Len(s)
  OBVIOUS
<1>2. start \in Nat /\ end \in Nat /\ h <= n
  BY <1>1 DEF MaskSpec
<1>3. head \in Seq(C) /\ Len(head) = h /\ DOMAIN head = 1..h /\ \A i \in 1..h : head[i] = s[i]
  BY <1>1
<1>4. MaskHead(s, h, spec) = md \o SubSeq(s, h + 1, n)
  BY <1>1 DEF MaskHead
<1>5. MaskedAs(s, Hidden(s, h, spec), spec) = plain
  BY DEF MaskedAs
<1>6. units \in SUBSET (1..h) /\ Counted(s, h, spec) = units
  BY DEF Counted
<1>7. d \in Nat
  <2> HIDE DEF units
  <2>1. IsFiniteSet(1..h)
    BY FS_Interval
  <2>2. IsFiniteSet(units)
    BY <1>6, <2>1, FS_Subset
  <2> QED
    BY <2>2, FS_CardinalityType
<1>8. DigitsUpTo(head, h) = d /\ \A i \in 1..h : DigitsUpTo(head, i) = rank(i)
  <2>1. {j \in 1..h : head[j] \in Digits} = units
    BY <1>3
  <2>2. \A i \in 1..h : {j \in 1..i : head[j] \in Digits} = {j \in units : j <= i}
    BY <1>3
  <2> HIDE DEF head, units
  <2> QED
    BY <2>1, <2>2 DEF DigitsUpTo
<1>9. ASSUME NEW i \in units
      PROVE  /\ rank(i) \in 1..d
             /\ Cardinality({j \in units : j < i}) = rank(i) - 1
             /\ Cardinality({j \in units : j > i}) = d - rank(i)
  <2> HIDE DEF units
  <2> QED
    BY <1>6, RankFact
<1> HIDE DEF start, end, head, d, C
<1>10. PICK ks, ke \in Nat : /\ ks = AtMost(start, d) /\ ke = AtMost(end, d - ks)
                             /\ ks + ke <= d /\ Between(d, ks, ke, start, end)
  BY <1>2, <1>7, KeepFact
<1>11. md = [i \in 1..h |-> IF head[i] \in Digits /\ DigitsUpTo(head, i) \in ks + 1..d - ke
                            THEN MaskChar ELSE head[i]]
  BY <1>3, <1>8, <1>10 DEF MaskDigits
<1>12. \A i \in 1..h : i \in Hidden(s, h, spec) <=> i \in units /\ rank(i) \in ks + 1..d - ke
  <2> SUFFICES ASSUME NEW i \in 1..h
               PROVE  i \in Hidden(s, h, spec) <=> i \in units /\ rank(i) \in ks + 1..d - ke
    OBVIOUS
  <2>1. i \in Hidden(s, h, spec) <=>
          i \in units /\ Cardinality({j \in units : j < i}) >= start
                      /\ Cardinality({j \in units : j > i}) >= end
    <3> HIDE DEF units
    <3> QED
      BY <1>6 DEF Hidden, start, end
  <2>2. CASE i \in units
    <3>1. rank(i) \in 1..d
      BY <1>9, <2>2
    <3> HIDE DEF rank, units
    <3>2. rank(i) \in ks + 1..d - ke <=> rank(i) - 1 >= start /\ d - rank(i) >= end
      BY <1>10, <3>1 DEF Between
    <3> QED
      BY <1>9, <2>1, <2>2, <3>2
  <2>3. CASE i \notin units
    BY <2>1, <2>3
  <2> QED
    BY <2>2, <2>3
<1>13. md \in Seq(C) /\ Len(md) = h
       /\ \A i \in 1..h : md[i] = IF i \in Hidden(s, h, spec) THEN MaskChar ELSE s[i]
  <2>1. ASSUME NEW i \in 1..h
        PROVE  (head[i] \in Digits /\ DigitsUpTo(head, i) \in ks + 1..d - ke)
                  <=> i \in Hidden(s, h, spec)
    <3> HIDE DEF rank
    <3> QED
      BY <1>3, <1>8, <1>12
  <2>2. md = [i \in 1..h |-> IF i \in Hidden(s, h, spec) THEN MaskChar ELSE s[i]]
    BY <1>3, <1>11, <2>1
  <2>3. \A i \in 1..h : s[i] \in C
    BY <1>1, <1>2 DEF C
  <2> HIDE DEF md
  <2> QED
    BY <2>2, <2>3 DEF C
<1> DEFINE tail == SubSeq(s, h + 1, n)
<1>14. tail \in Seq(C) /\ Len(tail) = n - h /\ \A i \in 1..n - h : tail[i] = s[h + i]
  BY <1>1, <1>2 DEF C
<1>15. /\ plain \in Seq(C) /\ Len(plain) = n
       /\ \A i \in 1..n : plain[i] = IF i \in Hidden(s, h, spec) THEN MaskChar ELSE s[i]
  BY <1>1 DEF C
<1>16. \A i \in 1..n : i \in Hidden(s, h, spec) => i <= h
  BY <1>6 DEF Hidden
<1> HIDE DEF md, tail, plain
<1>17. /\ md \o tail \in Seq(C) /\ Len(md \o tail) = Len(md) + Len(tail)
       /\ \A i \in 1..Len(md) + Len(tail) :
            (md \o tail)[i] = IF i <= Len(md) THEN md[i] ELSE tail[i - Len(md)]
  <2>1. md \in Seq(C) /\ tail \in Seq(C)
    BY <1>13, <1>14
  <2> QED
    BY <2>1, ConcatFact, Zenon
<1> DEFINE y == md \o tail
<1> HIDE DEF y
<1>18. y \in Seq(C) /\ Len(y) = n
       /\ \A i \in 1..n : y[i] = IF i <= h THEN md[i] ELSE tail[i - h]
  <2>1. Len(md) + Len(tail) = n
    BY <1>2, <1>13, <1>14
  <2> QED
    BY <1>13, <1>17, <2>1 DEF y
<1>19. \A i \in 1..n : y[i] = plain[i]
  <2> SUFFICES ASSUME NEW i \in 1..n PROVE y[i] = plain[i]
    OBVIOUS
  <2>1. CASE i <= h
    <3>1. i \in 1..h
      BY <2>1
    <3> QED
      BY <1>13, <1>15, <1>18, <2>1, <3>1
  <2>2. CASE ~(i <= h)
    <3>1. i - h \in 1..n - h /\ h + (i - h) = i
      BY <1>2, <2>2
    <3> QED
      BY <1>14, <1>15, <1>16, <1>18, <2>2, <3>1
  <2> QED
    BY <2>1, <2>2
<1>20. y = plain
  BY <1>15, <1>18, <1>19
<1> QED
  BY <1>4, <1>5, <1>20 DEF y, tail

(* For values and specs of any size: both engines hide exactly what the     *)
(* spec hides, unless a delimiter is the empty string, of which only the    *)
(* native engine makes a cut.                                               *)
THEOREM HidesExactlyTheRestHolds ==
  ASSUME \A spec \in Specs : <<>> \notin spec.keepAfter
  PROVE  TransformSpec => []HidesExactlyTheRest
<1>1. Init => HidesExactlyTheRest
  BY DEF Init, Idle, HidesExactlyTheRest
<1>2. ASSUME Transform PROVE HidesExactlyTheRest'
  <2>1. ASSUME NEW v \in Values, NEW spec \in Specs, Mask(v, spec)
        PROVE  HidesExactlyTheRest'
    <3> DEFINE cut == SplitKeptTail(v, spec.keepAfter)
               hidden == Hidden(v, cut, spec)
    <3>1. v \in Seq(Chars) /\ spec \in MaskSpec /\ spec.keepAfter \ {<<>>} = spec.keepAfter
      BY InputAssumption
    <3>2. task' = [do |-> "mask", value |-> v, spec |-> spec,
                   js |-> ApplyMask(v, spec), native |-> ApplyMaskNative(v, spec)]
      BY <2>1 DEF Mask
    <3>3. ~spec.redact => /\ ApplyMask(v, spec) = MaskHead(v, cut, spec)
                          /\ ApplyMaskNative(v, spec) = MaskHead(v, cut, spec)
      BY <3>1 DEF ApplyMask, ApplyMaskNative, SplitKeptTailNative, SplitKeptTail
    <3>4. cut \in 0..Len(v)
      BY <3>1, SplitFact
    <3>5. HidesExactlyTheRest' <=>
            (~spec.redact => /\ ApplyMask(v, spec) = MaskedAs(v, hidden, spec)
                             /\ ApplyMaskNative(v, spec) = MaskedAs(v, hidden, spec))
      BY <3>2 DEF HidesExactlyTheRest, MaskedAs
    <3>6. spec.scope \in {"all", "digits"}
      BY <3>1 DEF MaskSpec
    <3> HIDE DEF cut
    <3>7. cut \in Nat /\ cut <= Len(v)
      BY <3>1, <3>4
    <3>8. MaskHead(v, cut, spec) = MaskedAs(v, hidden, spec)
      BY <3>1, <3>6, <3>7, MaskedAllFact, MaskedDigitsFact
    <3> QED
      BY <3>3, <3>5, <3>8
  <2>2. ASSUME task'.do # "mask" PROVE HidesExactlyTheRest'
    BY <2>2 DEF HidesExactlyTheRest
  <2> QED
    BY <1>2, <2>1, <2>2 DEF Transform, Truncate, Judge
<1>3. UNCHANGED task /\ HidesExactlyTheRest => HidesExactlyTheRest'
  BY DEF HidesExactlyTheRest
<1> QED
  BY <1>1, <1>2, <1>3, PTL DEF TransformSpec

-----------------------------------------------------------------------------
(* The scan of a key pattern.                                               *)

(* How often a token is among the first k. *)
Count(p, k, t) == Cardinality({i \in 1..k : p[i] = t})

LEMMA CountStep ==
  ASSUME NEW p, NEW k \in Nat, NEW t
  PROVE  /\ Count(p, k + 1, t) = Count(p, k, t) + IF p[k + 1] = t THEN 1 ELSE 0
         /\ Count(p, k, t) \in Nat
<1> DEFINE A == {i \in 1..k : p[i] = t}
           B == {i \in 1..k + 1 : p[i] = t}
<1>1. IsFiniteSet(A) /\ Cardinality(A) \in Nat
  <2>1. IsFiniteSet(1..k) /\ A \in SUBSET (1..k)
    BY FS_Interval
  <2> HIDE DEF A
  <2> QED
    BY <2>1, FS_Subset, FS_CardinalityType
<1>2. CASE p[k + 1] = t
  <2>1. B = A \cup {k + 1} /\ k + 1 \notin A
    BY <1>2
  <2> HIDE DEF A, B
  <2>2. Cardinality(B) = Cardinality(A) + 1
    BY <1>1, <2>1, FS_AddElement
  <2> QED
    BY <1>1, <1>2, <2>2 DEF A, B, Count
<1>3. CASE p[k + 1] # t
  <2>1. B = A
    BY <1>3
  <2> QED
    BY <1>1, <1>3, <2>1 DEF Count
<1> QED
  BY <1>2, <1>3

LEMMA DepthStep ==
  ASSUME NEW p
  PROVE  /\ Depth(p, 0) = 0 /\ \A k \in Nat : Depth(p, k) \in Int
         /\ \A k \in Nat : Depth(p, k + 1) =
              Depth(p, k) + IF p[k + 1] = "(" THEN 1 ELSE IF p[k + 1] = ")" THEN -1 ELSE 0
<1>1. Depth(p, 0) = 0
  <2>1. {i \in 1..0 : p[i] = "("} = {} /\ {i \in 1..0 : p[i] = ")"} = {}
    OBVIOUS
  <2> QED
    BY <2>1, FS_EmptySet DEF Depth
<1>2. ASSUME NEW k \in Nat
      PROVE  /\ Depth(p, k) \in Int
             /\ Depth(p, k + 1) =
                  Depth(p, k) + IF p[k + 1] = "(" THEN 1 ELSE IF p[k + 1] = ")" THEN -1 ELSE 0
  <2>1. /\ Count(p, k, "(") \in Nat /\ Count(p, k, ")") \in Nat
        /\ Count(p, k + 1, "(") = Count(p, k, "(") + IF p[k + 1] = "(" THEN 1 ELSE 0
        /\ Count(p, k + 1, ")") = Count(p, k, ")") + IF p[k + 1] = ")" THEN 1 ELSE 0
    BY CountStep
  <2>2. /\ Depth(p, k) = Count(p, k, "(") - Count(p, k, ")")
        /\ Depth(p, k + 1) = Count(p, k + 1, "(") - Count(p, k + 1, ")")
    BY DEF Depth, Count
  <2>3. ~(p[k + 1] = "(" /\ p[k + 1] = ")")
    OBVIOUS
  <2> QED
    BY <2>1, <2>2, <2>3
<1> QED
  BY <1>1, <1>2

(* The depths along a pattern. *)
DepthsOf(p, D, n) ==
  /\ D \in [0..n -> Nat] /\ D[0] = 0
  /\ \A k \in 1..n :
       D[k] = D[k - 1] + IF p[k] = "(" THEN 1 ELSE IF p[k] = ")" THEN -1 ELSE 0

LEMMA DepthsFact ==
  ASSUME NEW p \in Seq(Tokens), NEW n \in Nat, n = Len(p), \A k \in 0..n : Depth(p, k) >= 0
  PROVE  DepthsOf(p, [k \in 0..n |-> Depth(p, k)], n)
<1>1. \A k \in 0..n : Depth(p, k) \in Nat
  BY DepthStep
<1>2. \A k \in 1..n : /\ k - 1 \in Nat /\ k - 1 \in 0..n /\ k - 1 + 1 = k
                      /\ Depth(p, k) = Depth(p, k - 1)
                           + IF p[k] = "(" THEN 1 ELSE IF p[k] = ")" THEN -1 ELSE 0
  <2> SUFFICES ASSUME NEW k \in 1..n
               PROVE  /\ k - 1 \in Nat /\ k - 1 \in 0..n /\ k - 1 + 1 = k
                      /\ Depth(p, k) = Depth(p, k - 1)
                           + IF p[k] = "(" THEN 1 ELSE IF p[k] = ")" THEN -1 ELSE 0
    OBVIOUS
  <2>1. k - 1 \in Nat /\ k - 1 \in 0..n /\ k - 1 + 1 = k
    OBVIOUS
  <2>2. Depth(p, k - 1 + 1) = Depth(p, k - 1)
          + IF p[k - 1 + 1] = "(" THEN 1 ELSE IF p[k - 1 + 1] = ")" THEN -1 ELSE 0
    BY <2>1, DepthStep
  <2> QED
    BY <2>1, <2>2
<1>3. 0 \in 0..n /\ Depth(p, 0) = 0
  BY DepthStep
<1> DEFINE D == [k \in 0..n |-> Depth(p, k)]
<1>4. D \in [0..n -> Nat] /\ \A k \in 0..n : D[k] = Depth(p, k)
  BY <1>1
<1> HIDE DEF D
<1>5. ASSUME NEW k \in 1..n
      PROVE  D[k] = D[k - 1] + IF p[k] = "(" THEN 1 ELSE IF p[k] = ")" THEN -1 ELSE 0
  <2>1. k \in 0..n /\ k - 1 \in 0..n
    BY <1>2
  <2>2. D[k] = Depth(p, k) /\ D[k - 1] = Depth(p, k - 1)
    BY <1>4, <2>1
  <2> QED
    BY <1>2, <2>2
<1>6. DepthsOf(p, D, n)
  BY <1>3, <1>4, <1>5 DEF DepthsOf
<1> QED
  BY <1>6 DEF D

(* The k-th token closes a group with an unbounded quantifier inside.       *)
Closes(p, D, k) ==
  /\ k >= 1 /\ p[k] = ")"
  /\ \E i \in 1..k - 1 : p[i] = "+" /\ \A j \in i..k - 1 : D[j] > D[k]

(* The same, said of the group. *)
GroupAt(p, D, l, r) ==
  /\ p[l] = "(" /\ p[r] = ")" /\ D[r] = D[l - 1]
  /\ \A j \in l..r - 1 : D[j] > D[l - 1]

LEMMA ClosedGroup ==
  ASSUME NEW p \in Seq(Tokens), NEW n \in Nat, n = Len(p), NEW D, DepthsOf(p, D, n),
         NEW r \in 1..n
  PROVE  Closes(p, D, r) <=>
           \E l \in 1..n : l < r /\ GroupAt(p, D, l, r) /\ \E i \in l + 1..r - 1 : p[i] = "+"
<1>1. ASSUME NEW l \in 1..n, l < r, GroupAt(p, D, l, r), NEW i \in l + 1..r - 1, p[i] = "+"
      PROVE  Closes(p, D, r)
  <2>1. i \in 1..r - 1 /\ \A j \in i..r - 1 : j \in l..r - 1
    OBVIOUS
  <2> QED
    BY <1>1, <2>1 DEF GroupAt, Closes
<1>2. ASSUME Closes(p, D, r)
      PROVE  \E l \in 1..n : l < r /\ GroupAt(p, D, l, r) /\ \E i \in l + 1..r - 1 : p[i] = "+"
  <2>1. PICK i \in 1..r - 1 : p[i] = "+" /\ \A j \in i..r - 1 : D[j] > D[r]
    BY <1>2 DEF Closes
  <2>2. /\ p[r] = ")" /\ D \in [0..n -> Nat] /\ D[0] = 0
        /\ \A k \in 1..n :
             D[k] = D[k - 1] + IF p[k] = "(" THEN 1 ELSE IF p[k] = ")" THEN -1 ELSE 0
    BY <1>2 DEF Closes, DepthsOf
  <2>3. i \in Nat /\ i >= 1 /\ i <= r - 1 /\ r <= n
    OBVIOUS
  <2> DEFINE low == {m \in 0..i : D[m] <= D[r]}
  <2>4. 0 \in low /\ low \in SUBSET (0..i)
    BY <2>2, <2>3
  <2>5. PICK m \in low : \A j \in low : m >= j
    <3> HIDE DEF low
    <3> QED
      BY <2>3, <2>4, MaxIsLargest
  <2>6. m \in 0..i /\ D[m] <= D[r] /\ D[i] > D[r] /\ m # i
    <3>1. D[i] > D[r] /\ D[i] \in Nat /\ D[r] \in Nat
      <4>1. i \in i..r - 1 /\ i \in 0..n /\ r \in 0..n
        BY <2>3
      <4> QED
        BY <2>1, <2>2, <4>1
    <3>2. m \in 0..i /\ D[m] <= D[r]
      OBVIOUS
    <3> QED
      BY <3>1, <3>2
  <2> DEFINE l == m + 1
  <2>7. m \in Nat /\ l \in 1..n /\ l <= i /\ l - 1 = m /\ m \in 0..n /\ l \in 0..n
    BY <2>3, <2>6
  <2> HIDE DEF l
  <2>8. \A j \in l..i : D[j] > D[r]
    <3> SUFFICES ASSUME NEW j \in l..i PROVE D[j] > D[r]
      OBVIOUS
    <3>1. j \in 0..i /\ j \in 0..n /\ ~(m >= j)
      BY <2>3, <2>7
    <3>2. j \notin low
      BY <2>5, <3>1
    <3>3. j \in 0..i /\ (j \in low <=> D[j] <= D[r])
      BY <3>1
    <3> HIDE DEF low
    <3>4. r \in 0..n
      BY <2>3
    <3>5. D[j] \in Nat /\ D[r] \in Nat
      BY <2>2, <3>1, <3>4
    <3> QED
      BY <3>2, <3>3, <3>5
  <2>9. D[l] > D[r] /\ D[l] \in Nat /\ D[r] \in Nat /\ D[m] \in Nat
    BY <2>2, <2>3, <2>7, <2>8
  <2>10. D[l] = D[m] + IF p[l] = "(" THEN 1 ELSE IF p[l] = ")" THEN -1 ELSE 0
    BY <2>2, <2>7
  <2>11. p[l] = "(" /\ D[r] = D[m]
    <3>1. CASE p[l] = "("
      BY <2>6, <2>9, <2>10, <3>1
    <3>2. CASE p[l] # "("
      <4>1. D[l] <= D[m]
        BY <2>9, <2>10, <3>2
      <4> QED
        BY <2>6, <2>9, <4>1
    <3> QED
      BY <3>1, <3>2
  <2>12. l # i
    BY <2>1, <2>11
  <2>13. \A j \in l..r - 1 : D[j] > D[r]
    <3> SUFFICES ASSUME NEW j \in l..r - 1 PROVE D[j] > D[r]
      OBVIOUS
    <3>1. j \in l..i \/ j \in i..r - 1
      BY <2>3, <2>7
    <3> QED
      BY <2>1, <2>8, <3>1
  <2>14. GroupAt(p, D, l, r)
    BY <2>2, <2>7, <2>11, <2>13 DEF GroupAt
  <2>15. l < r /\ i \in l + 1..r - 1
    BY <2>3, <2>7, <2>12
  <2> QED
    BY <2>1, <2>7, <2>14, <2>15
<1> QED
  BY <1>1, <1>2

(* The matching parentheses, told by the depths of the whole pattern. *)
LEMMA GroupFact ==
  ASSUME NEW p \in Seq(Tokens), NEW n \in Nat, n = Len(p),
         NEW D, D = [k \in 0..n |-> Depth(p, k)],
         NEW l \in 1..n, NEW r \in 1..n, l < r
  PROVE  Group(p, l, r) <=> GroupAt(p, D, l, r)
<1> DEFINE q == SubSeq(p, l, r)
           m == r - l + 1
<1>1. Len(q) = m /\ m \in Nat /\ \A k \in 1..m : q[k] = p[l - 1 + k]
  OBVIOUS
<1> HIDE DEF q
<1> DEFINE P == {k \in 0..m : Depth(q, k) = Depth(p, l - 1 + k) - Depth(p, l - 1)}
<1>2. 0 \in P
  <2>1. l - 1 \in Nat /\ l - 1 + 0 = l - 1 /\ 0 \in 0..m
    BY <1>1
  <2> QED
    BY <2>1, DepthStep
<1>3. ASSUME NEW k \in 1..m, k - 1 \in P PROVE k \in P
  <2>1. /\ k - 1 \in Nat /\ k - 1 + 1 = k /\ l - 1 + (k - 1) \in Nat
        /\ l - 1 + (k - 1) + 1 = l - 1 + k /\ l - 1 \in Nat /\ k \in 0..m
    BY <1>1
  <2>2. Depth(q, k - 1 + 1) = Depth(q, k - 1)
          + IF q[k - 1 + 1] = "(" THEN 1 ELSE IF q[k - 1 + 1] = ")" THEN -1 ELSE 0
    BY <2>1, DepthStep
  <2>3. Depth(p, l - 1 + (k - 1) + 1) = Depth(p, l - 1 + (k - 1))
          + IF p[l - 1 + (k - 1) + 1] = "(" THEN 1
            ELSE IF p[l - 1 + (k - 1) + 1] = ")" THEN -1 ELSE 0
    BY <2>1, DepthStep
  <2>4. q[k] = p[l - 1 + k]
    BY <1>1
  <2>5. /\ Depth(q, k - 1) = Depth(p, l - 1 + (k - 1)) - Depth(p, l - 1)
        /\ Depth(p, l - 1 + (k - 1)) \in Int /\ Depth(p, l - 1) \in Int
    BY <1>3, <2>1, DepthStep
  <2>6. Depth(q, k) = Depth(p, l - 1 + k) - Depth(p, l - 1)
    BY <2>1, <2>2, <2>3, <2>4, <2>5
  <2> QED
    BY <2>1, <2>6
<1>4. \A k \in 0..m : k \in P
  <2> HIDE DEF P
  <2>1. \A k \in 1..m : k - 1 \in P => k \in P
    BY <1>3
  <2> QED
    BY <1>1, <1>2, <2>1, Reaches
<1>5. \A k \in 0..m : Depth(q, k) = D[l - 1 + k] - D[l - 1]
  <2>1. l - 1 \in 0..n /\ \A k \in 0..m : l - 1 + k \in 0..n
    OBVIOUS
  <2> QED
    BY <1>4, <2>1
<1>6. \A k \in 0..n : D[k] \in Int
  BY DepthStep
<1>7. Group(p, l, r) <=>
        /\ p[l] = "(" /\ p[r] = ")" /\ Depth(q, m) = 0
        /\ \A k \in 1..m - 1 : Depth(q, k) > 0
  BY <1>1 DEF Group, q
<1> HIDE DEF P
<1>8. Depth(q, m) = 0 <=> D[r] = D[l - 1]
  <2>1. m \in 0..m /\ l - 1 + m = r /\ l - 1 \in 0..n /\ r \in 0..n
    BY <1>1
  <2> QED
    BY <1>5, <1>6, <2>1
<1>9. (\A k \in 1..m - 1 : Depth(q, k) > 0) <=> \A j \in l..r - 1 : D[j] > D[l - 1]
  <2>1. ASSUME NEW k \in 1..m - 1
        PROVE  l - 1 + k \in l..r - 1 /\ (Depth(q, k) > 0 <=> D[l - 1 + k] > D[l - 1])
    <3>1. k \in 0..m /\ l - 1 + k \in 0..n /\ l - 1 \in 0..n /\ l - 1 + k \in l..r - 1
      BY <1>1
    <3> QED
      BY <1>5, <1>6, <3>1
  <2>2. ASSUME NEW j \in l..r - 1 PROVE j - l + 1 \in 1..m - 1 /\ l - 1 + (j - l + 1) = j
    OBVIOUS
  <2> QED
    BY <2>1, <2>2
<1> QED
  BY <1>7, <1>8, <1>9 DEF GroupAt

(* The states of the scan, also where it has lost count of the groups. *)
ScanState ==
  [stack : Seq(BOOLEAN), inside : BOOLEAN,
   last : {"none", "atom", "point", "unboundedGroup"}, refused : BOOLEAN]

BearOf(a, stack, b) ==
  /\ a \in Seq(BOOLEAN) /\ Len(a) = Len(stack)
  /\ \A i \in 1..Len(stack) : a[i] = IF i = Len(stack) THEN stack[i] \/ b ELSE stack[i]

LEMMA BearFact ==
  ASSUME NEW stack \in Seq(BOOLEAN), NEW b \in BOOLEAN
  PROVE  BearOf(Bear(stack, b), stack, b)
<1> DEFINE n == Len(stack)
           bear(i) == stack[i] \/ (b /\ i = n)
<1>1. n \in Nat /\ DOMAIN stack = 1..n /\ \A i \in 1..n : stack[i] \in BOOLEAN
  OBVIOUS
<1>2. Bear(stack, b) = [i \in 1..n |-> bear(i)]
  BY <1>1 DEF Bear
<1>3. \A i \in 1..n : bear(i) \in BOOLEAN /\ bear(i) = IF i = n THEN stack[i] \/ b ELSE stack[i]
  BY <1>1
<1> HIDE DEF n, bear
<1>4. Bear(stack, b) \in Seq(BOOLEAN) /\ Len(Bear(stack, b)) = n
  BY <1>1, <1>2, <1>3
<1> QED
  BY <1>2, <1>3, <1>4 DEF n, BearOf

LEMMA FrontFact ==
  ASSUME NEW stack \in Seq(BOOLEAN)
  PROVE  /\ Front(stack) \in Seq(BOOLEAN)
         /\ Len(stack) >= 1 =>
              /\ Len(Front(stack)) = Len(stack) - 1 /\ Last(stack) = stack[Len(stack)]
              /\ Last(stack) \in BOOLEAN
              /\ \A i \in 1..Len(stack) - 1 : Front(stack)[i] = stack[i]
<1>1. CASE Len(stack) >= 1
  <2> DEFINE n == Len(stack)
  <2>1. n \in Nat /\ n >= 1 /\ \A i \in 1..n : stack[i] \in BOOLEAN
    BY <1>1
  <2>2. Front(stack) = SubSeq(stack, 1, n - 1) /\ Last(stack) = stack[n]
    BY DEF Front, Last
  <2>3. /\ SubSeq(stack, 1, n - 1) \in Seq(BOOLEAN) /\ Len(SubSeq(stack, 1, n - 1)) = n - 1
        /\ \A i \in 1..n - 1 : SubSeq(stack, 1, n - 1)[i] = stack[i]
    <3> DEFINE B == BOOLEAN
    <3>1. stack \in Seq(B) /\ n - 1 \in Nat /\ n - 1 <= Len(stack) /\ 1 <= n - 1 + 1
      BY <2>1
    <3>2. n - 1 - 1 + 1 = n - 1 /\ \A i \in 1..n - 1 : 1 + i - 1 = i
      BY <2>1
    <3> HIDE DEF B, n
    <3>3. /\ SubSeq(stack, 1, n - 1) \in Seq(B) /\ Len(SubSeq(stack, 1, n - 1)) = n - 1 - 1 + 1
          /\ \A i \in 1..n - 1 - 1 + 1 : SubSeq(stack, 1, n - 1)[i] = stack[1 + i - 1]
      BY <3>1, PartFact
    <3> QED
      BY <3>2, <3>3 DEF B
  <2>4. stack[n] \in BOOLEAN
    BY <2>1
  <2> QED
    BY <2>2, <2>3, <2>4
<1>2. CASE ~(Len(stack) >= 1)
  <2>1. stack = <<>> /\ Front(stack) = SubSeq(<<>>, 1, -1)
    BY <1>2 DEF Front
  <2>2. SubSeq(<<>>, 1, -1) = <<>>
    OBVIOUS
  <2> QED
    BY <1>2, <2>1, <2>2
<1> QED
  BY <1>1, <1>2

LEMMA CloseGroupFact ==
  ASSUME NEW x \in ScanState
  PROVE  /\ CloseGroup(x) \in ScanState
         /\ x.refused => CloseGroup(x).refused
<1> DEFINE closed == x.stack # <<>> /\ Last(x.stack)
           around == Front(x.stack)
           kind   == IF closed THEN "unboundedGroup" ELSE "atom"
<1>1. CloseGroup(x) = [x EXCEPT !.stack = Bear(around, closed), !.last = kind,
                                !.refused = x.refused \/ Throws(around, closed)]
  BY DEF CloseGroup
<1>2. x.stack \in Seq(BOOLEAN) /\ x.refused \in BOOLEAN
  BY DEF ScanState
<1>3. around \in Seq(BOOLEAN)
  BY <1>2, FrontFact
<1>4. closed \in BOOLEAN
  <2>1. x.stack # <<>> => Len(x.stack) >= 1
    BY <1>2
  <2> QED
    BY <1>2, <2>1, FrontFact
<1>5. kind \in {"none", "atom", "point", "unboundedGroup"}
  OBVIOUS
<1> HIDE DEF closed, around, kind
<1>6. Bear(around, closed) \in Seq(BOOLEAN)
  BY <1>3, <1>4, BearFact DEF BearOf
<1>7. Throws(around, closed) \in BOOLEAN
  BY <1>4 DEF Throws
<1> QED
  BY <1>1, <1>2, <1>5, <1>6, <1>7 DEF ScanState

LEMMA ReadQuantifierFact ==
  ASSUME NEW x \in ScanState, NEW t
  PROVE  /\ ReadQuantifier(x, t) \in ScanState
         /\ x.refused => ReadQuantifier(x, t).refused
<1> DEFINE refused == \/ x.refused
                      \/ x.last = "unboundedGroup" /\ t \in Repeats
                      \/ Throws(x.stack, t = "+")
<1>1. CASE x.last = "point"
  BY <1>1 DEF ReadQuantifier, ScanState
<1>2. CASE x.last # "point"
  <2>1. ReadQuantifier(x, t) = [x EXCEPT !.stack = Bear(x.stack, t = "+"), !.last = "none",
                                         !.refused = refused]
    BY <1>2 DEF ReadQuantifier
  <2>2. x.stack \in Seq(BOOLEAN) /\ x.refused \in BOOLEAN
    BY DEF ScanState
  <2>3. Bear(x.stack, t = "+") \in Seq(BOOLEAN)
    BY <2>2, BearFact DEF BearOf
  <2>4. refused \in BOOLEAN /\ (x.refused => refused)
    BY <2>2 DEF Throws
  <2> HIDE DEF refused
  <2> QED
    BY <2>1, <2>3, <2>4 DEF ScanState
<1> QED
  BY <1>1, <1>2

(* A refusal is for good. *)
LEMMA ScanTokenFact ==
  ASSUME NEW x \in ScanState, NEW t \in Tokens
  PROVE  /\ ScanToken(x, t) \in ScanState
         /\ x.refused => ScanToken(x, t).refused
<1>1. CASE x.inside
  BY <1>1 DEF ScanToken, Skip, ScanState
<1>2. CASE ~x.inside /\ t \in {"atom", "class", "empty", "point"}
  BY <1>2 DEF ScanToken, ScanState
<1>3. CASE ~x.inside /\ t = "("
  <2>1. ScanToken(x, t) = [x EXCEPT !.stack = Append(@, FALSE), !.last = "none"]
    BY <1>3 DEF ScanToken
  <2>2. Append(x.stack, FALSE) \in Seq(BOOLEAN)
    BY DEF ScanState
  <2> QED
    BY <2>1, <2>2 DEF ScanState
<1>4. CASE ~x.inside /\ t = ")"
  <2>1. ScanToken(x, t) = CloseGroup(x)
    BY <1>4 DEF ScanToken
  <2> QED
    BY <2>1, CloseGroupFact
<1>5. CASE ~x.inside /\ t \notin {"atom", "class", "empty", "point", "(", ")"}
  <2>1. ScanToken(x, t) = ReadQuantifier(x, t)
    BY <1>5 DEF ScanToken
  <2> QED
    BY <2>1, ReadQuantifierFact
<1> QED
  BY <1>1, <1>2, <1>3, <1>4, <1>5

(* What a token does that the scan reads as JavaScript does, while it still *)
(* knows which groups are open.                                             *)
LEMMA PlainToken ==
  ASSUME NEW x \in ScanState, ~x.inside, x.last # "point", x.stack # <<>>,
         NEW t \in Tokens, t \notin Misread, t = ")" => Len(x.stack) >= 2
  PROVE  /\ t \in {"atom", "class"} => ScanToken(x, t) = [x EXCEPT !.last = "atom"]
         /\ t = "(" => ScanToken(x, t) = [x EXCEPT !.stack = Append(@, FALSE), !.last = "none"]
         /\ t = ")" => ScanToken(x, t) =
              [x EXCEPT !.stack = Bear(Front(@), Last(x.stack)),
                        !.last  = IF Last(x.stack) THEN "unboundedGroup" ELSE "atom"]
         /\ t \notin {"atom", "class", "(", ")"} => ScanToken(x, t) =
              [x EXCEPT !.stack   = Bear(@, t = "+"),
                        !.refused = @ \/ (x.last = "unboundedGroup" /\ t \in Repeats),
                        !.last    = "none"]
<1>1. x.stack \in Seq(BOOLEAN) /\ x.refused \in BOOLEAN
  BY DEF ScanState
<1>2. CASE t \in {"atom", "class", "("}
  BY <1>2 DEF ScanToken
<1>3. CASE t = ")"
  <2> DEFINE closed == Last(x.stack)
             kind   == IF closed THEN "unboundedGroup" ELSE "atom"
             around == Front(x.stack)
  <2>1. closed \in BOOLEAN /\ around # <<>>
    <3>1. Len(x.stack) >= 1 /\ Len(x.stack) - 1 >= 1
      BY <1>1, <1>3
    <3> QED
      BY <1>1, <3>1, FrontFact
  <2>2. (x.stack # <<>> /\ closed) = closed
    BY <2>1
  <2>3. Throws(around, closed) = FALSE
    BY <2>1 DEF Throws
  <2>4. ScanToken(x, t) = CloseGroup(x)
    BY <1>3 DEF ScanToken
  <2>5. CloseGroup(x) = [x EXCEPT !.stack = Bear(around, closed), !.last = kind,
                                  !.refused = @ \/ Throws(around, closed)]
    BY <2>2 DEF CloseGroup
  <2> HIDE DEF closed, around, kind
  <2>6. CloseGroup(x) = [x EXCEPT !.stack = Bear(around, closed), !.last = kind]
    BY <1>1, <2>3, <2>5 DEF ScanState
  <2> QED
    BY <1>3, <2>4, <2>6 DEF closed, around, kind
<1>4. CASE t \notin {"atom", "class", "(", ")"}
  <2>1. ScanToken(x, t) = ReadQuantifier(x, t)
    BY <1>4 DEF ScanToken, Misread
  <2>2. ReadQuantifier(x, t) =
          [x EXCEPT !.stack   = Bear(@, t = "+"), !.last = "none",
                    !.refused = \/ @
                                \/ x.last = "unboundedGroup" /\ t \in Repeats
                                \/ Throws(x.stack, t = "+")]
    BY DEF ReadQuantifier
  <2>3. Throws(x.stack, t = "+") = FALSE
    BY DEF Throws
  <2>4. ScanToken(x, t) =
          [x EXCEPT !.stack   = Bear(@, t = "+"),
                    !.refused = @ \/ (x.last = "unboundedGroup" /\ t \in Repeats),
                    !.last    = "none"]
    BY <2>1, <2>2, <2>3 DEF ScanState
  <2> QED
    BY <1>4, <2>4
<1> QED
  BY <1>2, <1>3, <1>4

(* After k tokens the group open at depth h has an unbounded quantifier     *)
(* that is in no group open deeper.                                         *)
Bears(p, D, h, k) ==
  \E i \in 1..k : /\ p[i] = "+" /\ \A j \in i..k : D[j] >= h
                  /\ \E j \in i..k : D[j] = h

LEMMA BearsAbove ==
  ASSUME NEW p \in Seq(Tokens), NEW n \in Nat, NEW D \in [0..n -> Nat],
         NEW k \in 1..n, NEW h \in Nat, h < D[k]
  PROVE  Bears(p, D, h, k) <=> Bears(p, D, h, k - 1)
<1>1. k \in Nat /\ k >= 1 /\ D[k] \in Nat /\ D[k] > h
  OBVIOUS
<1>2. ASSUME Bears(p, D, h, k) PROVE Bears(p, D, h, k - 1)
  <2>1. PICK i \in 1..k : /\ p[i] = "+" /\ \A j \in i..k : D[j] >= h
                          /\ \E j \in i..k : D[j] = h
    BY <1>2 DEF Bears
  <2>2. PICK j \in i..k : D[j] = h
    BY <2>1
  <2>3. j # k
    BY <1>1, <2>2
  <2>4. i \in 1..k - 1 /\ j \in i..k - 1 /\ \A m \in i..k - 1 : m \in i..k
    BY <1>1, <2>3
  <2> QED
    BY <2>1, <2>2, <2>4 DEF Bears
<1>3. ASSUME Bears(p, D, h, k - 1) PROVE Bears(p, D, h, k)
  <2>1. PICK i \in 1..k - 1 : /\ p[i] = "+" /\ \A j \in i..k - 1 : D[j] >= h
                              /\ \E j \in i..k - 1 : D[j] = h
    BY <1>3 DEF Bears
  <2>2. i \in 1..k /\ (\A j \in i..k - 1 : j \in i..k) /\ \A j \in i..k : j = k \/ j \in i..k - 1
    BY <1>1
  <2>3. \A j \in i..k : D[j] >= h
    BY <1>1, <2>1, <2>2
  <2> QED
    BY <2>1, <2>2, <2>3 DEF Bears
<1> QED
  BY <1>2, <1>3

LEMMA BearsHere ==
  ASSUME NEW p \in Seq(Tokens), NEW n \in Nat, n = Len(p), NEW D, DepthsOf(p, D, n), NEW k \in 1..n
  PROVE  /\ p[k] = "(" => ~Bears(p, D, D[k], k)
         /\ p[k] = ")" => /\ Closes(p, D, k) <=> Bears(p, D, D[k - 1], k - 1)
                          /\ Bears(p, D, D[k], k) <=>
                               Bears(p, D, D[k], k - 1) \/ Bears(p, D, D[k - 1], k - 1)
         /\ p[k] \notin {"(", ")"} =>
              (Bears(p, D, D[k], k) <=> Bears(p, D, D[k], k - 1) \/ p[k] = "+")
<1>1. /\ k \in Nat /\ k >= 1 /\ D[k] \in Nat /\ D[k - 1] \in Nat
      /\ \A j \in 1..n : D[j] \in Nat
      /\ D[k] = D[k - 1] + IF p[k] = "(" THEN 1 ELSE IF p[k] = ")" THEN -1 ELSE 0
  <2>1. /\ k \in 0..n /\ k - 1 \in 0..n /\ \A j \in 1..n : j \in 0..n
    OBVIOUS
  <2> QED
    BY <2>1 DEF DepthsOf
<1>2. k - 1 \in Nat /\ (\A i \in 1..k - 1 : i \in 1..k /\ k - 1 \in i..k - 1)
      /\ (\A i \in 1..k : i \in 1..k - 1 \/ i = k)
      /\ \A i \in 1..k : \A j \in i..k : j \in i..k - 1 \/ j = k
  BY <1>1
<1>3. CASE p[k] = "("
  <2>1. D[k - 1] = D[k] - 1
    BY <1>1, <1>3
  <2> SUFFICES ASSUME NEW i \in 1..k, p[i] = "+", \A j \in i..k : D[j] >= D[k] PROVE FALSE
    BY <1>3 DEF Bears
  <2>2. i \in 1..k - 1
    BY <1>2, <1>3
  <2>3. k - 1 \in i..k
    BY <2>2
  <2>4. D[k - 1] >= D[k]
    BY <2>3
  <2> QED
    BY <1>1, <2>1, <2>4
<1>4. CASE p[k] = ")"
  <2>1. D[k - 1] = D[k] + 1
    BY <1>1, <1>4
  <2>2. Closes(p, D, k) <=> Bears(p, D, D[k - 1], k - 1)
    <3>1. Closes(p, D, k) <=> \E i \in 1..k - 1 : p[i] = "+" /\ \A j \in i..k - 1 : D[j] > D[k]
      BY <1>1, <1>4 DEF Closes
    <3>2. Bears(p, D, D[k - 1], k - 1) <=>
            \E i \in 1..k - 1 : p[i] = "+" /\ \A j \in i..k - 1 : D[j] >= D[k - 1]
      BY <1>2 DEF Bears
    <3>3. \A i \in 1..k - 1 : \A j \in i..k - 1 : D[j] > D[k] <=> D[j] >= D[k - 1]
      <4>1. \A i \in 1..k - 1 : \A j \in i..k - 1 : D[j] \in Nat
        BY <1>1
      <4> QED
        BY <1>1, <2>1, <4>1
    <3> QED
      BY <3>1, <3>2, <3>3
  <2>3. ASSUME Bears(p, D, D[k], k) PROVE Bears(p, D, D[k], k - 1) \/ Closes(p, D, k)
    <3>1. PICK i \in 1..k : p[i] = "+" /\ \A j \in i..k : D[j] >= D[k]
      BY <2>3 DEF Bears
    <3>2. i \in 1..k - 1 /\ \A j \in i..k - 1 : j \in i..k /\ D[j] \in Nat
      BY <1>1, <1>2, <1>4, <3>1
    <3>3. CASE \E j \in i..k - 1 : D[j] = D[k]
      BY <3>1, <3>2, <3>3 DEF Bears
    <3>4. CASE \A j \in i..k - 1 : D[j] # D[k]
      <4>1. \A j \in i..k - 1 : D[j] > D[k]
        BY <1>1, <3>1, <3>2, <3>4
      <4> QED
        BY <1>1, <1>4, <3>1, <3>2, <4>1 DEF Closes
    <3> QED
      BY <3>3, <3>4
  <2>4. ASSUME Bears(p, D, D[k], k - 1) \/ Closes(p, D, k) PROVE Bears(p, D, D[k], k)
    <3>1. PICK i \in 1..k - 1 : p[i] = "+" /\ \A j \in i..k - 1 : D[j] >= D[k]
      <4>1. CASE Bears(p, D, D[k], k - 1)
        BY <4>1 DEF Bears
      <4>2. CASE Closes(p, D, k)
        <5>1. PICK i \in 1..k - 1 : p[i] = "+" /\ \A j \in i..k - 1 : D[j] > D[k]
          BY <4>2 DEF Closes
        <5>2. \A j \in i..k - 1 : D[j] \in Nat
          BY <1>1
        <5>3. \A j \in i..k - 1 : D[j] >= D[k]
          BY <1>1, <5>1, <5>2
        <5> QED
          BY <5>1, <5>3
      <4> QED
        BY <2>4, <4>1, <4>2
    <3>2. i \in 1..k /\ k \in i..k
      BY <1>1
    <3>3. \A j \in i..k : D[j] >= D[k]
      BY <1>1, <1>2, <3>1, <3>2
    <3> QED
      BY <3>1, <3>2, <3>3 DEF Bears
  <2> QED
    BY <1>4, <2>2, <2>3, <2>4
<1>5. CASE p[k] \notin {"(", ")"}
  <2>1. D[k - 1] = D[k]
    BY <1>1, <1>5
  <2>2. ASSUME Bears(p, D, D[k], k), p[k] # "+" PROVE Bears(p, D, D[k], k - 1)
    <3>1. PICK i \in 1..k : p[i] = "+" /\ \A j \in i..k : D[j] >= D[k]
      BY <2>2 DEF Bears
    <3>2. i \in 1..k - 1 /\ k - 1 \in i..k - 1 /\ \A j \in i..k - 1 : j \in i..k
      BY <1>1, <1>2, <2>2, <3>1
    <3> QED
      BY <2>1, <3>1, <3>2 DEF Bears
  <2>3. ASSUME Bears(p, D, D[k], k - 1) PROVE Bears(p, D, D[k], k)
    <3>1. PICK i \in 1..k - 1 : p[i] = "+" /\ \A j \in i..k - 1 : D[j] >= D[k]
      BY <2>3 DEF Bears
    <3>2. i \in 1..k /\ k \in i..k
      BY <1>1
    <3>3. \A j \in i..k : D[j] >= D[k]
      BY <1>1, <1>2, <3>1, <3>2
    <3> QED
      BY <3>1, <3>2, <3>3 DEF Bears
  <2>4. ASSUME p[k] = "+" PROVE Bears(p, D, D[k], k)
    <3>1. k \in 1..k /\ \A j \in k..k : j = k
      BY <1>1
    <3>2. k \in k..k /\ D[k] >= D[k]
      BY <1>1
    <3> QED
      BY <2>4, <3>1, <3>2 DEF Bears
  <2> QED
    BY <1>5, <2>2, <2>3, <2>4
<1> QED
  BY <1>3, <1>4, <1>5

(* What the scan knows after k tokens. *)
Repeated(p, D, k) == \E r \in 1..k - 1 : p[r + 1] \in Repeats /\ Closes(p, D, r)

StackKnows(stack, p, D, k) ==
  /\ Len(stack) = D[k] + 1
  /\ \A h \in 0..D[k] : stack[h + 1] <=> Bears(p, D, h, k)

ScanKnows(x, p, D, k) ==
  /\ x \in ScanState /\ ~x.inside /\ x.last # "point" /\ StackKnows(x.stack, p, D, k)
  /\ x.last = "unboundedGroup" <=> Closes(p, D, k)
  /\ x.refused <=> Repeated(p, D, k)

(* The k-th token does to such a state what it does to any.                 *)
LEMMA PlainHere ==
  ASSUME NEW p \in Seq(Tokens), NEW n \in Nat, n = Len(p), NEW D, DepthsOf(p, D, n),
         NEW k \in 1..n, p[k] \notin Misread,
         NEW x \in ScanState, ~x.inside, x.last # "point", StackKnows(x.stack, p, D, k - 1)
  PROVE  x.stack # <<>> /\ p[k] \in Tokens /\ (p[k] = ")" => Len(x.stack) >= 2)
<1>1. /\ D[k] \in Nat /\ D[k - 1] \in Nat
      /\ p[k] = ")" => D[k] = D[k - 1] - 1
  <2>1. k \in 0..n /\ k - 1 \in 0..n
    OBVIOUS
  <2> QED
    BY <2>1 DEF DepthsOf
<1>2. Len(x.stack) = D[k - 1] + 1 /\ x.stack \in Seq(BOOLEAN)
  BY DEF StackKnows, ScanState
<1>3. x.stack # <<>>
  <2>1. Len(<<>>) = 0
    OBVIOUS
  <2> QED
    BY <1>1, <1>2, <2>1
<1> QED
  BY <1>1, <1>2, <1>3

LEMMA StackStep ==
  ASSUME NEW p \in Seq(Tokens), NEW n \in Nat, n = Len(p), NEW D, DepthsOf(p, D, n),
         NEW k \in 1..n, p[k] \notin Misread,
         NEW x \in ScanState, ~x.inside, x.last # "point", StackKnows(x.stack, p, D, k - 1)
  PROVE  /\ StackKnows(ScanToken(x, p[k]).stack, p, D, k)
         /\ ScanToken(x, p[k]).last = "unboundedGroup" <=> Closes(p, D, k)
<1>0. x.stack # <<>> /\ p[k] \in Tokens /\ (p[k] = ")" => Len(x.stack) >= 2)
  BY PlainHere
<1> DEFINE st == x.stack
           y == ScanToken(x, p[k])
<1>1. /\ k \in Nat /\ k >= 1 /\ D[k] \in Nat /\ D[k - 1] \in Nat
      /\ D[k] = D[k - 1] + IF p[k] = "(" THEN 1 ELSE IF p[k] = ")" THEN -1 ELSE 0
      /\ D \in [0..n -> Nat] /\ p[k] \in Tokens
  <2>1. k \in 0..n /\ k - 1 \in 0..n
    OBVIOUS
  <2> QED
    BY <2>1 DEF DepthsOf
<1>2. /\ st \in Seq(BOOLEAN) /\ Len(st) = D[k - 1] + 1
      /\ \A h \in 0..D[k - 1] : st[h + 1] <=> Bears(p, D, h, k - 1)
  BY DEF StackKnows, ScanState
<1>3. \A h \in Nat : h < D[k] => (Bears(p, D, h, k) <=> Bears(p, D, h, k - 1))
  BY <1>1, BearsAbove
<1>4. CASE p[k] = "("
  <2>1. y = [x EXCEPT !.stack = Append(@, FALSE), !.last = "none"]
    BY <1>0, <1>4, PlainToken
  <2>2. y.stack = Append(st, FALSE) /\ y.last = "none"
    BY <2>1 DEF ScanState
  <2>3. D[k] = D[k - 1] + 1 /\ ~Bears(p, D, D[k], k)
    BY <1>1, <1>4, BearsHere
  <2> DEFINE a == Append(st, FALSE)
  <2>4. /\ Len(a) = D[k - 1] + 2 /\ a[D[k - 1] + 2] = FALSE
        /\ \A i \in 1..D[k - 1] + 1 : a[i] = st[i]
    BY <1>1, <1>2
  <2> HIDE DEF a, y, st
  <2>5. ASSUME NEW h \in 0..D[k] PROVE a[h + 1] <=> Bears(p, D, h, k)
    <3>1. CASE h = D[k]
      <4>1. h + 1 = D[k - 1] + 2
        BY <1>1, <2>3, <3>1
      <4> QED
        BY <2>3, <2>4, <3>1, <4>1
    <3>2. CASE h # D[k]
      <4>1. h \in Nat /\ h < D[k] /\ h \in 0..D[k - 1] /\ h + 1 \in 1..D[k - 1] + 1
        BY <1>1, <2>3, <3>2
      <4> QED
        BY <1>2, <1>3, <2>4, <4>1
    <3> QED
      BY <3>1, <3>2
  <2>6. Len(a) = D[k] + 1
    BY <1>1, <2>3, <2>4
  <2>7. StackKnows(a, p, D, k)
    BY <2>5, <2>6 DEF StackKnows
  <2>8. ~Closes(p, D, k)
    BY <1>4 DEF Closes
  <2> QED
    BY <2>2, <2>7, <2>8 DEF a, y
<1>5. CASE p[k] = ")"
  <2> DEFINE closed == Last(st)
             f == Front(st)
             a == Bear(f, closed)
  <2>1. y = [x EXCEPT !.stack = Bear(Front(@), closed),
                      !.last = IF closed THEN "unboundedGroup" ELSE "atom"]
    BY <1>0, <1>5, PlainToken
  <2>2. y.stack = a /\ y.last = IF closed THEN "unboundedGroup" ELSE "atom"
    BY <2>1 DEF ScanState
  <2>3. /\ D[k - 1] = D[k] + 1
        /\ Closes(p, D, k) <=> Bears(p, D, D[k - 1], k - 1)
        /\ Bears(p, D, D[k], k) <=>
             Bears(p, D, D[k], k - 1) \/ Bears(p, D, D[k - 1], k - 1)
    BY <1>1, <1>5, BearsHere
  <2> HIDE DEF st, y
  <2>4. /\ f \in Seq(BOOLEAN) /\ Len(f) = D[k] + 1 /\ closed \in BOOLEAN
        /\ closed = st[D[k] + 2] /\ \A i \in 1..D[k] + 1 : f[i] = st[i]
    <3>1. Len(st) >= 1 /\ Len(st) - 1 = D[k] + 1 /\ Len(st) = D[k] + 2
      BY <1>1, <1>2, <2>3
    <3> QED
      BY <1>2, <3>1, FrontFact
  <2>5. closed <=> Bears(p, D, D[k - 1], k - 1)
    <3>1. D[k - 1] \in 0..D[k - 1] /\ D[k - 1] + 1 = D[k] + 2
      BY <1>1, <2>3
    <3> QED
      BY <1>2, <2>4, <3>1
  <2> HIDE DEF closed, f
  <2>6. /\ Len(a) = D[k] + 1
        /\ \A i \in 1..D[k] + 1 : a[i] = IF i = D[k] + 1 THEN f[i] \/ closed ELSE f[i]
    <3>1. BearOf(a, f, closed)
      BY <2>4, BearFact
    <3> HIDE DEF a
    <3> QED
      BY <2>4, <3>1 DEF BearOf
  <2> HIDE DEF a
  <2>7. ASSUME NEW h \in 0..D[k] PROVE a[h + 1] <=> Bears(p, D, h, k)
    <3>1. h \in Nat /\ h + 1 \in 1..D[k] + 1 /\ h \in 0..D[k - 1]
      BY <1>1, <2>3
    <3>2. f[h + 1] <=> Bears(p, D, h, k - 1)
      BY <1>2, <2>4, <3>1
    <3>3. CASE h = D[k]
      <4>1. a[h + 1] = (f[h + 1] \/ closed)
        BY <2>6, <3>1, <3>3
      <4> QED
        BY <2>3, <2>5, <3>2, <3>3, <4>1
    <3>4. CASE h # D[k]
      <4>1. a[h + 1] = f[h + 1] /\ h < D[k]
        BY <1>1, <2>6, <3>1, <3>4
      <4> QED
        BY <1>3, <3>1, <3>2, <4>1
    <3> QED
      BY <3>3, <3>4
  <2>8. StackKnows(a, p, D, k)
    BY <2>6, <2>7 DEF StackKnows
  <2> QED
    BY <2>2, <2>3, <2>5, <2>8 DEF y
<1>6. CASE p[k] \notin {"(", ")"}
  <2>1. /\ D[k - 1] = D[k] /\ ~Closes(p, D, k)
        /\ Bears(p, D, D[k], k) <=> Bears(p, D, D[k], k - 1) \/ p[k] = "+"
    BY <1>1, <1>6, BearsHere DEF Closes
  <2>2. CASE p[k] \in {"atom", "class"}
    <3>1. y = [x EXCEPT !.last = "atom"]
      BY <1>0, <2>2, PlainToken
    <3>2. y.stack = st /\ y.last = "atom"
      BY <3>1 DEF ScanState
    <3> HIDE DEF st, y
    <3>3. ASSUME NEW h \in 0..D[k] PROVE st[h + 1] <=> Bears(p, D, h, k)
      <4>1. h \in Nat /\ (h = D[k] \/ h < D[k]) /\ h \in 0..D[k - 1]
        BY <1>1, <2>1
      <4> QED
        BY <1>2, <1>3, <2>1, <2>2, <4>1
    <3>4. StackKnows(st, p, D, k)
      BY <1>2, <2>1, <3>3 DEF StackKnows
    <3> QED
      BY <2>1, <3>2, <3>4 DEF y
  <2>3. CASE p[k] \notin {"atom", "class"}
    <3> DEFINE b == p[k] = "+"
               a == Bear(st, b)
    <3>1. y = [x EXCEPT !.stack = Bear(@, p[k] = "+"),
                        !.refused = @ \/ (x.last = "unboundedGroup" /\ p[k] \in Repeats),
                        !.last = "none"]
      BY <1>0, <1>6, <2>3, PlainToken
    <3>2. y.stack = a /\ y.last = "none"
      BY <3>1 DEF ScanState
    <3> HIDE DEF st, y
    <3>3. b \in BOOLEAN
      OBVIOUS
    <3>4. b <=> p[k] = "+"
      OBVIOUS
    <3> HIDE DEF b
    <3>5. /\ Len(a) = D[k] + 1
          /\ \A i \in 1..D[k] + 1 : a[i] = IF i = D[k] + 1 THEN st[i] \/ b ELSE st[i]
      <4>1. BearOf(a, st, b)
        BY <1>2, <3>3, BearFact
      <4> HIDE DEF a
      <4> QED
        BY <1>2, <2>1, <4>1 DEF BearOf
    <3> HIDE DEF a
    <3>6. ASSUME NEW h \in 0..D[k] PROVE a[h + 1] <=> Bears(p, D, h, k)
      <4>1. h \in Nat /\ h + 1 \in 1..D[k] + 1 /\ h \in 0..D[k - 1]
        BY <1>1, <2>1
      <4>2. st[h + 1] <=> Bears(p, D, h, k - 1)
        BY <1>2, <4>1
      <4>3. CASE h = D[k]
        <5>1. a[h + 1] = (st[h + 1] \/ b)
          BY <3>5, <4>1, <4>3
        <5> QED
          BY <2>1, <3>4, <4>2, <4>3, <5>1
      <4>4. CASE h # D[k]
        <5>1. a[h + 1] = st[h + 1] /\ h < D[k]
          BY <1>1, <3>5, <4>1, <4>4
        <5> QED
          BY <1>3, <4>1, <4>2, <5>1
      <4> QED
        BY <4>3, <4>4
    <3>7. StackKnows(a, p, D, k)
      BY <3>5, <3>6 DEF StackKnows
    <3> QED
      BY <2>1, <3>2, <3>7 DEF y
  <2> QED
    BY <2>2, <2>3
<1> QED
  BY <1>4, <1>5, <1>6

LEMMA ScanStep ==
  ASSUME NEW p \in Seq(Tokens), NEW n \in Nat, n = Len(p), NEW D, DepthsOf(p, D, n),
         NEW k \in 1..n, p[k] \notin Misread, NEW x, ScanKnows(x, p, D, k - 1)
  PROVE  ScanKnows(ScanToken(x, p[k]), p, D, k)
<1> DEFINE y == ScanToken(x, p[k])
<1>1. /\ x \in ScanState /\ StackKnows(x.stack, p, D, k - 1) /\ p[k] \in Tokens
      /\ ~x.inside /\ x.last # "point"
      /\ x.last = "unboundedGroup" <=> Closes(p, D, k - 1)
      /\ x.refused <=> Repeated(p, D, k - 1)
  BY DEF ScanKnows
<1>2. y \in ScanState
  BY <1>1, ScanTokenFact
<1>3. StackKnows(y.stack, p, D, k) /\ (y.last = "unboundedGroup" <=> Closes(p, D, k))
  BY <1>1, StackStep
<1>4. Repeated(p, D, k) <=> Repeated(p, D, k - 1) \/ (p[k] \in Repeats /\ Closes(p, D, k - 1))
  <2>1. \A r \in 1..k - 1 : r = k - 1 \/ r \in 1..k - 1 - 1
    OBVIOUS
  <2>2. k - 1 + 1 = k /\ \A r \in 1..k - 1 - 1 : r \in 1..k - 1
    OBVIOUS
  <2>3. Closes(p, D, k - 1) => k - 1 \in 1..k - 1
    BY DEF Closes
  <2> QED
    BY <2>1, <2>2, <2>3 DEF Repeated
<1>5. x.stack # <<>> /\ (p[k] = ")" => Len(x.stack) >= 2)
  BY <1>1, PlainHere
<1>6. /\ y.refused <=> x.refused \/ (p[k] \in Repeats /\ x.last = "unboundedGroup")
      /\ ~y.inside /\ y.last # "point"
  <2>1. CASE p[k] \in {"atom", "class"}
    <3>1. y = [x EXCEPT !.last = "atom"]
      BY <1>1, <1>5, <2>1, PlainToken
    <3> QED
      BY <1>1, <2>1, <3>1 DEF ScanState, Repeats
  <2>2. CASE p[k] = "("
    <3>1. y = [x EXCEPT !.stack = Append(@, FALSE), !.last = "none"]
      BY <1>1, <1>5, <2>2, PlainToken
    <3> QED
      BY <1>1, <2>2, <3>1 DEF ScanState, Repeats
  <2>3. CASE p[k] = ")"
    <3>1. y = [x EXCEPT !.stack = Bear(Front(@), Last(x.stack)),
                        !.last = IF Last(x.stack) THEN "unboundedGroup" ELSE "atom"]
      BY <1>1, <1>5, <2>3, PlainToken
    <3> QED
      BY <1>1, <2>3, <3>1 DEF ScanState, Repeats
  <2>4. CASE p[k] \notin {"atom", "class", "(", ")"}
    <3>1. y = [x EXCEPT !.stack = Bear(@, p[k] = "+"),
                        !.refused = @ \/ (x.last = "unboundedGroup" /\ p[k] \in Repeats),
                        !.last = "none"]
      BY <1>1, <1>5, <2>4, PlainToken
    <3> QED
      BY <1>1, <3>1 DEF ScanState
  <2> QED
    BY <2>1, <2>2, <2>3, <2>4
<1> HIDE DEF y
<1>7. ScanKnows(y, p, D, k)
  BY <1>1, <1>2, <1>3, <1>4, <1>6 DEF ScanKnows
<1> QED
  BY <1>7 DEF y

LEMMA ScanStart ==
  ASSUME NEW p, NEW n \in Nat, NEW D, DepthsOf(p, D, n)
  PROVE  Scan \in ScanState /\ ScanKnows(Scan, p, D, 0)
<1>1. /\ <<FALSE>> \in Seq(BOOLEAN) /\ Len(<<FALSE>>) = 1 /\ <<FALSE>>[1] = FALSE
      /\ D[0] = 0 /\ 1..0 = {} /\ \A h \in 0..0 : h + 1 = 1
  BY DEF DepthsOf
<1>2. Scan \in ScanState
  BY <1>1 DEF Scan, ScanState
<1>3. StackKnows(<<FALSE>>, p, D, 0)
  BY <1>1 DEF StackKnows, Bears
<1>4. ~Closes(p, D, 0) /\ ~Repeated(p, D, 0)
  BY DEF Closes, Repeated
<1> QED
  BY <1>2, <1>3, <1>4 DEF ScanKnows, Scan

(* The scan of the tokens before the first it misreads finds what they      *)
(* nest, and what it found there stays found.                               *)
LEMMA ScanFact ==
  ASSUME NEW p \in Seq(Tokens), NEW n \in Nat, n = Len(p), NEW D, DepthsOf(p, D, n),
         NEW k \in 0..n, \A i \in 1..k : p[i] \notin Misread
  PROVE  /\ Repeated(p, D, k) => FindDangerousConstruct(p)
         /\ k = n /\ FindDangerousConstruct(p) => Repeated(p, D, k)
<1> DEFINE g == [i \in 1..n |-> [x \in ScanState |-> ScanToken(x, p[i])]]
           scan == CHOOSE f : f = [i \in 0..n |-> IF i = 0 THEN Scan ELSE ScanToken(f[i - 1], p[i])]
<1>1. \A i \in 1..n : p[i] \in Tokens
  OBVIOUS
<1>2. StepsIn(g, n, ScanState)
  <2> SUFFICES ASSUME NEW x \in ScanState, NEW i \in 1..n PROVE g[i][x] \in ScanState
    BY DEF StepsIn
  <2>1. ScanToken(x, p[i]) \in ScanState
    BY <1>1, ScanTokenFact
  <2> QED
    BY <2>1
<1>3. PICK f : Runs(f, n, ScanState, Scan, g)
  <2> HIDE DEF g, scan
  <2>1. Scan \in ScanState
    BY ScanStart
  <2> QED
    BY <1>2, <2>1, RecursionFact
<1>4. ASSUME NEW i \in 0..n PROVE f[i] = IF i = 0 THEN Scan ELSE ScanToken(f[i - 1], p[i])
  <2>1. CASE i = 0
    BY <1>3, <2>1 DEF Runs
  <2>2. CASE i # 0
    <3>1. i \in 1..n /\ i - 1 \in 0..n
      BY <2>2
    <3>2. f[i] = g[i][f[i - 1]] /\ f[i - 1] \in ScanState
      BY <1>3, <3>1 DEF Runs
    <3> QED
      BY <2>2, <3>1, <3>2
  <2> QED
    BY <2>1, <2>2
<1>5. f = [i \in 0..n |-> IF i = 0 THEN Scan ELSE ScanToken(f[i - 1], p[i])]
  <2> HIDE DEF g, scan
  <2>1. f = [i \in 0..n |-> f[i]]
    BY <1>3 DEF Runs
  <2> QED
    BY <1>4, <2>1
<1>6. scan = [i \in 0..n |-> IF i = 0 THEN Scan ELSE ScanToken(scan[i - 1], p[i])]
  <2> HIDE DEF g
  <2> QED
    BY <1>5
<1>7. FindDangerousConstruct(p) = scan[n].refused
  BY DEF FindDangerousConstruct
<1> HIDE DEF g, scan
<1>8. ASSUME NEW i \in 0..n PROVE scan[i] = IF i = 0 THEN Scan ELSE ScanToken(scan[i - 1], p[i])
  BY <1>6
<1> DEFINE P == {i \in 0..k : ScanKnows(scan[i], p, D, i)}
<1>9. 0 \in P
  <2>1. 0 \in 0..n /\ 0 \in 0..k
    OBVIOUS
  <2>2. scan[0] = Scan
    BY <1>8, <2>1
  <2> QED
    BY <2>1, <2>2, ScanStart
<1>10. ASSUME NEW i \in 1..k, i - 1 \in P PROVE i \in P
  <2>1. i \in 0..n /\ i # 0 /\ i \in 0..k /\ i \in 1..n
    OBVIOUS
  <2>2. scan[i] = ScanToken(scan[i - 1], p[i])
    BY <1>8, <2>1
  <2>3. ScanKnows(scan[i - 1], p, D, i - 1)
    BY <1>10
  <2>4. ScanKnows(scan[i], p, D, i)
    BY <2>1, <2>2, <2>3, ScanStep
  <2> QED
    BY <2>1, <2>4
<1>11. ScanKnows(scan[k], p, D, k)
  <2>1. \A i \in 1..k : i - 1 \in P => i \in P
    BY <1>10
  <2>2. k \in Nat
    OBVIOUS
  <2> HIDE DEF P
  <2>3. \A i \in 0..k : i \in P
    BY <1>9, <2>1, <2>2, Reaches
  <2>4. k \in P
    BY <2>2, <2>3
  <2> QED
    BY <2>4 DEF P
<1> DEFINE Q == {i \in 0..n - k : scan[k + i] \in ScanState /\ (scan[k].refused => scan[k + i].refused)}
<1>12. 0 \in Q
  <2>1. k + 0 = k /\ 0 \in 0..n - k
    OBVIOUS
  <2> QED
    BY <1>11, <2>1 DEF ScanKnows
<1>13. ASSUME NEW i \in 1..n - k, i - 1 \in Q PROVE i \in Q
  <2>1. /\ k + i \in 0..n /\ k + i # 0 /\ k + i - 1 = k + (i - 1) /\ i \in 0..n - k
        /\ k + i \in 1..n
    OBVIOUS
  <2>2. scan[k + i] = ScanToken(scan[k + (i - 1)], p[k + i])
    BY <1>8, <2>1
  <2>3. scan[k + (i - 1)] \in ScanState /\ (scan[k].refused => scan[k + (i - 1)].refused)
    BY <1>13
  <2>4. p[k + i] \in Tokens
    BY <1>1, <2>1
  <2>5. scan[k + i] \in ScanState /\ (scan[k + (i - 1)].refused => scan[k + i].refused)
    BY <2>2, <2>3, <2>4, ScanTokenFact
  <2> QED
    BY <2>1, <2>3, <2>5
<1>14. scan[k].refused => scan[n].refused
  <2>1. \A i \in 1..n - k : i - 1 \in Q => i \in Q
    BY <1>13
  <2>2. n - k \in Nat /\ k + (n - k) = n
    OBVIOUS
  <2> HIDE DEF Q
  <2>3. \A i \in 0..n - k : i \in Q
    BY <1>12, <2>1, <2>2, Reaches
  <2>4. n - k \in Q
    BY <2>2, <2>3
  <2> QED
    BY <2>2, <2>4 DEF Q
<1> QED
  BY <1>7, <1>11, <1>14 DEF ScanKnows

LEMMA NestedFact ==
  ASSUME NEW p \in Seq(Tokens), NEW n \in Nat, n = Len(p),
         NEW D, D = [m \in 0..n |-> Depth(p, m)], DepthsOf(p, D, n), NEW k \in 0..n
  PROVE  Nested(p, k) <=> Repeated(p, D, k)
<1>1. \A l, r \in 1..n : l < r => (Group(p, l, r) <=> GroupAt(p, D, l, r))
  BY GroupFact
<1>2. \A r \in 1..n : Closes(p, D, r) <=>
        \E l \in 1..n : l < r /\ GroupAt(p, D, l, r) /\ \E i \in l + 1..r - 1 : p[i] = "+"
  BY ClosedGroup
<1>3. Repeated(p, D, k) <=> \E r \in 1..k : r < k /\ p[r + 1] \in Repeats /\ Closes(p, D, r)
  <2>1. \A r : r \in 1..k - 1 <=> r \in 1..k /\ r < k
    OBVIOUS
  <2> QED
    BY <2>1 DEF Repeated
<1>4. \A r \in 1..k : r \in 1..n /\ \A l \in 1..n : l < r => l \in 1..k
  OBVIOUS
<1>5. \A l \in 1..k : l \in 1..n
  OBVIOUS
<1>6. \A r \in 1..k : Closes(p, D, r) <=>
        \E l \in 1..k : l < r /\ Group(p, l, r) /\ \E i \in l + 1..r - 1 : p[i] = "+"
  <2> SUFFICES ASSUME NEW r \in 1..k
               PROVE  Closes(p, D, r) <=>
                        \E l \in 1..k : l < r /\ Group(p, l, r) /\ \E i \in l + 1..r - 1 : p[i] = "+"
    OBVIOUS
  <2>1. r \in 1..n
    BY <1>4
  <2> QED
    BY <1>1, <1>2, <1>4, <1>5, <2>1
<1> QED
  BY <1>3, <1>6 DEF Nested

LEMMA DangerFact ==
  ASSUME NEW p \in Patterns, NEW k \in 0..Len(p), Reads(p, k)
  PROVE  /\ Nested(p, k) => FindDangerousConstruct(p)
         /\ k = Len(p) /\ FindDangerousConstruct(p) => Nested(p, k)
<1>1. p \in Seq(Tokens) /\ \A m \in 0..Len(p) : Depth(p, m) >= 0
  BY PatternAssumption
<1>2. PICK n \in Nat : n = Len(p)
  BY <1>1
<1> DEFINE D == [m \in 0..n |-> Depth(p, m)]
<1>3. DepthsOf(p, D, n)
  BY <1>1, <1>2, DepthsFact
<1>4. D = [m \in 0..n |-> Depth(p, m)]
  OBVIOUS
<1> HIDE DEF D
<1>5. Nested(p, k) <=> Repeated(p, D, k)
  BY <1>1, <1>2, <1>3, <1>4, NestedFact
<1>6. \A i \in 1..k : p[i] \notin Misread
  BY DEF Reads
<1> QED
  BY <1>1, <1>2, <1>3, <1>5, <1>6, ScanFact

(* The scan finds the repeated groups with an unbounded quantifier inside,  *)
(* of any depth and in a pattern of any length, up to the first token it    *)
(* misreads, and nothing else in a pattern that has no such token.          *)
THEOREM RefusesNestedQuantifiersHolds == TransformSpec => []RefusesNestedQuantifiers
<1>1. Init => RefusesNestedQuantifiers
  BY DEF Init, Idle, RefusesNestedQuantifiers
<1>2. ASSUME Transform PROVE RefusesNestedQuantifiers'
  <2>1. ASSUME NEW p \in Patterns, Judge(p) PROVE RefusesNestedQuantifiers'
    <3>1. task' = [do |-> "judge", pattern |-> p, refused |-> FindDangerousConstruct(p)]
      BY <2>1 DEF Judge
    <3>2. task'.pattern = p /\ task'.refused = FindDangerousConstruct(p)
      BY <3>1
    <3>3. \A k \in 0..Len(p) : Reads(p, k) =>
            /\ Nested(p, k) => FindDangerousConstruct(p)
            /\ k = Len(p) /\ FindDangerousConstruct(p) => Nested(p, k)
      BY DangerFact
    <3> QED
      BY <3>2, <3>3 DEF RefusesNestedQuantifiers
  <2>2. ASSUME task'.do # "judge" PROVE RefusesNestedQuantifiers'
    BY <2>2 DEF RefusesNestedQuantifiers
  <2> QED
    BY <1>2, <2>1, <2>2 DEF Transform, Mask, Truncate
<1>3. UNCHANGED task /\ RefusesNestedQuantifiers => RefusesNestedQuantifiers'
  BY DEF RefusesNestedQuantifiers
<1> QED
  BY <1>1, <1>2, <1>3, PTL DEF TransformSpec

-----------------------------------------------------------------------------
(* Configurations                                                            *)

Flat(c) == DOMAIN c \subseteq Seq(Names)

LEMMA PathJoin ==
  ASSUME NEW S, NEW k \in S, NEW p \in Seq(S)
  PROVE  /\ <<k>> \o p \in Seq(S) /\ <<k>> \o p # <<>>
         /\ (<<k>> \o p)[1] = k /\ Tail(<<k>> \o p) = p
<1>1. /\ <<k>> \o p \in Seq(S) /\ Len(<<k>> \o p) = 1 + Len(p) /\ Len(p) \in Nat
      /\ (<<k>> \o p)[1] = k
      /\ \A i \in 1..Len(p) : (<<k>> \o p)[i + 1] = p[i]
  <2> DEFINE one == <<k>>
  <2>1. one \in Seq(S) /\ Len(one) = 1 /\ one[1] = k /\ Len(p) \in Nat
    OBVIOUS
  <2> HIDE DEF one
  <2>2. /\ one \o p \in Seq(S) /\ Len(one \o p) = Len(one) + Len(p)
        /\ \A i \in 1..Len(one) + Len(p) :
             (one \o p)[i] = IF i <= Len(one) THEN one[i] ELSE p[i - Len(one)]
    BY <2>1, ConcatFact
  <2>3. \A i \in 1..Len(p) : i + 1 \in 1..1 + Len(p) /\ ~(i + 1 <= 1) /\ i + 1 - 1 = i
    BY <2>1
  <2>4. 1 \in 1..1 + Len(p)
    BY <2>1
  <2>5. /\ one \o p \in Seq(S) /\ Len(one \o p) = 1 + Len(p) /\ Len(p) \in Nat
        /\ (one \o p)[1] = k
        /\ \A i \in 1..Len(p) : (one \o p)[i + 1] = p[i]
    BY <2>1, <2>2, <2>3, <2>4
  <2> QED
    BY <2>5 DEF one
<1> DEFINE x == <<k>> \o p
<1> HIDE DEF x
<1>2. x \in Seq(S) /\ Len(x) = 1 + Len(p) /\ x[1] = k /\ \A i \in 1..Len(p) : x[i + 1] = p[i]
  BY <1>1 DEF x
<1>3. Tail(x) = p
  <2>1. Tail(x) \in Seq(S) /\ Len(Tail(x)) = Len(p) /\ \A i \in 1..Len(p) : Tail(x)[i] = x[i + 1]
    BY <1>1, <1>2
  <2> QED
    BY <1>2, <2>1
<1>4. x # <<>>
  BY <1>1, <1>2
<1> QED
  BY <1>1, <1>3, <1>4 DEF x

LEMMA PathSplit ==
  ASSUME NEW q \in Seq(Names), q # <<>>
  PROVE  q[1] \in Names /\ Tail(q) \in Seq(Names) /\ q = <<q[1]>> \o Tail(q)
<1>1. /\ Len(q) \in Nat /\ Len(q) >= 1 /\ q[1] \in Names
      /\ Tail(q) \in Seq(Names) /\ Len(Tail(q)) = Len(q) - 1
      /\ \A i \in 1..Len(q) - 1 : Tail(q)[i] = q[i + 1]
  OBVIOUS
<1> DEFINE t == Tail(q)
           x == <<q[1]>> \o t
<1> HIDE DEF t
<1>2. /\ x \in Seq(Names) /\ Len(x) = 1 + Len(t)
      /\ \A i \in 1..Len(x) : x[i] = IF i = 1 THEN q[1] ELSE t[i - 1]
  BY <1>1 DEF t
<1> HIDE DEF x
<1>3. t \in Seq(Names) /\ Len(t) = Len(q) - 1 /\ \A i \in 1..Len(q) - 1 : t[i] = q[i + 1]
  BY <1>1 DEF t
<1>4. Len(x) = Len(q) /\ \A i \in 1..Len(q) : x[i] = q[i]
  BY <1>1, <1>2, <1>3
<1>5. x = q
  BY <1>2, <1>4
<1> QED
  BY <1>1, <1>5 DEF x, t

(* A part has the kinds of the whole under its key. *)
LEMMA PartKinds ==
  ASSUME NEW c, Flat(c), NEW k \in Names
  PROVE  /\ Flat(Part(c, k))
         /\ \A p \in Seq(Names) : At(Part(c, k), p) = At(c, <<k>> \o p)
<1> DEFINE under == {r \in DOMAIN c \ {<<>>} : r[1] = k}
           part == {Tail(q) : q \in under}
<1>1. Part(c, k) = [p \in part |-> c[<<k>> \o p]]
  BY DEF Part
<1>2. part \subseteq Seq(Names)
  BY PathSplit DEF Flat
<1>3. \A p \in Seq(Names) : p \in part <=> <<k>> \o p \in DOMAIN c
  <2> SUFFICES ASSUME NEW p \in Seq(Names) PROVE p \in part <=> <<k>> \o p \in DOMAIN c
    OBVIOUS
  <2>1. ASSUME p \in part PROVE <<k>> \o p \in DOMAIN c
    <3>1. PICK q \in under : p = Tail(q)
      BY <2>1
    <3>2. q \in Seq(Names) /\ q # <<>> /\ q[1] = k
      BY <3>1 DEF Flat
    <3> QED
      BY <3>1, <3>2, PathSplit
  <2>2. ASSUME <<k>> \o p \in DOMAIN c PROVE p \in part
    <3> DEFINE x == <<k>> \o p
    <3>1. x # <<>> /\ x[1] = k /\ Tail(x) = p
      BY PathJoin
    <3> HIDE DEF x
    <3>2. x \in under
      BY <2>2, <3>1 DEF x
    <3> QED
      BY <3>1, <3>2
  <2> QED
    BY <2>1, <2>2
<1> HIDE DEF part
<1>4. DOMAIN Part(c, k) = part
  BY <1>1
<1>5. \A p \in part : Part(c, k)[p] = c[<<k>> \o p]
  BY <1>1
<1> QED
  BY <1>2, <1>3, <1>4, <1>5 DEF Flat, At

(* What a validator takes for undefined is undefined or null. *)
NoneFits(r, c) == r.none \subseteq {p \in Seq(Names) : At(c, p) \in NotGiven}

LEMMA GatheredFact ==
  ASSUME NEW c, Flat(c), NEW rs, DOMAIN rs \subseteq Names,
         \A k \in DOMAIN rs : NoneFits(rs[k], Part(c, k))
  PROVE  NoneFits(Gathered(rs), c)
<1> SUFFICES ASSUME NEW q \in Gathered(rs).none
             PROVE  q \in Seq(Names) /\ At(c, q) \in NotGiven
  BY DEF NoneFits
<1>1. PICK k \in DOMAIN rs : q \in Under(k, rs[k].none)
  BY DEF Gathered
<1>2. PICK p \in rs[k].none : q = <<k>> \o p
  BY <1>1 DEF Under
<1>3. p \in Seq(Names) /\ At(Part(c, k), p) \in NotGiven /\ k \in Names
  BY <1>2 DEF NoneFits
<1> QED
  BY <1>2, <1>3, PartKinds, PathJoin

LEMMA KindNone == ASSUME NEW c, NEW kinds PROVE NoneFits(Kind(kinds, c), c)
BY DEF NoneFits, Kind, Ok, Err

LEMMA OptionalNone ==
  ASSUME NEW c, NEW r, NoneFits(r, c)
  PROVE  NoneFits(IF At(c, <<>>) \in NotGiven THEN [Ok EXCEPT !.none = {<<>>}] ELSE r, c)
<1>1. <<>> \in Seq(Names)
  OBVIOUS
<1> QED
  BY <1>1 DEF NoneFits, Ok

LEMMA EachNone ==
  ASSUME NEW c, Flat(c), NEW kind, NEW rs, DOMAIN rs = Keys(c),
         \A k \in Keys(c) : NoneFits(rs[k], Part(c, k))
  PROVE  NoneFits(IF At(c, <<>>) # kind THEN Err ELSE Gathered(rs), c)
<1>1. Keys(c) \subseteq Names
  BY DEF Keys, Flat
<1>2. NoneFits(Gathered(rs), c)
  BY <1>1, GatheredFact
<1>3. NoneFits(Err, c)
  BY DEF NoneFits, Err
<1> QED
  BY <1>2, <1>3

LEMMA FieldsNone ==
  ASSUME NEW c, Flat(c), NEW fields \in SUBSET Names, NEW rs, DOMAIN rs = fields,
         \A k \in fields : NoneFits(rs[k], Part(c, k))
  PROVE  NoneFits(IF At(c, <<>>) # "object" THEN Err ELSE Gathered(rs), c)
<1>1. NoneFits(Gathered(rs), c)
  BY GatheredFact
<1>2. NoneFits(Err, c)
  BY DEF NoneFits, Err
<1> QED
  BY <1>1, <1>2

LEMMA StringsNone == ASSUME NEW c, Flat(c) PROVE NoneFits(Strings(c), c)
<1> DEFINE rs == [k \in Keys(c) |-> IsString(Part(c, k))]
<1>1. Strings(c) = IF At(c, <<>>) # "array" THEN Err ELSE Gathered(rs)
  BY DEF Strings, ArrayOf
<1>2. \A k \in Keys(c) : k \in Names
  BY DEF Keys, Flat
<1>3. \A k \in Keys(c) : NoneFits(IsString(Part(c, k)), Part(c, k))
  BY <1>2, PartKinds, KindNone DEF IsString
<1>4. DOMAIN rs = Keys(c) /\ \A k \in Keys(c) : NoneFits(rs[k], Part(c, k))
  BY <1>3
<1> HIDE DEF rs
<1> QED
  BY <1>1, <1>4, EachNone

LEMMA HeaderMapNone == ASSUME NEW c, Flat(c) PROVE NoneFits(HeaderMap(c), c)
<1> DEFINE rs == [k \in Keys(c) |-> IsString(Part(c, k))]
<1>1. HeaderMap(c) = IF At(c, <<>>) # "object" THEN Err ELSE Gathered(rs)
  BY DEF HeaderMap, RecordOf
<1>2. \A k \in Keys(c) : k \in Names
  BY DEF Keys, Flat
<1>3. \A k \in Keys(c) : NoneFits(IsString(Part(c, k)), Part(c, k))
  BY <1>2, PartKinds, KindNone DEF IsString
<1>4. DOMAIN rs = Keys(c) /\ \A k \in Keys(c) : NoneFits(rs[k], Part(c, k))
  BY <1>3
<1> HIDE DEF rs
<1> QED
  BY <1>1, <1>4, EachNone

LEMMA TransportsNone == ASSUME NEW c, Flat(c) PROVE NoneFits(Transports(c), c)
<1> DEFINE rs == [k \in Keys(c) |-> IsTransport(Part(c, k))]
<1>1. Transports(c) = IF At(c, <<>>) # "object" THEN Err ELSE Gathered(rs)
  BY DEF Transports, RecordOf
<1>2. \A k \in Keys(c) : k \in Names
  BY DEF Keys, Flat
<1>3. \A k \in Keys(c) : NoneFits(IsTransport(Part(c, k)), Part(c, k))
  BY <1>2, PartKinds, KindNone DEF IsTransport
<1>4. DOMAIN rs = Keys(c) /\ \A k \in Keys(c) : NoneFits(rs[k], Part(c, k))
  BY <1>3
<1> HIDE DEF rs
<1> QED
  BY <1>1, <1>4, EachNone

LEMMA RecordsNone == ASSUME NEW c, Flat(c) PROVE NoneFits(Records(c), c)
<1> DEFINE rs == [k \in Keys(c) |-> IsRecord(Part(c, k))]
<1>1. Records(c) = IF At(c, <<>>) # "object" THEN Err ELSE Gathered(rs)
  BY DEF Records, RecordOf
<1>2. \A k \in Keys(c) : k \in Names
  BY DEF Keys, Flat
<1>3. \A k \in Keys(c) : NoneFits(IsRecord(Part(c, k)), Part(c, k))
  BY <1>2, PartKinds, KindNone DEF IsRecord
<1>4. DOMAIN rs = Keys(c) /\ \A k \in Keys(c) : NoneFits(rs[k], Part(c, k))
  BY <1>3
<1> HIDE DEF rs
<1> QED
  BY <1>1, <1>4, EachNone

LEMMA StringListsNone == ASSUME NEW c, Flat(c) PROVE NoneFits(StringLists(c), c)
<1> DEFINE rs == [k \in Keys(c) |-> Strings(Part(c, k))]
<1>1. StringLists(c) = IF At(c, <<>>) # "object" THEN Err ELSE Gathered(rs)
  BY DEF StringLists, RecordOf
<1>2. \A k \in Keys(c) : k \in Names
  BY DEF Keys, Flat
<1>3. \A k \in Keys(c) : NoneFits(Strings(Part(c, k)), Part(c, k))
  BY <1>2, PartKinds, StringsNone
<1>4. DOMAIN rs = Keys(c) /\ \A k \in Keys(c) : NoneFits(rs[k], Part(c, k))
  BY <1>3
<1> HIDE DEF rs
<1> QED
  BY <1>1, <1>4, EachNone

LEMMA HeaderMapsNone == ASSUME NEW c, Flat(c) PROVE NoneFits(HeaderMaps(c), c)
<1> DEFINE rs == [k \in Keys(c) |-> HeaderMap(Part(c, k))]
<1>1. HeaderMaps(c) = IF At(c, <<>>) # "object" THEN Err ELSE Gathered(rs)
  BY DEF HeaderMaps, RecordOf
<1>2. \A k \in Keys(c) : k \in Names
  BY DEF Keys, Flat
<1>3. \A k \in Keys(c) : NoneFits(HeaderMap(Part(c, k)), Part(c, k))
  BY <1>2, PartKinds, HeaderMapNone
<1>4. DOMAIN rs = Keys(c) /\ \A k \in Keys(c) : NoneFits(rs[k], Part(c, k))
  BY <1>3
<1> HIDE DEF rs
<1> QED
  BY <1>1, <1>4, EachNone

LEMMA ValidateTransportEntryNone ==
  ASSUME NEW c, Flat(c) PROVE NoneFits(ValidateTransportEntry(c), c)
<1> DEFINE rs == [k \in DescriptorKeys |-> DescriptorField(k, Part(c, k))]
<1>1. ValidateTransportEntry(c) =
        IF IsTransport(c) = Ok THEN Ok
        ELSE IF At(c, <<>>) # "object" THEN Err ELSE Gathered(rs)
  BY DEF ValidateTransportEntry, ObjectWith
<1>4. DescriptorKeys \in SUBSET Names
  BY ConfigAssumption DEF SchemaKeys
<1>2. ASSUME NEW k \in DescriptorKeys PROVE NoneFits(DescriptorField(k, Part(c, k)), Part(c, k))
  BY KindNone, OptionalNone DEF DescriptorField, Optional, IsTransport, IsStringOrArray
<1>3. DOMAIN rs = DescriptorKeys /\ \A k \in DescriptorKeys : NoneFits(rs[k], Part(c, k))
  BY <1>2
<1>5. NoneFits(Ok, c)
  BY DEF NoneFits, Ok
<1> HIDE DEF rs
<1> QED
  BY <1>1, <1>3, <1>4, <1>5, FieldsNone

LEMMA TransportEntriesNone == ASSUME NEW c, Flat(c) PROVE NoneFits(TransportEntries(c), c)
<1> DEFINE rs == [k \in Keys(c) |-> ValidateTransportEntry(Part(c, k))]
<1>1. TransportEntries(c) = IF At(c, <<>>) # "array" THEN Err ELSE Gathered(rs)
  BY DEF TransportEntries, ArrayOf
<1>2. \A k \in Keys(c) : k \in Names
  BY DEF Keys, Flat
<1>3. \A k \in Keys(c) : NoneFits(ValidateTransportEntry(Part(c, k)), Part(c, k))
  BY <1>2, PartKinds, ValidateTransportEntryNone
<1>4. DOMAIN rs = Keys(c) /\ \A k \in Keys(c) : NoneFits(rs[k], Part(c, k))
  BY <1>3
<1> HIDE DEF rs
<1> QED
  BY <1>1, <1>4, EachNone

LEMMA ValidateTransportsNone == ASSUME NEW c, Flat(c) PROVE NoneFits(ValidateTransports(c), c)
BY TransportEntriesNone, KindNone DEF ValidateTransports, IsRecord

LEMMA ValidateMaskingRuleNone == ASSUME NEW c, Flat(c) PROVE NoneFits(ValidateMaskingRule(c), c)
<1> DEFINE rs == [k \in MaskingRuleKeys |-> MaskingRuleField(k, Part(c, k))]
<1>1. ValidateMaskingRule(c) = IF At(c, <<>>) # "object" THEN Err ELSE Gathered(rs)
  BY DEF ValidateMaskingRule, ObjectWith
<1>4. MaskingRuleKeys \in SUBSET Names
  BY ConfigAssumption DEF SchemaKeys
<1>2. ASSUME NEW k \in MaskingRuleKeys PROVE NoneFits(MaskingRuleField(k, Part(c, k)), Part(c, k))
  <2> DEFINE d == Part(c, k)
  <2>1. Flat(d)
    BY <1>4, PartKinds
  <2> HIDE DEF d
  <2>2. NoneFits(IsStringOrRegExp(d), d)
    BY <2>1, KindNone DEF IsStringOrRegExp
  <2>3. NoneFits(OneOf(d), d)
    BY <2>1, KindNone DEF OneOf
  <2>4. NoneFits(IsBoolean(d), d)
    BY <2>1, KindNone DEF IsBoolean
  <2>5. NoneFits(IsString(d), d)
    BY <2>1, KindNone DEF IsString
  <2>6. NoneFits(IsFunction(d), d)
    BY <2>1, KindNone DEF IsFunction
  <2>7. NoneFits(MaskingRuleField(k, d), d)
    BY <2>2, <2>3, <2>4, <2>5, <2>6, OptionalNone DEF MaskingRuleField, MaskingRuleKeys, Optional
  <2> QED
    BY <2>7 DEF d
<1>3. DOMAIN rs = MaskingRuleKeys /\ \A k \in MaskingRuleKeys : NoneFits(rs[k], Part(c, k))
  BY <1>2
<1> HIDE DEF rs
<1> QED
  BY <1>1, <1>3, <1>4, FieldsNone

LEMMA MaskingRulesNone == ASSUME NEW c, Flat(c) PROVE NoneFits(MaskingRules(c), c)
<1> DEFINE rs == [k \in Keys(c) |-> ValidateMaskingRule(Part(c, k))]
<1>1. MaskingRules(c) = IF At(c, <<>>) # "array" THEN Err ELSE Gathered(rs)
  BY DEF MaskingRules, ArrayOf
<1>2. \A k \in Keys(c) : k \in Names
  BY DEF Keys, Flat
<1>3. \A k \in Keys(c) : NoneFits(ValidateMaskingRule(Part(c, k)), Part(c, k))
  BY <1>2, PartKinds, ValidateMaskingRuleNone
<1>4. DOMAIN rs = Keys(c) /\ \A k \in Keys(c) : NoneFits(rs[k], Part(c, k))
  BY <1>3
<1> HIDE DEF rs
<1> QED
  BY <1>1, <1>4, EachNone

LEMMA PrettyPrintNone == ASSUME NEW c, Flat(c) PROVE NoneFits(PrettyPrint(c), c)
<1> DEFINE rs == [k \in PrettyPrintKeys |-> EnabledField(k, Part(c, k))]
<1>1. PrettyPrint(c) = IF At(c, <<>>) # "object" THEN Err ELSE Gathered(rs)
  BY DEF PrettyPrint, ObjectWith
<1>4. PrettyPrintKeys \in SUBSET Names
  BY ConfigAssumption DEF SchemaKeys
<1>2. ASSUME NEW k \in PrettyPrintKeys PROVE NoneFits(EnabledField(k, Part(c, k)), Part(c, k))
  <2> DEFINE d == Part(c, k)
  <2>1. Flat(d)
    BY <1>4, PartKinds
  <2> HIDE DEF d
  <2>2. NoneFits(IsBoolean(d), d)
    BY <2>1, KindNone DEF IsBoolean
  <2>3. NoneFits(EnabledField(k, d), d)
    BY <2>2, OptionalNone DEF EnabledField, Optional
  <2> QED
    BY <2>3 DEF d
<1>3. DOMAIN rs = PrettyPrintKeys /\ \A k \in PrettyPrintKeys : NoneFits(rs[k], Part(c, k))
  BY <1>2
<1> HIDE DEF rs
<1> QED
  BY <1>1, <1>3, <1>4, FieldsNone

LEMMA ValidateLoggerOptionsNone == ASSUME NEW c, Flat(c) PROVE NoneFits(ValidateLoggerOptions(c), c)
<1> DEFINE rs == [k \in LoggerKeys |-> LoggerField(k, Part(c, k))]
<1>1. ValidateLoggerOptions(c) = IF At(c, <<>>) # "object" THEN Err ELSE Gathered(rs)
  BY DEF ValidateLoggerOptions, ObjectWith
<1>4. LoggerKeys \in SUBSET Names
  BY ConfigAssumption DEF SchemaKeys
<1>2. ASSUME NEW k \in LoggerKeys PROVE NoneFits(LoggerField(k, Part(c, k)), Part(c, k))
  <2> DEFINE d == Part(c, k)
  <2>1. Flat(d)
    BY <1>4, PartKinds
  <2> HIDE DEF d
  <2>2. NoneFits(IsString(d), d)
    BY <2>1, KindNone DEF IsString
  <2>3. NoneFits(OneOf(d), d)
    BY <2>1, KindNone DEF OneOf
  <2>4. NoneFits(Transports(d), d)
    BY <2>1, TransportsNone
  <2>5. NoneFits(StringLists(d), d)
    BY <2>1, StringListsNone
  <2>6. NoneFits(ValidateTransports(d), d)
    BY <2>1, ValidateTransportsNone
  <2>7. NoneFits(IsPositiveInt(d), d)
    BY <2>1, KindNone DEF IsPositiveInt
  <2>8. NoneFits(PrettyPrint(d), d)
    BY <2>1, PrettyPrintNone
  <2>9. NoneFits(IsBoolean(d), d)
    BY <2>1, KindNone DEF IsBoolean
  <2>10. NoneFits(LoggerField(k, d), d)
    BY <2>2, <2>3, <2>4, <2>5, <2>6, <2>7, <2>8, <2>9, OptionalNone DEF LoggerField, LoggerKeys, Optional
  <2> QED
    BY <2>10 DEF d
<1>3. DOMAIN rs = LoggerKeys /\ \A k \in LoggerKeys : NoneFits(rs[k], Part(c, k))
  BY <1>2
<1> HIDE DEF rs
<1> QED
  BY <1>1, <1>3, <1>4, FieldsNone

LEMMA ValidateMaskingNone == ASSUME NEW c, Flat(c) PROVE NoneFits(ValidateMasking(c), c)
<1> DEFINE rs == [k \in MaskingKeys |-> MaskingField(k, Part(c, k))]
<1>1. ValidateMasking(c) = IF At(c, <<>>) # "object" THEN Err ELSE Gathered(rs)
  BY DEF ValidateMasking, ObjectWith
<1>4. MaskingKeys \in SUBSET Names
  BY ConfigAssumption DEF SchemaKeys
<1>2. ASSUME NEW k \in MaskingKeys PROVE NoneFits(MaskingField(k, Part(c, k)), Part(c, k))
  <2> DEFINE d == Part(c, k)
  <2>1. Flat(d)
    BY <1>4, PartKinds
  <2> HIDE DEF d
  <2>2. NoneFits(MaskingRules(d), d)
    BY <2>1, MaskingRulesNone
  <2>3. NoneFits(IsString(d), d)
    BY <2>1, KindNone DEF IsString
  <2>4. NoneFits(IsBoolean(d), d)
    BY <2>1, KindNone DEF IsBoolean
  <2>5. NoneFits(IsPositiveInt(d), d)
    BY <2>1, KindNone DEF IsPositiveInt
  <2>6. NoneFits(Strings(d), d)
    BY <2>1, StringsNone
  <2>7. NoneFits(IsFunction(d), d)
    BY <2>1, KindNone DEF IsFunction
  <2>8. NoneFits(MaskingField(k, d), d)
    BY <2>2, <2>3, <2>4, <2>5, <2>6, <2>7, OptionalNone DEF MaskingField, MaskingKeys, Optional
  <2> QED
    BY <2>8 DEF d
<1>3. DOMAIN rs = MaskingKeys /\ \A k \in MaskingKeys : NoneFits(rs[k], Part(c, k))
  BY <1>2
<1> HIDE DEF rs
<1> QED
  BY <1>1, <1>3, <1>4, FieldsNone

LEMMA ValidateLoggingMatrixNone == ASSUME NEW c, Flat(c) PROVE NoneFits(ValidateLoggingMatrix(c), c)
<1> DEFINE rs == [k \in MatrixKeys |-> MatrixField(k, Part(c, k))]
<1>1. ValidateLoggingMatrix(c) = IF At(c, <<>>) # "object" THEN Err ELSE Gathered(rs)
  BY DEF ValidateLoggingMatrix, ObjectWith
<1>4. MatrixKeys \in SUBSET Names
  BY ConfigAssumption DEF SchemaKeys
<1>2. ASSUME NEW k \in MatrixKeys PROVE NoneFits(MatrixField(k, Part(c, k)), Part(c, k))
  <2> DEFINE d == Part(c, k)
  <2>1. Flat(d)
    BY <1>4, PartKinds
  <2> HIDE DEF d
  <2>2. NoneFits(Strings(d), d)
    BY <2>1, StringsNone
  <2>3. NoneFits(MatrixField(k, d), d)
    BY <2>2, OptionalNone DEF MatrixField, Optional
  <2> QED
    BY <2>3 DEF d
<1>3. DOMAIN rs = MatrixKeys /\ \A k \in MatrixKeys : NoneFits(rs[k], Part(c, k))
  BY <1>2
<1> HIDE DEF rs
<1> QED
  BY <1>1, <1>3, <1>4, FieldsNone

LEMMA ValidateContextNone == ASSUME NEW c, Flat(c) PROVE NoneFits(ValidateContext(c), c)
<1> DEFINE rs == [k \in ContextKeys |-> ContextField(k, Part(c, k))]
<1>1. ValidateContext(c) = IF At(c, <<>>) # "object" THEN Err ELSE Gathered(rs)
  BY DEF ValidateContext, ObjectWith
<1>4. ContextKeys \in SUBSET Names
  BY ConfigAssumption DEF SchemaKeys
<1>2. ASSUME NEW k \in ContextKeys PROVE NoneFits(ContextField(k, Part(c, k)), Part(c, k))
  <2> DEFINE d == Part(c, k)
  <2>1. Flat(d)
    BY <1>4, PartKinds
  <2> HIDE DEF d
  <2>2. NoneFits(IsString(d), d)
    BY <2>1, KindNone DEF IsString
  <2>3. NoneFits(HeaderMaps(d), d)
    BY <2>1, HeaderMapsNone
  <2>4. NoneFits(Strings(d), d)
    BY <2>1, StringsNone
  <2>5. NoneFits(ContextField(k, d), d)
    BY <2>2, <2>3, <2>4, OptionalNone DEF ContextField, ContextKeys, Optional
  <2> QED
    BY <2>5 DEF d
<1>3. DOMAIN rs = ContextKeys /\ \A k \in ContextKeys : NoneFits(rs[k], Part(c, k))
  BY <1>2
<1> HIDE DEF rs
<1> QED
  BY <1>1, <1>3, <1>4, FieldsNone

LEMMA ValidateRetentionEmissionNone == ASSUME NEW c, Flat(c) PROVE NoneFits(ValidateRetentionEmission(c), c)
<1> DEFINE rs == [k \in RetentionKeys |-> RetentionField(k, Part(c, k))]
<1>1. ValidateRetentionEmission(c) = IF At(c, <<>>) # "object" THEN Err ELSE Gathered(rs)
  BY DEF ValidateRetentionEmission, ObjectWith
<1>4. RetentionKeys \in SUBSET Names
  BY ConfigAssumption DEF SchemaKeys
<1>2. ASSUME NEW k \in RetentionKeys PROVE NoneFits(RetentionField(k, Part(c, k)), Part(c, k))
  <2> DEFINE d == Part(c, k)
  <2>1. Flat(d)
    BY <1>4, PartKinds
  <2> HIDE DEF d
  <2>2. NoneFits(IsString(d), d)
    BY <2>1, KindNone DEF IsString
  <2>3. NoneFits(IsBoolean(d), d)
    BY <2>1, KindNone DEF IsBoolean
  <2>4. NoneFits(RetentionField(k, d), d)
    BY <2>2, <2>3, OptionalNone DEF RetentionField, Optional
  <2> QED
    BY <2>4 DEF d
<1>3. DOMAIN rs = RetentionKeys /\ \A k \in RetentionKeys : NoneFits(rs[k], Part(c, k))
  BY <1>2
<1> HIDE DEF rs
<1> QED
  BY <1>1, <1>3, <1>4, FieldsNone

LEMMA ValidateSyntropyLogConfigNone == ASSUME NEW c, Flat(c) PROVE NoneFits(ValidateSyntropyLogConfig(c), c)
<1> DEFINE rs == [k \in SectionKeys |-> SectionField(k, Part(c, k))]
<1>1. ValidateSyntropyLogConfig(c) = IF At(c, <<>>) # "object" THEN Err ELSE Gathered(rs)
  BY DEF ValidateSyntropyLogConfig, ObjectWith
<1>4. SectionKeys \in SUBSET Names
  BY ConfigAssumption DEF SchemaKeys
<1>2. ASSUME NEW k \in SectionKeys PROVE NoneFits(SectionField(k, Part(c, k)), Part(c, k))
  <2> DEFINE d == Part(c, k)
  <2>1. Flat(d)
    BY <1>4, PartKinds
  <2> HIDE DEF d
  <2>2. NoneFits(ValidateLoggerOptions(d), d)
    BY <2>1, ValidateLoggerOptionsNone
  <2>3. NoneFits(ValidateLoggingMatrix(d), d)
    BY <2>1, ValidateLoggingMatrixNone
  <2>4. NoneFits(ValidateMasking(d), d)
    BY <2>1, ValidateMaskingNone
  <2>5. NoneFits(ValidateContext(d), d)
    BY <2>1, ValidateContextNone
  <2>6. NoneFits(IsPositiveInt(d), d)
    BY <2>1, KindNone DEF IsPositiveInt
  <2>7. NoneFits(Records(d), d)
    BY <2>1, RecordsNone
  <2>8. NoneFits(ValidateRetentionEmission(d), d)
    BY <2>1, ValidateRetentionEmissionNone
  <2>9. NoneFits(IsFunction(d), d)
    BY <2>1, KindNone DEF IsFunction
  <2>10. NoneFits(SectionField(k, d), d)
    BY <2>2, <2>3, <2>4, <2>5, <2>6, <2>7, <2>8, <2>9, OptionalNone DEF SectionField, Optional
  <2> QED
    BY <2>10 DEF d
<1>3. DOMAIN rs = SectionKeys /\ \A k \in SectionKeys : NoneFits(rs[k], Part(c, k))
  BY <1>2
<1> HIDE DEF rs
<1> QED
  BY <1>1, <1>3, <1>4, FieldsNone


-----------------------------------------------------------------------------
(* A fault does not depend on the other sections                             *)

LEMMA TopKeyFact ==
  ASSUME NEW c, Flat(c), NEW k \in Names
  PROVE  k \in Keys(c) <=> <<k>> \in DOMAIN c
<1>1. ASSUME k \in Keys(c) PROVE <<k>> \in DOMAIN c
  <2>1. PICK q \in DOMAIN c : Len(q) = 1 /\ k = q[1]
    BY <1>1 DEF Keys
  <2>2. q \in Seq(Names)
    BY DEF Flat
  <2>3. q = <<k>>
    BY <2>1, <2>2
  <2> QED
    BY <2>1, <2>3
<1>2. ASSUME <<k>> \in DOMAIN c PROVE k \in Keys(c)
  <2>1. Len(<<k>>) = 1 /\ <<k>>[1] = k
    OBVIOUS
  <2> QED
    BY <1>2, <2>1 DEF Keys
<1> QED
  BY <1>1, <1>2

LEMMA PartRoot ==
  ASSUME NEW c, Flat(c), NEW k \in Names
  PROVE  At(Part(c, k), <<>>) = IF k \in Keys(c) THEN c[<<k>>] ELSE "undefined"
<1>1. <<>> \in Seq(Names) /\ <<k>> \o <<>> = <<k>>
  OBVIOUS
<1>2. At(Part(c, k), <<>>) = At(c, <<k>>)
  BY <1>1, PartKinds
<1> QED
  BY <1>2, TopKeyFact DEF At

(* Every section may be left out. *)
LEMMA SectionLeftOut ==
  ASSUME NEW c, At(c, <<>>) \in NotGiven, NEW k \in SectionKeys
  PROVE  SectionField(k, c).issues = {}
BY DEF SectionField, SectionKeys, Optional, Ok

LEMMA OnlyFact ==
  ASSUME NEW c, Flat(c), <<>> \in DOMAIN c, NEW k \in Names
  PROVE  /\ Flat(Only(c, k)) /\ <<>> \in DOMAIN Only(c, k)
         /\ Only(c, k)[<<>>] = c[<<>>]
         /\ \A j \in Names : j \in Keys(Only(c, k)) <=> j = k /\ k \in Keys(c)
         /\ Part(Only(c, k), k) = Part(c, k)
<1> DEFINE kept == {p \in DOMAIN c : p # <<>> => p[1] = k}
           o == Only(c, k)
<1>1. DOMAIN o = kept /\ \A p \in kept : o[p] = c[p]
  BY DEF Only, Restrict
<1> HIDE DEF o
<1>2. kept \subseteq DOMAIN c /\ <<>> \in kept
  OBVIOUS
<1>3. Flat(o)
  BY <1>1, <1>2 DEF Flat
<1>4. ASSUME NEW j \in Names PROVE j \in Keys(o) <=> j = k /\ k \in Keys(c)
  <2>1. <<j>> # <<>> /\ <<j>>[1] = j
    OBVIOUS
  <2>2. <<j>> \in kept <=> j = k /\ <<k>> \in DOMAIN c
    BY <2>1
  <2> QED
    BY <1>1, <1>3, <2>2, TopKeyFact
<1>5. Part(o, k) = Part(c, k)
  <2> DEFINE under(d) == {r \in DOMAIN d \ {<<>>} : r[1] = k}
             part(d) == {Tail(q) : q \in under(d)}
  <2>1. under(o) = under(c)
    BY <1>1
  <2>2. part(o) = part(c)
    BY <2>1
  <2>3. ASSUME NEW p \in part(c) PROVE o[<<k>> \o p] = c[<<k>> \o p]
    <3>1. PICK q \in under(c) : p = Tail(q)
      OBVIOUS
    <3>2. q \in Seq(Names) /\ q # <<>> /\ q[1] = k /\ q \in kept
      BY <3>1 DEF Flat
    <3> HIDE DEF kept, under, part
    <3>3. q = <<k>> \o p
      BY <3>1, <3>2, PathSplit
    <3> QED
      BY <1>1, <3>2, <3>3
  <2>4. Part(o, k) = [p \in part(o) |-> o[<<k>> \o p]]
    BY DEF Part
  <2>5. Part(c, k) = [p \in part(c) |-> c[<<k>> \o p]]
    BY DEF Part
  <2> HIDE DEF part, under
  <2> QED
    BY <2>2, <2>3, <2>4, <2>5
<1> QED
  BY <1>1, <1>2, <1>3, <1>4, <1>5 DEF o

SectionIssues(c) == UNION {Under(k, SectionField(k, Part(c, k)).issues) : k \in SectionKeys}

LEMMA ConfigIssuesFact ==
  ASSUME NEW c, <<>> \in DOMAIN c, c[<<>>] = "object"
  PROVE  ValidateSyntropyLogConfig(c).issues = SectionIssues(c)
<1> DEFINE rs == [k \in SectionKeys |-> SectionField(k, Part(c, k))]
<1>1. ValidateSyntropyLogConfig(c) = Gathered(rs)
  BY DEF ValidateSyntropyLogConfig, ObjectWith, At
<1>2. Gathered(rs).issues = UNION {Under(k, rs[k].issues) : k \in DOMAIN rs}
  BY DEF Gathered
<1>3. DOMAIN rs = SectionKeys /\ \A k \in SectionKeys : rs[k] = SectionField(k, Part(c, k))
  OBVIOUS
<1> HIDE DEF rs
<1>4. {Under(k, rs[k].issues) : k \in DOMAIN rs}
        = {Under(k, SectionField(k, Part(c, k)).issues) : k \in SectionKeys}
  BY <1>3
<1> QED
  BY <1>1, <1>2, <1>4 DEF SectionIssues

(* The issues of a configuration are those that each of its sections would  *)
(* have alone.                                                              *)
LEMMA IssuesOfEach ==
  ASSUME NEW c, Flat(c), <<>> \in DOMAIN c, c[<<>>] = "object"
  PROVE  ValidateSyntropyLogConfig(c).issues
           = UNION {ValidateSyntropyLogConfig(Only(c, k)).issues : k \in Keys(c)}
<1> DEFINE I(k) == Under(k, SectionField(k, Part(c, k)).issues)
           alone(k) == ValidateSyntropyLogConfig(Only(c, k)).issues
<1>1. SectionKeys \subseteq Names
  BY ConfigAssumption DEF SchemaKeys
<1>2. Keys(c) \subseteq Names
  BY DEF Keys, Flat
<1>3. \A d : \A k \in SectionKeys : Flat(d) /\ k \notin Keys(d)
                                      => Under(k, SectionField(k, Part(d, k)).issues) = {}
  <2> SUFFICES ASSUME NEW d, NEW k \in SectionKeys, Flat(d), k \notin Keys(d)
               PROVE  Under(k, SectionField(k, Part(d, k)).issues) = {}
    OBVIOUS
  <2>1. At(Part(d, k), <<>>) \in NotGiven
    BY <1>1, PartRoot DEF NotGiven
  <2>2. SectionField(k, Part(d, k)).issues = {}
    BY <2>1, SectionLeftOut
  <2> QED
    BY <2>2 DEF Under
<1>4. ASSUME NEW k \in Keys(c)
      PROVE  alone(k) = IF k \in SectionKeys THEN I(k) ELSE {}
  <2> DEFINE d == Only(c, k)
  <2>1. /\ Flat(d) /\ <<>> \in DOMAIN d /\ d[<<>>] = "object"
        /\ \A j \in Names : j \in Keys(d) <=> j = k
        /\ Part(d, k) = Part(c, k)
    BY <1>2, OnlyFact
  <2> HIDE DEF d
  <2>2. ValidateSyntropyLogConfig(d).issues = SectionIssues(d)
    BY <2>1, ConfigIssuesFact
  <2>3. \A j \in SectionKeys : j # k => Under(j, SectionField(j, Part(d, j)).issues) = {}
    BY <1>1, <1>3, <2>1
  <2>4. k \in SectionKeys => Under(k, SectionField(k, Part(d, k)).issues) = I(k)
    BY <2>1
  <2> HIDE DEF I
  <2>5. SectionIssues(d) = IF k \in SectionKeys THEN I(k) ELSE {}
    BY <2>3, <2>4 DEF SectionIssues
  <2> QED
    BY <2>2, <2>5 DEF d
<1>5. \A k \in SectionKeys \ Keys(c) : I(k) = {}
  BY <1>3
<1>6. ValidateSyntropyLogConfig(c).issues = UNION {I(k) : k \in SectionKeys}
  BY ConfigIssuesFact DEF SectionIssues
<1> HIDE DEF I, alone
<1>7. UNION {I(k) : k \in SectionKeys} = UNION {alone(k) : k \in Keys(c)}
  BY <1>4, <1>5
<1> QED
  BY <1>6, <1>7 DEF alone


-----------------------------------------------------------------------------
(* The copy                                                                  *)

LEMMA PathPrefix ==
  ASSUME NEW S, NEW p \in Seq(S), NEW m \in 0..Len(p)
  PROVE  /\ SubSeq(p, 1, m) \in Seq(S) /\ Len(SubSeq(p, 1, m)) = m
         /\ \A j \in 1..m : SubSeq(p, 1, m)[j] = p[j]
OBVIOUS

LEMMA PrefixOfPrefix ==
  ASSUME NEW S, NEW p \in Seq(S), NEW m \in 0..Len(p), NEW j \in 0..m
  PROVE  SubSeq(SubSeq(p, 1, m), 1, j) = SubSeq(p, 1, j)
<1> DEFINE q == SubSeq(p, 1, m)
           a == SubSeq(q, 1, j)
           b == SubSeq(p, 1, j)
<1>1. Len(p) \in Nat /\ m \in Nat /\ j \in Nat /\ j <= m /\ m <= Len(p)
  OBVIOUS
<1>2. q \in Seq(S) /\ Len(q) = m /\ \A i \in 1..m : q[i] = p[i]
  BY PathPrefix
<1> HIDE DEF q
<1>3. a \in Seq(S) /\ Len(a) = j /\ \A i \in 1..j : a[i] = q[i]
  <2>1. j \in 0..Len(q)
    BY <1>2
  <2> QED
    BY <1>2, <2>1, PathPrefix
<1>4. b \in Seq(S) /\ Len(b) = j /\ \A i \in 1..j : b[i] = p[i]
  <2>1. j \in 0..Len(p)
    BY <1>1
  <2> QED
    BY <2>1, PathPrefix
<1> HIDE DEF a, b
<1>5. \A i \in 1..j : a[i] = b[i]
  BY <1>1, <1>2, <1>3, <1>4
<1>6. a = b
  BY <1>3, <1>4, <1>5
<1> QED
  BY <1>6 DEF a, b, q

(* All that leads to a part of a configuration is objects and arrays of it. *)
LEMMA WayFact ==
  ASSUME NEW c, IsConfig(c), NEW p \in DOMAIN c
  PROVE  /\ p \in Seq(Names)
         /\ \A i \in 0..Len(p) : SubSeq(p, 1, i) \in DOMAIN c
         /\ \A i \in 0..Len(p) - 1 : c[SubSeq(p, 1, i)] \in Branches
         /\ \A i \in 1..Len(p) :
              c[SubSeq(p, 1, i - 1)] = "array" => p[i] \notin Sensitive \cup UrlKeys
<1> DEFINE n == Len(p)
           at(i) == SubSeq(p, 1, i)
           P == {k \in 0..n : at(n - k) \in DOMAIN c}
<1>1. p \in Seq(Names) /\ n \in Nat
  BY DEF IsConfig
<1>2. ASSUME NEW i \in 1..n, at(i) \in DOMAIN c
      PROVE  /\ at(i - 1) \in DOMAIN c /\ c[at(i - 1)] \in Branches
             /\ c[at(i - 1)] = "array" => p[i] \notin Sensitive \cup UrlKeys
  <2> DEFINE q == at(i)
  <2>1. i \in 0..Len(p) /\ i - 1 \in 0..i /\ i \in 1..i
    BY <1>1
  <2>2. q \in Seq(Names) /\ Len(q) = i /\ q[i] = p[i]
    BY <1>1, <2>1, PathPrefix
  <2>3. SubSeq(q, 1, i - 1) = at(i - 1)
    BY <1>1, <2>1, PrefixOfPrefix
  <2> HIDE DEF q
  <2>4. q # <<>>
    BY <2>2
  <2>5. Front(q) = at(i - 1) /\ Last(q) = p[i]
    BY <2>2, <2>3 DEF Front, Last
  <2>6. q \in DOMAIN c \ {<<>>}
    BY <1>2, <2>4 DEF q
  <2> HIDE DEF at
  <2>7. /\ at(i - 1) \in DOMAIN c /\ c[at(i - 1)] \in Branches
        /\ c[at(i - 1)] = "array" => p[i] \notin Sensitive \cup UrlKeys
    BY <2>5, <2>6 DEF IsConfig
  <2> QED
    BY <2>7 DEF q
<1>3. 0 \in P
  <2>1. at(n) = p
    BY <1>1
  <2>2. n - 0 = n /\ 0 \in 0..n
    BY <1>1
  <2> QED
    BY <2>1, <2>2
<1> HIDE DEF at
<1>4. ASSUME NEW k \in 1..n, k - 1 \in P PROVE k \in P
  <2>1. k \in 0..n /\ n - (k - 1) \in 1..n /\ n - (k - 1) - 1 = n - k
    BY <1>1
  <2> QED
    BY <1>2, <1>4, <2>1
<1>5. \A k \in 0..n : k \in P
  <2> HIDE DEF P, n
  <2> QED
    BY <1>1, <1>3, <1>4, Reaches
<1>6. \A i \in 0..n : at(i) \in DOMAIN c
  <2> SUFFICES ASSUME NEW i \in 0..n PROVE at(i) \in DOMAIN c
    OBVIOUS
  <2>1. n - i \in 0..n /\ n - (n - i) = i
    BY <1>1
  <2> QED
    BY <1>5, <2>1
<1>7. \A i \in 0..n - 1 : c[at(i)] \in Branches
  <2> SUFFICES ASSUME NEW i \in 0..n - 1 PROVE c[at(i)] \in Branches
    OBVIOUS
  <2>1. i + 1 \in 1..n /\ i + 1 \in 0..n /\ i + 1 - 1 = i
    BY <1>1
  <2> QED
    BY <1>2, <1>6, <2>1
<1>8. \A i \in 1..n : c[at(i - 1)] = "array" => p[i] \notin Sensitive \cup UrlKeys
  <2>1. \A i \in 1..n : i \in 0..n
    BY <1>1
  <2> QED
    BY <1>2, <1>6, <2>1
<1> QED
  BY <1>1, <1>6, <1>7, <1>8 DEF at, n

(* The copies along a path, each made of the one before. *)
PlaceOf(before, k, kind) ==
  IF before = "object" THEN SanitizeField(k, kind)
  ELSE IF before = "array" THEN Copied(kind) ELSE "undefined"

Placed(copy, c, q) ==
  /\ PlaceInCopy(c, q) = copy[Len(q)]
  /\ copy[0] = Copied(At(c, <<>>))
  /\ \A i \in 1..Len(q) : copy[i] = PlaceOf(copy[i - 1], q[i], At(c, SubSeq(q, 1, i)))

LEMMA PlacesFact ==
  ASSUME NEW c, NEW q \in Seq(Names)
  PROVE  \E copy : Placed(copy, c, q)
<1> DEFINE n == Len(q)
           kind == [i \in 0..n |-> At(c, SubSeq(q, 1, i))]
           Place(i, x) == IF x = "object" THEN SanitizeField(q[i], kind[i])
                          ELSE IF x = "array" THEN Copied(kind[i]) ELSE "undefined"
           S == {Copied(kind[0]), "undefined"} \cup {SanitizeField(q[i], kind[i]) : i \in 1..n}
                  \cup {Copied(kind[i]) : i \in 1..n}
           g == [i \in 1..n |-> [x \in S |-> Place(i, x)]]
           Calling(f) == [i \in 0..n |->
             IF i = 0 THEN Copied(kind[0])
             ELSE IF f[i - 1] = "object" THEN SanitizeField(q[i], kind[i])
             ELSE IF f[i - 1] = "array" THEN Copied(kind[i])
             ELSE "undefined"]
           copy == CHOOSE f : f = Calling(f)
<1>1. n \in Nat
  OBVIOUS
<1>2. PlaceInCopy(c, q) = copy[n]
  BY DEF PlaceInCopy
<1>3. StepsIn(g, n, S)
  <2> HIDE DEF kind, n
  <2> QED
    BY DEF StepsIn
<1>4. PICK f : Runs(f, n, S, Copied(kind[0]), g)
  <2>1. Copied(kind[0]) \in S
    OBVIOUS
  <2> HIDE DEF g, n, copy, S, kind
  <2> QED
    BY <1>1, <1>3, <2>1, RecursionFact
<1>5. \A i \in 1..n : f[i - 1] \in S /\ f[i] = g[i][f[i - 1]]
  <2> HIDE DEF g, copy, S, kind, n
  <2>1. f \in [0..n -> S] /\ \A i \in 1..n : i - 1 \in 0..n
    BY <1>1, <1>4 DEF Runs
  <2> QED
    BY <1>4, <2>1 DEF Runs
<1>6. \A i \in 1..n : f[i] = Place(i, f[i - 1])
  <2> HIDE DEF kind, S, n, copy, Place
  <2> QED
    BY <1>5
<1>7. f[0] = Copied(kind[0]) /\ DOMAIN f = 0..n /\ f = [i \in 0..n |-> f[i]]
  <2> HIDE DEF g, copy, S, kind, n
  <2> QED
    BY <1>4 DEF Runs
<1> HIDE DEF g, S, kind
<1>8. f = Calling(f)
  <2>1. ASSUME NEW i \in 0..n
        PROVE  f[i] = IF i = 0 THEN Copied(kind[0])
                     ELSE IF f[i - 1] = "object" THEN SanitizeField(q[i], kind[i])
                     ELSE IF f[i - 1] = "array" THEN Copied(kind[i])
                     ELSE "undefined"
    <3>1. i = 0 \/ i \in 1..n
      BY <1>1
    <3> QED
      BY <1>6, <1>7, <3>1
  <2> HIDE DEF n
  <2> QED
    BY <1>7, <2>1
<1>9. copy = Calling(copy)
  <2> HIDE DEF Calling
  <2> QED
    BY <1>8
<1> HIDE DEF copy, n
<1>10. copy[0] = Copied(kind[0])
  BY <1>1, <1>9
<1>11. \A i \in 1..n : copy[i] = Place(i, copy[i - 1])
  <2> SUFFICES ASSUME NEW i \in 1..n PROVE copy[i] = Place(i, copy[i - 1])
    OBVIOUS
  <2>1. i \in 0..n /\ i # 0
    BY <1>1
  <2> QED
    BY <1>9, <2>1
<1>12. kind[0] = At(c, <<>>) /\ \A i \in 1..n : kind[i] = At(c, SubSeq(q, 1, i))
  <2>1. SubSeq(q, 1, 0) = <<>>
    OBVIOUS
  <2>2. 0 \in 0..n /\ \A i \in 1..n : i \in 0..n
    BY <1>1
  <2> QED
    BY <2>1, <2>2 DEF kind
<1>13. \A i \in 1..n : copy[i] = PlaceOf(copy[i - 1], q[i], At(c, SubSeq(q, 1, i)))
  BY <1>11, <1>12 DEF PlaceOf
<1>14. Placed(copy, c, q)
  BY <1>2, <1>10, <1>12, <1>13 DEF Placed, n
<1> QED
  BY <1>14

(* The value at a path whose way is objects and arrays under no sensitive   *)
(* name.                                                                    *)
LEMMA PlaceFact ==
  ASSUME NEW c, NEW q \in Seq(Names), q # <<>>,
         At(c, <<>>) = "object",
         \A j \in 0..Len(q) - 1 : At(c, SubSeq(q, 1, j)) \in Branches,
         \A j \in 1..Len(q) - 1 : q[j] \notin Sensitive
  PROVE  PlaceInCopy(c, q) =
           IF At(c, SubSeq(q, 1, Len(q) - 1)) = "object"
             THEN SanitizeField(q[Len(q)], At(c, q)) ELSE Copied(At(c, q))
<1> DEFINE n == Len(q)
           kind == [i \in 0..n |-> At(c, SubSeq(q, 1, i))]
           Place(i, x) == IF x = "object" THEN SanitizeField(q[i], kind[i])
                          ELSE IF x = "array" THEN Copied(kind[i]) ELSE "undefined"
<1>1. n \in Nat /\ n >= 1
  OBVIOUS
<1>2. PICK copy : Placed(copy, c, q)
  BY PlacesFact
<1>10. copy[0] = Copied(At(c, <<>>)) /\ PlaceInCopy(c, q) = copy[n]
  BY <1>2 DEF Placed
<1>11. \A i \in 1..n : copy[i] = Place(i, copy[i - 1])
  <2>1. \A i \in 1..n : kind[i] = At(c, SubSeq(q, 1, i))
    BY <1>1
  <2> HIDE DEF kind
  <2> QED
    BY <1>2, <2>1 DEF Placed, PlaceOf
<1> HIDE DEF kind, n
<1>12. /\ kind[0] = "object" /\ \A j \in 0..n - 1 : kind[j] \in Branches
       /\ kind[n] = At(c, q) /\ kind[n - 1] = At(c, SubSeq(q, 1, n - 1))
  <2>1. SubSeq(q, 1, 0) = <<>> /\ SubSeq(q, 1, n) = q
    BY DEF n
  <2>2. 0 \in 0..n /\ n \in 0..n /\ n - 1 \in 0..n /\ \A j \in 0..n - 1 : j \in 0..n
    BY <1>1
  <2>3. \A j \in 0..n : kind[j] = At(c, SubSeq(q, 1, j))
    BY DEF kind
  <2>4. \A j \in 0..n - 1 : kind[j] \in Branches
    BY <2>2, <2>3 DEF n
  <2> QED
    BY <2>1, <2>2, <2>3, <2>4
<1> DEFINE P == {j \in 0..n - 1 : copy[j] = kind[j]}
<1>13. 0 \in P
  <2>1. 0 \in 0..n - 1
    BY <1>1
  <2> QED
    BY <1>10, <1>12, <2>1 DEF Copied
<1>14. ASSUME NEW j \in 1..n - 1, j - 1 \in P PROVE j \in P
  <2>1. j \in 1..n /\ j \in 0..n - 1 /\ j - 1 \in 0..n - 1
    BY <1>1
  <2>2. q[j] \notin Sensitive
    BY DEF n
  <2>3. kind[j] \in {"object", "array"} /\ kind[j - 1] \in {"object", "array"}
    BY <1>12, <2>1 DEF Branches
  <2>4. copy[j] = Place(j, kind[j - 1])
    BY <1>11, <1>14, <2>1
  <2>5. Copied(kind[j]) = kind[j] /\ SanitizeField(q[j], kind[j]) = kind[j]
    BY <2>2, <2>3 DEF Copied, SanitizeField
  <2> QED
    BY <2>1, <2>3, <2>4, <2>5
<1>15. \A j \in 0..n - 1 : j \in P
  <2>1. n - 1 \in Nat
    BY <1>1
  <2> HIDE DEF P
  <2> QED
    BY <1>13, <1>14, <2>1, Reaches
<1>16. n - 1 \in 0..n - 1 /\ n \in 1..n
  BY <1>1
<1>17. copy[n - 1] = kind[n - 1] /\ kind[n - 1] \in {"object", "array"}
  BY <1>12, <1>15, <1>16 DEF Branches
<1>18. copy[n] = Place(n, kind[n - 1])
  BY <1>11, <1>16, <1>17
<1>19. copy[n] = IF At(c, SubSeq(q, 1, n - 1)) = "object"
                   THEN SanitizeField(q[n], At(c, q)) ELSE Copied(At(c, q))
  BY <1>12, <1>17, <1>18
<1> QED
  BY <1>10, <1>19 DEF n


(* Nothing is left of what stands under a sensitive name. *)
LEMMA HiddenFact ==
  ASSUME NEW c, NEW q \in Seq(Names), NEW m \in 1..Len(q), q[m] \in Sensitive,
         At(c, SubSeq(q, 1, m - 1)) # "array", At(c, <<>>) # "array"
  PROVE  PlaceInCopy(c, q) \in {"[CONFIG_MASKED]", "undefined"}
<1> DEFINE n == Len(q)
           hidden == {"[CONFIG_MASKED]", "undefined"}
           at(i) == SubSeq(q, 1, i)
<1>1. n \in Nat /\ m \in Nat /\ m <= n /\ m >= 1
  OBVIOUS
<1>2. PICK copy : Placed(copy, c, q)
  BY PlacesFact
<1> HIDE DEF at
<1>3. \A i \in 1..n : copy[i] = PlaceOf(copy[i - 1], q[i], At(c, at(i)))
  BY <1>2 DEF Placed, at
<1>4. copy[m - 1] # "array"
  <2>1. CASE m = 1
    BY <1>2, <2>1 DEF Placed, Copied
  <2>2. CASE m # 1
    <3>1. m - 1 \in 1..n
      BY <1>1, <2>2
    <3>2. At(c, at(m - 1)) # "array"
      BY DEF at
    <3>3. copy[m - 1] = PlaceOf(copy[m - 1 - 1], q[m - 1], At(c, at(m - 1)))
      BY <1>3, <3>1
    <3> QED
      BY <3>2, <3>3 DEF PlaceOf, SanitizeField, Copied
  <2> QED
    BY <2>1, <2>2
<1> DEFINE P == {k \in 0..n - m : copy[m + k] \in hidden}
<1>5. 0 \in P
  <2>1. 0 \in 0..n - m /\ m + 0 = m /\ m \in 1..n
    BY <1>1
  <2>2. copy[m] \in hidden
    BY <1>3, <1>4, <2>1 DEF PlaceOf, SanitizeField
  <2> QED
    BY <2>1, <2>2
<1>6. ASSUME NEW k \in 1..n - m, k - 1 \in P PROVE k \in P
  <2>1. k \in 0..n - m /\ m + k \in 1..n /\ m + k - 1 = m + (k - 1)
    BY <1>1
  <2>2. copy[m + k - 1] \in hidden
    BY <1>6, <2>1
  <2>3. copy[m + k] = "undefined"
    BY <1>3, <2>1, <2>2 DEF PlaceOf
  <2> QED
    BY <2>1, <2>3
<1>7. \A k \in 0..n - m : k \in P
  <2>1. n - m \in Nat
    BY <1>1
  <2> HIDE DEF P
  <2> QED
    BY <1>5, <1>6, <2>1, Reaches
<1>8. n - m \in 0..n - m /\ m + (n - m) = n
  BY <1>1
<1>9. copy[n] \in hidden
  BY <1>7, <1>8
<1> QED
  BY <1>2, <1>9 DEF Placed

InForce(raw, config, p) ==
  LET set    == raw[p]
      masked == {i \in DOMAIN p : p[i] \in Sensitive}
  IN  \/ set \in NotGiven /\ At(config, p) = "undefined"
      \/ IF masked # {}
           THEN /\ \E i \in masked : At(config, SubSeq(p, 1, i)) = "[CONFIG_MASKED]"
                /\ At(config, p) \in {"[CONFIG_MASKED]", "undefined"}
         ELSE IF set = "dsn" /\ Last(p) \in UrlKeys
           THEN At(config, p) = "redacted"
         ELSE IF set = "regexp" /\ raw[Front(p)] = "array"
           THEN At(config, p) = "object"
         ELSE At(config, p) = set

LEMMA InForceFact ==
  ASSUME NEW raw, IsConfig(raw), NEW none, \A q \in none : At(raw, q) \in NotGiven,
         NEW p \in DOMAIN raw, raw[p] \notin Branches
  PROVE  InForce(raw, SanitizeConfig(Restrict(raw, DOMAIN raw \ none)), p)
<1> DEFINE n == Len(p)
           c == Restrict(raw, DOMAIN raw \ none)
           config == SanitizeConfig(c)
           at(i) == SubSeq(p, 1, i)
           masked == {i \in DOMAIN p : p[i] \in Sensitive}
<1>1. p \in Seq(Names) /\ n \in Nat /\ DOMAIN p = 1..n
  BY DEF IsConfig
<1>2. /\ \A i \in 0..n : at(i) \in DOMAIN raw
      /\ \A i \in 0..n - 1 : raw[at(i)] \in Branches
      /\ \A i \in 1..n : raw[at(i - 1)] = "array" => p[i] \notin Sensitive \cup UrlKeys
  BY WayFact
<1>3. /\ DOMAIN c = DOMAIN raw \ none /\ \A q \in DOMAIN c : c[q] = raw[q]
      /\ DOMAIN config = DOMAIN c /\ \A q \in DOMAIN c : config[q] = PlaceInCopy(c, q)
  BY DEF Restrict, SanitizeConfig
<1>4. at(0) = <<>> /\ at(n) = p
  BY <1>1
<1>5. raw[<<>>] = "object" /\ p # <<>>
  BY DEF IsConfig, Branches
<1>6. n >= 1
  BY <1>1, <1>5
<1> HIDE DEF c, config
<1>7. \A q \in DOMAIN raw : raw[q] \in Branches => q \in DOMAIN c /\ At(c, q) = raw[q]
  <2> SUFFICES ASSUME NEW q \in DOMAIN raw, raw[q] \in Branches
               PROVE  q \in DOMAIN c /\ At(c, q) = raw[q]
    OBVIOUS
  <2>1. At(raw, q) \notin NotGiven
    BY DEF At, Branches, NotGiven
  <2> QED
    BY <1>3, <2>1 DEF At
<1>8. At(c, <<>>) = "object"
  <2>1. <<>> \in DOMAIN raw
    BY DEF IsConfig
  <2> QED
    BY <1>5, <1>7, <2>1 DEF Branches
<1>9. ASSUME NEW i \in 1..n, \A j \in 1..i - 1 : p[j] \notin Sensitive, at(i) \in DOMAIN c
      PROVE  At(config, at(i)) = IF raw[at(i - 1)] = "object"
                                   THEN SanitizeField(p[i], raw[at(i)]) ELSE Copied(raw[at(i)])
  <2> DEFINE q == at(i)
  <2>1. i \in 0..Len(p) /\ i - 1 \in 0..n - 1 /\ i - 1 \in 0..i /\ i \in 1..i
    BY <1>1
  <2>2. q \in Seq(Names) /\ Len(q) = i /\ \A j \in 1..i : q[j] = p[j]
    BY <1>1, <2>1, PathPrefix
  <2>3. \A j \in 0..i : SubSeq(q, 1, j) = at(j)
    BY <1>1, <2>1, PrefixOfPrefix
  <2> HIDE DEF q, at
  <2>4. q # <<>>
    BY <2>2
  <2>5. ASSUME NEW j \in 0..Len(q) - 1
        PROVE  SubSeq(q, 1, j) = at(j) /\ At(c, SubSeq(q, 1, j)) = raw[at(j)]
                 /\ raw[at(j)] \in Branches
    <3>1. j \in 0..n - 1 /\ j \in 0..n /\ j \in 0..i
      BY <1>1, <2>2
    <3> HIDE DEF n
    <3> QED
      BY <1>2, <1>7, <2>3, <3>1
  <2>6. \A j \in 1..Len(q) - 1 : q[j] \notin Sensitive
    <3>1. \A j \in 1..i - 1 : j \in 1..i
      BY <2>1
    <3> QED
      BY <1>9, <2>2, <3>1
  <2>7. PlaceInCopy(c, q) =
           IF At(c, SubSeq(q, 1, Len(q) - 1)) = "object"
             THEN SanitizeField(q[Len(q)], At(c, q)) ELSE Copied(At(c, q))
    BY <1>8, <2>2, <2>4, <2>5, <2>6, PlaceFact
  <2>8. At(c, SubSeq(q, 1, Len(q) - 1)) = raw[at(i - 1)]
    <3>1. i - 1 \in 0..Len(q) - 1
      BY <2>1, <2>2
    <3> QED
      BY <2>2, <2>5, <3>1
  <2>9. At(c, q) = raw[q] /\ At(config, q) = PlaceInCopy(c, q)
    BY <1>3, <1>9 DEF At, q
  <2>10. At(config, q) = IF raw[at(i - 1)] = "object"
                                   THEN SanitizeField(p[i], raw[q]) ELSE Copied(raw[q])
    BY <2>2, <2>7, <2>8, <2>9
  <2> QED
    BY <2>10 DEF q
<1>10. CASE p \notin DOMAIN c
  <2>1. p \in none
    BY <1>3, <1>10
  <2>2. raw[p] \in NotGiven
    BY <2>1 DEF At
  <2>3. At(config, p) = "undefined"
    BY <1>3, <1>10 DEF At
  <2> QED
    BY <2>2, <2>3 DEF InForce, config, c
<1>11. CASE p \in DOMAIN c
  <2>1. \A i \in 0..n : at(i) \in DOMAIN c
    <3> SUFFICES ASSUME NEW i \in 0..n PROVE at(i) \in DOMAIN c
      OBVIOUS
    <3>1. n \in Nat
      BY <1>1
    <3> HIDE DEF at, n
    <3>2. i \in 0..n - 1 \/ i = n
      BY <3>1
    <3> QED
      BY <1>2, <1>4, <1>7, <1>11, <3>2
  <2>2. CASE masked # {}
    <3>1. masked \in SUBSET Nat
      BY <1>1
    <3>2. PICK i \in masked : \A j \in masked : i <= j
      <4> HIDE DEF masked
      <4> QED
        BY <2>2, <3>1, Smallest
    <3>3. i \in 1..n /\ i \in 0..n /\ i - 1 \in 0..n - 1 /\ p[i] \in Sensitive
      BY <1>1, <3>2
    <3>4. ASSUME NEW j \in 1..i - 1 PROVE p[j] \notin Sensitive
      <4>1. j \in 1..n /\ ~(i <= j)
        BY <1>1, <3>3
      <4> QED
        BY <1>1, <3>2, <4>1
    <3> HIDE DEF at, n, masked
    <3>5. raw[at(i - 1)] = "object"
      BY <1>2, <3>3 DEF Branches
    <3>6. At(config, at(i)) = SanitizeField(p[i], raw[at(i)])
      BY <1>9, <2>1, <3>3, <3>4, <3>5
    <3>7. At(config, at(i)) = "[CONFIG_MASKED]"
      BY <3>3, <3>6 DEF SanitizeField
    <3>8. At(c, at(i - 1)) # "array" /\ At(c, <<>>) # "array"
      <4>1. i - 1 \in 0..n
        BY <1>1, <3>3
      <4>2. at(i - 1) \in DOMAIN c
        BY <2>1, <4>1
      <4> QED
        BY <1>3, <1>8, <3>5, <4>2 DEF At
    <3>9. PlaceInCopy(c, p) \in {"[CONFIG_MASKED]", "undefined"}
      BY <1>1, <3>3, <3>8, HiddenFact DEF at, n
    <3>10. At(config, p) \in {"[CONFIG_MASKED]", "undefined"}
      BY <1>3, <1>11, <3>9 DEF At
    <3> QED
      BY <2>2, <3>2, <3>7, <3>10 DEF InForce, at, masked, config, c
  <2>3. CASE masked = {}
    <3>1. n \in 1..n /\ n - 1 \in 0..n - 1
      BY <1>1, <1>6
    <3>2. \A j \in 1..n : p[j] \notin Sensitive
      BY <1>1, <2>3
    <3>3. \A j \in 1..n - 1 : p[j] \notin Sensitive
      BY <1>1, <3>2
    <3>4. Last(p) = p[n] /\ Front(p) = at(n - 1)
      BY DEF Last, Front
    <3> HIDE DEF at, n, masked
    <3>5. At(config, p) = IF raw[at(n - 1)] = "object"
                            THEN SanitizeField(p[n], raw[p]) ELSE Copied(raw[p])
      BY <1>4, <1>9, <1>11, <3>1, <3>3
    <3>6. p[n] \notin Sensitive
      BY <3>1, <3>2
    <3>7. CASE raw[at(n - 1)] = "object"
      <4>1. At(config, p) = IF p[n] \in UrlKeys /\ raw[p] = "dsn" THEN "redacted" ELSE raw[p]
        BY <3>5, <3>6, <3>7 DEF SanitizeField, Copied
      <4> QED
        BY <2>3, <3>4, <3>7, <4>1 DEF InForce, masked, config, c
    <3>8. CASE raw[at(n - 1)] = "array"
      <4>1. p[n] \notin UrlKeys
        BY <1>2, <1>4, <3>1, <3>8
      <4>2. At(config, p) = IF raw[p] = "regexp" THEN "object" ELSE raw[p]
        BY <3>5, <3>8 DEF Copied
      <4> QED
        BY <2>3, <3>4, <3>8, <4>1, <4>2 DEF InForce, masked, config, c
    <3> QED
      BY <1>2, <3>1, <3>7, <3>8 DEF Branches
  <2> QED
    BY <2>2, <2>3
<1> QED
  BY <1>10, <1>11

(* Every configuration: the faults of all sections are reported, and what   *)
(* is accepted is in force, but for secrets (src/utils/sanitizeConfig.ts).  *)
THEOREM SettingsTakeEffectHolds == StartSpec => []SettingsTakeEffect
<1>1. Init => SettingsTakeEffect
  BY DEF Init, Idle, SettingsTakeEffect
<1>2. SettingsTakeEffect /\ [\E raw \in RawConfigs : Start(raw)]_task => SettingsTakeEffect'
  <2> SUFFICES ASSUME SettingsTakeEffect, [\E raw \in RawConfigs : Start(raw)]_task
               PROVE  SettingsTakeEffect'
    OBVIOUS
  <2>1. CASE UNCHANGED task
    BY <2>1 DEF SettingsTakeEffect
  <2>2. ASSUME NEW raw \in RawConfigs, Start(raw) PROVE SettingsTakeEffect'
    <3> DEFINE parsed == ValidateSyntropyLogConfig(raw)
    <3>1. IsConfig(raw)
      BY ConfigAssumption
    <3>2. Flat(raw) /\ <<>> \in DOMAIN raw /\ raw[<<>>] = "object"
      BY <3>1 DEF IsConfig, Flat
    <3>3. \A q \in parsed.none : At(raw, q) \in NotGiven
      BY <3>2, ValidateSyntropyLogConfigNone DEF NoneFits
    <3>4. parsed.issues
            = UNION {ValidateSyntropyLogConfig(Only(raw, k)).issues : k \in Keys(raw)}
      BY <3>2, IssuesOfEach
    <3>5. task'.raw = raw /\ task'.issues = parsed.issues
      BY <2>2 DEF Start
    <3>6. task'.issues = {} =>
            task'.config = SanitizeConfig(Restrict(raw, DOMAIN raw \ parsed.none))
      BY <2>2 DEF Start
    <3> HIDE DEF parsed
    <3>7. task'.issues = {} =>
            \A p \in {q \in DOMAIN raw : raw[q] \notin Branches} : InForce(raw, task'.config, p)
      <4> SUFFICES ASSUME task'.issues = {}, NEW p \in DOMAIN raw, raw[p] \notin Branches
                   PROVE  InForce(raw, task'.config, p)
        OBVIOUS
      <4> DEFINE none == parsed.none
      <4>1. \A q \in none : At(raw, q) \in NotGiven
        BY <3>3
      <4> HIDE DEF none
      <4>2. InForce(raw, SanitizeConfig(Restrict(raw, DOMAIN raw \ none)), p)
        BY <3>1, <4>1, InForceFact
      <4> QED
        BY <3>6, <4>2 DEF none
    <3> QED
      BY <3>4, <3>5, <3>7 DEF SettingsTakeEffect, InForce
  <2> QED
    BY <2>1, <2>2
<1> QED
  BY <1>1, <1>2, PTL DEF StartSpec
================================================================================
