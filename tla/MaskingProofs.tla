----------------------------- MODULE MaskingProofs -----------------------------
(***************************************************************************)
(* Proofs about the masking engine, for entries of any shape, any rules and *)
(* any sizes of cache.                                                     *)
(***************************************************************************)
EXTENDS Masking, FiniteSetTheorems, Recursion

Contents == UNION {[T -> Value] : T \in SUBSET Slots}
Frames   == [node : Nodes, todo : SUBSET Slots, slot : Slots \cup {NoRule}, out : Contents]
OnStack  == {stack[i].node : i \in DOMAIN stack}

(* The calls in progress are for different objects, each of them known to   *)
(* the memo before its slots are visited.                                   *)
StackInv ==
  /\ stack \in Seq(Frames)
  /\ Partial(memo, Nodes, Value)
  /\ OnStack \subseteq DOMAIN memo
  /\ NoEndlessDescent
  /\ heap \in Heaps
  /\ \A i \in DOMAIN stack : /\ stack[i].todo \subseteq DOMAIN heap[stack[i].node]
                             /\ DOMAIN stack[i].out = DOMAIN heap[stack[i].node]
  /\ result \in {"none", "masked", "failed"}
  /\ stack # <<>> => result = "none" /\ stack[1].node = Root

(* The rules, the decisions about key names and the copies.                 *)
DataInv ==
  /\ rules \in Seq(Rules)
  /\ Partial(cache, Slots, Rules \cup {NoRule})
  /\ IsFiniteSet(DOMAIN cache) /\ Cardinality(DOMAIN cache) <= CacheMax
  /\ moved \subseteq Stateful
  /\ DOMAIN copies \subseteq DOMAIN memo
  /\ \A n \in DOMAIN copies : copies[n] \in Contents /\ DOMAIN copies[n] = DOMAIN heap[n]

-----------------------------------------------------------------------------
(* Maps. *)

LEMMA WithFact ==
  ASSUME NEW D, NEW R, NEW f, Partial(f, D, R), NEW x \in D, NEW v \in R
  PROVE  /\ Partial(With(f, x, v), D, R)
         /\ DOMAIN With(f, x, v) = DOMAIN f \cup {x} /\ With(f, x, v)[x] = v
         /\ \A y \in DOMAIN f : y # x => With(f, x, v)[y] = f[y]
<1> DEFINE g == With(f, x, v)
<1>1. g = [y \in DOMAIN f \cup {x} |-> IF y = x THEN v ELSE f[y]]
  BY DEF With
<1>2. DOMAIN f \subseteq D /\ \A y \in DOMAIN f : f[y] \in R
  BY DEF Partial
<1> HIDE DEF g
<1>3. DOMAIN g = DOMAIN f \cup {x} /\ g[x] = v /\ \A y \in DOMAIN f : y # x => g[y] = f[y]
  BY <1>1
<1>4. g \in [DOMAIN g -> R]
  BY <1>1, <1>2
<1>5. DOMAIN g \subseteq D
  BY <1>2, <1>3
<1> QED
  BY <1>3, <1>4, <1>5 DEF g, Partial

LEMMA WithIsPartial ==
  ASSUME NEW D, NEW R, NEW f, Partial(f, D, R), NEW x \in D, NEW v \in R
  PROVE  Partial(With(f, x, v), D, R)
BY WithFact

LEMMA NothingFact == ASSUME NEW D, NEW R PROVE Partial(Nothing, D, R) /\ DOMAIN Nothing = {}
BY DEF Partial, Nothing

(* The first of the rules that hit is a rule.                               *)
LEMMA ScanIsTyped ==
  ASSUME rules \in Seq(Rules), NEW k
  PROVE  ScanRules(k) \in Rules \cup {NoRule}
<1> DEFINE hits == {i \in DOMAIN rules : Test(rules[i], k)}
<1>1. hits \in SUBSET Nat
  OBVIOUS
<1>2. CASE hits = {}
  BY <1>2 DEF ScanRules, FirstIn
<1>3. CASE hits # {}
  <2> DEFINE first == CHOOSE i \in hits : \A j \in hits : i <= j
  <2>1. first \in hits
    <3> HIDE DEF hits
    <3> QED
      BY <1>1, <1>3, Smallest
  <2>2. rules[first] \in Rules
    BY <2>1
  <2> QED
    BY <1>3, <2>2 DEF ScanRules, FirstIn
<1> QED
  BY <1>2, <1>3

-----------------------------------------------------------------------------
(* Stacks.                                                                  *)

LEMMA BelowFact ==
  ASSUME NEW E, NEW st \in Seq(E), st # <<>>
  PROVE  LET below == SubSeq(st, 1, Len(st) - 1)
         IN  /\ Len(st) \in Nat /\ Len(st) > 0 /\ DOMAIN st = 1..Len(st)
             /\ st[Len(st)] \in E
             /\ below \in Seq(E) /\ Len(below) = Len(st) - 1
             /\ \A i \in 1..Len(st) - 1 : below[i] = st[i]
             /\ below = <<>> <=> Len(st) = 1
<1>1. Len(st) \in Nat /\ Len(st) > 0 /\ DOMAIN st = 1..Len(st) /\ st[Len(st)] \in E
  OBVIOUS
<1> DEFINE below == SubSeq(st, 1, Len(st) - 1)
<1>2. below \in Seq(E) /\ Len(below) = Len(st) - 1
      /\ \A i \in 1..Len(st) - 1 : below[i] = st[i]
  BY <1>1
<1> HIDE DEF below
<1>3. below = <<>> <=> Len(st) = 1
  <2>1. below = <<>> <=> Len(below) = 0
    BY <1>2
  <2> QED
    BY <1>1, <1>2, <2>1
<1> USE DEF below
<1> QED
  BY <1>1, <1>2, <1>3

LEMMA AppendFact ==
  ASSUME NEW E, NEW q \in Seq(E), NEW e \in E
  PROVE  /\ Append(q, e) \in Seq(E)
         /\ Len(Append(q, e)) = Len(q) + 1 /\ Len(q) \in Nat
         /\ DOMAIN Append(q, e) = 1..(Len(q) + 1)
         /\ \A i \in 1..Len(q) : Append(q, e)[i] = q[i]
         /\ Append(q, e)[Len(q) + 1] = e
         /\ Append(q, e) # <<>>
OBVIOUS

LEMMA UpTo ==
  ASSUME NEW k \in Nat, k > 0
  PROVE  /\ \A i \in 1..k - 1 : i \in 1..k /\ i # k
         /\ \A i \in 1..k : i = k \/ i \in 1..k - 1
         /\ \A i \in 1..k + 1 : i = k + 1 \/ i = k \/ i \in 1..k - 1
         /\ k \in 1..k /\ 1 \in 1..k
OBVIOUS

LEMMA PairUpTo ==
  ASSUME NEW k \in Nat, k > 0, NEW i \in 1..k + 1, NEW j \in 1..k + 1, i < j
  PROVE  \/ j \in 1..k
         \/ j = k + 1 /\ i = k
         \/ j = k + 1 /\ i \in 1..k - 1
OBVIOUS

LEMMA LessOne == ASSUME NEW k \in Nat, k > 0, k # 1 PROVE k - 1 \in Nat /\ k - 1 > 0
OBVIOUS

(* The call on top, and the entry as it is for it.                          *)
LEMMA TopFact ==
  ASSUME StackInv, ~Idle
  PROVE  /\ Len(stack) \in Nat /\ Len(stack) > 0 /\ DOMAIN stack = 1..Len(stack)
         /\ Top \in Frames /\ Top.node \in Nodes /\ Top.node \in DOMAIN memo
         /\ Top.todo \subseteq DOMAIN heap[Top.node] /\ DOMAIN Top.out = DOMAIN heap[Top.node]
         /\ Below \in Seq(Frames) /\ Len(Below) = Len(stack) - 1
         /\ \A i \in 1..Len(stack) - 1 : Below[i] = stack[i]
         /\ Below = <<>> <=> Len(stack) = 1
<1>1. stack \in Seq(Frames) /\ stack # <<>>
  BY DEF StackInv, Idle
<1>2. /\ Len(stack) \in Nat /\ Len(stack) > 0 /\ DOMAIN stack = 1..Len(stack)
      /\ Top \in Frames
      /\ Below \in Seq(Frames) /\ Len(Below) = Len(stack) - 1
      /\ \A i \in 1..Len(stack) - 1 : Below[i] = stack[i]
      /\ Below = <<>> <=> Len(stack) = 1
  <2> HIDE DEF Frames
  <2> QED
    BY <1>1, BelowFact DEF Top, Below
<1>3. Len(stack) \in DOMAIN stack
  BY <1>2
<1>4. Top.node \in OnStack
  BY <1>3 DEF OnStack, Top
<1>5. Top.node \in Nodes
  BY <1>2 DEF Frames
<1>6. Top.todo \subseteq DOMAIN heap[Top.node] /\ DOMAIN Top.out = DOMAIN heap[Top.node]
  BY <1>3 DEF Top, StackInv
<1> QED
  BY <1>2, <1>4, <1>5, <1>6 DEF StackInv

(* What an entry holds.                                                     *)
LEMMA HeapFact ==
  ASSUME heap \in Heaps, NEW n \in Nodes
  PROVE  /\ heap[n] \in Contents /\ DOMAIN heap[n] \subseteq Slots
         /\ \A s \in DOMAIN heap[n] :
              /\ heap[n][s] \in Value
              /\ heap[n][s].is = "ref" => heap[n][s].of \in Nodes /\ heap[n][s] = Ref(heap[n][s].of)
<1>1. Partial(heap[n], Slots, Value) /\ \A s \in DOMAIN heap[n] : Input(heap[n][s])
  BY HeapAssumption
<1>2. heap[n] \in Contents /\ DOMAIN heap[n] \subseteq Slots
  BY <1>1 DEF Partial, Contents
<1>3. ASSUME NEW s \in DOMAIN heap[n]
      PROVE  /\ heap[n][s] \in Value
             /\ heap[n][s].is = "ref" => heap[n][s].of \in Nodes /\ heap[n][s] = Ref(heap[n][s].of)
  <2>1. heap[n][s] \in Value
    <3> HIDE DEF Value
    <3> QED
      BY <1>1 DEF Partial
  <2>2. Input(heap[n][s])
    BY <1>1
  <2>3. CASE heap[n][s] \in {Text, Number}
    BY <2>1, <2>3 DEF Text, Number
  <2>4. CASE heap[n][s] \in {Ref(m) : m \in Nodes}
    BY <2>1, <2>4 DEF Ref
  <2> QED
    BY <2>2, <2>3, <2>4 DEF Input
<1> QED
  BY <1>2, <1>3

LEMMA FrameIsTyped ==
  ASSUME heap \in Heaps, NEW n \in Nodes
  PROVE  /\ Frame(n) \in Frames /\ Frame(n).node = n
         /\ Frame(n).todo = DOMAIN heap[n] /\ Frame(n).out = heap[n]
BY HeapFact DEF Frame, Frames

-----------------------------------------------------------------------------
(* What the three moves of the walk do to the stack.                        *)

LEMMA PutIsTyped ==
  ASSUME NEW frame \in Frames, NEW s, NEW v \in Value
  PROVE  Put(frame, s, v) \in Frames /\ Put(frame, s, v).node = frame.node
<1> HIDE DEF Value
<1> DEFINE t == frame.todo \ {s}  o == [frame.out EXCEPT ![s] = v]
<1>1. PICK T \in SUBSET Slots : frame.out \in [T -> Value]
  BY DEF Frames, Contents
<1>2. o \in [T -> Value]
  BY <1>1
<1>3. t \in SUBSET Slots /\ o \in Contents
  BY <1>2 DEF Contents, Frames
<1>4. Put(frame, s, v) = [frame EXCEPT !.todo = t, !.out = o]
  BY DEF Put
<1> HIDE DEF t, o, Contents
<1> QED
  BY <1>3, <1>4 DEF Frames

LEMMA PutOut ==
  ASSUME NEW frame \in Frames, NEW s, NEW v
  PROVE  /\ Put(frame, s, v).slot = frame.slot
         /\ Put(frame, s, v).out = [frame.out EXCEPT ![s] = v]
<1> DEFINE t == frame.todo \ {s}  o == [frame.out EXCEPT ![s] = v]
<1>1. Put(frame, s, v) = [frame EXCEPT !.todo = t, !.out = o]
  BY DEF Put
<1> HIDE DEF t, o, Contents
<1>2. LET w == [frame EXCEPT !.todo = t, !.out = o]
      IN  w.slot = frame.slot /\ w.out = o
  BY DEF Frames
<1> QED
  BY <1>1, <1>2 DEF o

LEMMA PutAt ==
  ASSUME NEW frame \in Frames, NEW s, NEW v, NEW u \in DOMAIN frame.out
  PROVE  Put(frame, s, v).out[u] = IF u = s THEN v ELSE frame.out[u]
<1> DEFINE t == frame.todo \ {s}  o == [frame.out EXCEPT ![s] = v]
<1>1. Put(frame, s, v) = [frame EXCEPT !.todo = t, !.out = o]
  BY DEF Put
<1>2. o[u] = IF u = s THEN v ELSE frame.out[u]
  OBVIOUS
<1> HIDE DEF t, o, Contents
<1>3. LET w == [frame EXCEPT !.todo = t, !.out = o]
      IN  w.out = o
  BY DEF Frames
<1> QED
  BY <1>1, <1>2, <1>3

LEMMA PutShape ==
  ASSUME NEW frame \in Frames, NEW s, NEW v
  PROVE  /\ Put(frame, s, v).todo = frame.todo \ {s}
         /\ DOMAIN Put(frame, s, v).out = DOMAIN frame.out
<1> DEFINE t == frame.todo \ {s}  o == [frame.out EXCEPT ![s] = v]
<1>1. Put(frame, s, v) = [frame EXCEPT !.todo = t, !.out = o]
  BY DEF Put
<1>2. DOMAIN o = DOMAIN frame.out
  OBVIOUS
<1> HIDE DEF t, o, Contents
<1>3. LET w == [frame EXCEPT !.todo = t, !.out = o]
      IN  w.todo = t /\ w.out = o
  BY DEF Frames
<1> QED
  BY <1>1, <1>2, <1>3 DEF t

LEMMA PutTopFact ==
  ASSUME StackInv, ~Idle, NEW s \in Top.todo, NEW v \in Value, PutTop(s, v)
  PROVE  /\ stack' \in Seq(Frames) /\ stack' # <<>>
         /\ Len(stack') = Len(stack) /\ DOMAIN stack' = 1..Len(stack)
         /\ \A i \in 1..Len(stack) - 1 : stack'[i] = stack[i]
         /\ stack'[Len(stack)] = Put(Top, s, v)
         /\ \A i \in 1..Len(stack) : stack'[i].node = stack[i].node
<1>1. Top \in Frames /\ s \in Slots \cup {NoRule}
  BY TopFact DEF Frames
<1>2. Put(Top, s, v) \in Frames /\ Put(Top, s, v).node = Top.node
  <2> DEFINE t == Top
  <2>1. t \in Frames
    BY <1>1
  <2> HIDE DEF t, Frames
  <2>2. Put(t, s, v) \in Frames /\ Put(t, s, v).node = t.node
    BY <1>1, <2>1, PutIsTyped
  <2> QED
    BY <2>2 DEF t
<1>3. /\ Below \in Seq(Frames) /\ Len(Below) = Len(stack) - 1 /\ Len(stack) \in Nat /\ Len(stack) > 0
      /\ \A i \in 1..Len(stack) - 1 : Below[i] = stack[i]
  BY TopFact
<1>4. stack' = Append(Below, Put(Top, s, v))
  BY DEF PutTop
<1>5. /\ stack' \in Seq(Frames) /\ Len(stack') = Len(stack) /\ DOMAIN stack' = 1..Len(stack)
      /\ \A i \in 1..Len(stack) - 1 : stack'[i] = stack[i]
      /\ stack'[Len(stack)] = Put(Top, s, v) /\ stack' # <<>>
  <2> HIDE DEF Frames
  <2>1. /\ stack' \in Seq(Frames) /\ Len(stack') = Len(Below) + 1 /\ DOMAIN stack' = 1..(Len(Below) + 1)
        /\ \A i \in 1..Len(Below) : stack'[i] = Below[i]
        /\ stack'[Len(Below) + 1] = Put(Top, s, v) /\ stack' # <<>>
    BY <1>2, <1>3, <1>4, AppendFact
  <2>2. Len(Below) + 1 = Len(stack) /\ Len(Below) = Len(stack) - 1
    BY <1>3
  <2> QED
    BY <2>1, <2>2, <1>3
<1>6. ASSUME NEW i \in 1..Len(stack) PROVE stack'[i].node = stack[i].node
  <2>1. i \in 1..Len(stack) - 1 \/ i = Len(stack)
    BY <1>3
  <2> QED
    BY <2>1, <1>5, <1>2 DEF Top
<1> QED
  BY <1>5, <1>6

LEMMA EnterFact ==
  ASSUME StackInv, ~Idle, NEW s \in Top.todo, NEW n \in Nodes, n \notin DOMAIN memo,
         Enter(n, Append(Below, [Top EXCEPT !.slot = s]))
  PROVE  /\ stack' \in Seq(Frames) /\ stack' # <<>>
         /\ Len(stack') = Len(stack) + 1 /\ DOMAIN stack' = 1..Len(stack) + 1
         /\ \A i \in 1..Len(stack) - 1 : stack'[i] = stack[i]
         /\ stack'[Len(stack)] = [Top EXCEPT !.slot = s]
         /\ stack'[Len(stack) + 1] = Frame(n)
         /\ \A i \in 1..Len(stack) : stack'[i].node = stack[i].node
         /\ memo' = With(memo, n, Ref(n))
<1> DEFINE caller == [Top EXCEPT !.slot = s]
<1>1. caller \in Frames /\ caller.node = Top.node
  BY TopFact DEF Frames
<1>2. Frame(n) \in Frames /\ Frame(n).node = n
  BY FrameIsTyped DEF StackInv
<1>3. /\ Below \in Seq(Frames) /\ Len(Below) = Len(stack) - 1 /\ Len(stack) \in Nat /\ Len(stack) > 0
      /\ \A i \in 1..Len(stack) - 1 : Below[i] = stack[i]
  BY TopFact
<1>4. stack' = Append(Append(Below, caller), Frame(n))
      /\ memo' = With(IF Append(Below, caller) = <<>> THEN Nothing ELSE memo, n, Ref(n))
  BY DEF Enter
<1> HIDE DEF caller
<1>5. /\ Append(Below, caller) \in Seq(Frames) /\ Len(Append(Below, caller)) = Len(stack)
      /\ \A i \in 1..Len(stack) - 1 : Append(Below, caller)[i] = stack[i]
      /\ Append(Below, caller)[Len(stack)] = caller /\ Append(Below, caller) # <<>>
  <2> HIDE DEF Frames
  <2>1. /\ Append(Below, caller) \in Seq(Frames) /\ Len(Append(Below, caller)) = Len(Below) + 1
        /\ \A i \in 1..Len(Below) : Append(Below, caller)[i] = Below[i]
        /\ Append(Below, caller)[Len(Below) + 1] = caller /\ Append(Below, caller) # <<>>
    BY <1>1, <1>3, AppendFact
  <2>2. Len(Below) + 1 = Len(stack) /\ Len(Below) = Len(stack) - 1
    BY <1>3
  <2> QED
    BY <2>1, <2>2, <1>3
<1> DEFINE q == Append(Below, caller)
<1>6. /\ stack' \in Seq(Frames) /\ Len(stack') = Len(stack) + 1 /\ DOMAIN stack' = 1..Len(stack) + 1
      /\ \A i \in 1..Len(stack) : stack'[i] = q[i]
      /\ stack'[Len(stack) + 1] = Frame(n) /\ stack' # <<>>
  <2>1. q \in Seq(Frames) /\ Len(q) = Len(stack) /\ stack' = Append(q, Frame(n))
    BY <1>4, <1>5
  <2> HIDE DEF Frames, q
  <2> QED
    BY <2>1, <1>2, AppendFact
<1>7. /\ \A i \in 1..Len(stack) - 1 : stack'[i] = stack[i]
      /\ stack'[Len(stack)] = caller
  BY <1>3, <1>5, <1>6
<1>8. ASSUME NEW i \in 1..Len(stack) PROVE stack'[i].node = stack[i].node
  <2>1. i \in 1..Len(stack) - 1 \/ i = Len(stack)
    BY <1>3
  <2> QED
    BY <2>1, <1>7, <1>1 DEF Top
<1> QED
  BY <1>4, <1>5, <1>6, <1>7, <1>8 DEF caller

LEMMA ReturnFact ==
  ASSUME StackInv, ~Idle, Return, Below # <<>>, memo'[Top.node] \in Value
  PROVE  LET d == Len(stack) - 1
         IN  /\ stack' \in Seq(Frames) /\ d \in Nat /\ d > 0 /\ DOMAIN stack' = 1..d
             /\ \A i \in 1..d - 1 : stack'[i] = stack[i]
             /\ stack'[d] = Put(stack[d], stack[d].slot, memo'[Top.node])
             /\ stack[d] \in Frames
             /\ \A i \in 1..d : stack'[i].node = stack[i].node
             /\ result' = result /\ stack' # <<>>
<1> DEFINE d == Len(stack) - 1
           w == Put(stack[d], stack[d].slot, memo'[Top.node])
<1>1. /\ Below \in Seq(Frames) /\ Len(Below) = d /\ d \in Nat /\ d > 0 /\ DOMAIN Below = 1..d
      /\ \A i \in 1..d : Below[i] = stack[i]
  <2>1. Below \in Seq(Frames) /\ Len(Below) = d /\ \A i \in 1..d : Below[i] = stack[i]
    BY TopFact
  <2>2. Len(stack) \in Nat /\ Len(stack) > 0 /\ Len(stack) # 1
    BY TopFact
  <2>3. d \in Nat /\ d > 0
    BY <2>2, LessOne
  <2>4. DOMAIN Below = 1..Len(Below)
    BY <2>1
  <2> QED
    BY <2>1, <2>3, <2>4
<1>2. stack[d] \in Frames
  <2>1. Below[d] \in Frames
    BY <1>1
  <2> QED
    BY <1>1, <2>1
<1>3. w \in Frames /\ w.node = stack[d].node
  <2>1. stack[d].slot \in Slots \cup {NoRule}
    BY <1>2 DEF Frames
  <2> DEFINE c == stack[d]  z == memo'[Top.node]
  <2>2. c \in Frames /\ c.slot \in Slots \cup {NoRule} /\ z \in Value
    BY <1>2, <2>1
  <2> HIDE DEF c, z, Frames
  <2>3. Put(c, c.slot, z) \in Frames /\ Put(c, c.slot, z).node = c.node
    BY <2>2, PutIsTyped
  <2> QED
    BY <2>3 DEF c, z
<1>4. stack' = [Below EXCEPT ![d] = w] /\ result' = result
  BY <1>1 DEF Return
<1> HIDE DEF w
<1>5. /\ stack' \in Seq(Frames) /\ DOMAIN stack' = 1..d
      /\ \A i \in 1..d - 1 : stack'[i] = stack[i]
      /\ stack'[d] = w /\ stack' # <<>>
  <2> HIDE DEF Frames, d
  <2>1. DOMAIN stack' = 1..d /\ stack'[d] = w /\ \A i \in 1..d - 1 : stack'[i] = stack[i]
    BY <1>1, <1>4
  <2>2. stack' \in Seq(Frames)
    BY <1>1, <1>3, <1>4
  <2>3. stack' # <<>>
    BY <2>1, <1>1
  <2> QED
    BY <2>1, <2>2, <2>3
<1>6. ASSUME NEW i \in 1..d PROVE stack'[i].node = stack[i].node
  <2>1. i \in 1..d - 1 \/ i = d
    BY <1>1
  <2> QED
    BY <2>1, <1>5, <1>3
<1> QED
  BY <1>1, <1>2, <1>4, <1>5, <1>6 DEF w

-----------------------------------------------------------------------------
(* Every step keeps the stack.                                              *)

(* Outside of process() there is none.                                      *)
LEMMA NoStack ==
  ASSUME StackInv, stack' = <<>>, heap' = heap, Partial(memo', Nodes, Value),
         result' \in {"none", "masked", "failed"}
  PROVE  StackInv' /\ OnStack' = {}
<1>1. OnStack' = {}
  BY DEF OnStack
<1>2. <<>> \in Seq(Frames)
  OBVIOUS
<1>3. NoEndlessDescent'
  BY DEF NoEndlessDescent
<1> QED
  BY <1>1, <1>2, <1>3 DEF StackInv

LEMMA RefIsValue == ASSUME NEW n \in Nodes PROVE Ref(n) \in Value /\ Copy(n) \in Value
BY DEF Ref, Copy, Value

LEMMA ProcessStack ==
  ASSUME StackInv, Process
  PROVE  /\ StackInv' /\ stack' = <<Frame(Root)>> /\ OnStack' = {Root}
         /\ DOMAIN memo' = {Root} /\ memo'[Root] = Ref(Root)
<1>1. heap' = heap /\ heap \in Heaps /\ Root \in Nodes /\ result' = "none"
  BY HeapAssumption DEF StackInv, Process
<1>2. stack' = <<Frame(Root)>> /\ memo' = With(Nothing, Root, Ref(Root))
  BY DEF Process, Enter
<1>3. Partial(memo', Nodes, Value) /\ DOMAIN memo' = {Root} /\ memo'[Root] = Ref(Root)
  <2>1. Partial(Nothing, Nodes, Value) /\ DOMAIN Nothing = {} /\ Ref(Root) \in Value
    BY <1>1, NothingFact, RefIsValue
  <2>2. memo' = [y \in {Root} |-> Ref(Root)]
    BY <1>2, <2>1 DEF With
  <2> HIDE DEF Value
  <2>3. DOMAIN memo' = {Root} /\ memo'[Root] = Ref(Root)
    BY <2>2
  <2>4. memo' \in [DOMAIN memo' -> Value]
    BY <2>1, <2>2
  <2> QED
    BY <1>1, <2>3, <2>4 DEF Partial
<1>4. /\ Frame(Root) \in Frames /\ Frame(Root).node = Root
      /\ Frame(Root).todo = DOMAIN heap[Root] /\ Frame(Root).out = heap[Root]
  BY <1>1, FrameIsTyped
<1>5. stack' \in Seq(Frames) /\ DOMAIN stack' = {1} /\ stack'[1] = Frame(Root)
  BY <1>2, <1>4
<1>6. OnStack' = {Root}
  BY <1>4, <1>5 DEF OnStack
<1>7. NoEndlessDescent'
  BY <1>5 DEF NoEndlessDescent
<1> QED
  BY <1>1, <1>2, <1>3, <1>4, <1>5, <1>6, <1>7 DEF StackInv

(* A slot of the call on top is done.                                       *)
LEMMA PutStack ==
  ASSUME StackInv, ~Idle, NEW s \in Top.todo, NEW v \in Value, PutTop(s, v),
         UNCHANGED <<memo, heap, result>>
  PROVE  StackInv' /\ OnStack' = OnStack
<1>1. /\ stack' \in Seq(Frames) /\ stack' # <<>>
      /\ Len(stack') = Len(stack) /\ DOMAIN stack' = 1..Len(stack)
      /\ \A i \in 1..Len(stack) - 1 : stack'[i] = stack[i]
      /\ stack'[Len(stack)] = Put(Top, s, v)
      /\ \A i \in 1..Len(stack) : stack'[i].node = stack[i].node
  BY PutTopFact
<1>2. Len(stack) \in Nat /\ Len(stack) > 0 /\ DOMAIN stack = 1..Len(stack) /\ Top \in Frames
  BY TopFact
<1>3. OnStack' = OnStack
  BY <1>1, <1>2 DEF OnStack
<1>4. NoEndlessDescent'
  BY <1>1, <1>2 DEF StackInv, NoEndlessDescent
<1>5. ASSUME NEW i \in 1..Len(stack)
      PROVE  /\ stack'[i].todo \subseteq DOMAIN heap[stack'[i].node]
             /\ DOMAIN stack'[i].out = DOMAIN heap[stack'[i].node]
  <2>1. CASE i \in 1..Len(stack) - 1
    BY <2>1, <1>1, <1>2 DEF StackInv
  <2>2. CASE i = Len(stack)
    <3>1. /\ stack'[i].todo = Top.todo \ {s} /\ DOMAIN stack'[i].out = DOMAIN Top.out
          /\ stack'[i].node = Top.node
      <4>1. Put(Top, s, v).todo = Top.todo \ {s} /\ DOMAIN Put(Top, s, v).out = DOMAIN Top.out
        BY <1>2, PutShape
      <4>2. stack'[i] = Put(Top, s, v) /\ stack'[i].node = Top.node
        BY <2>2, <1>1 DEF Top
      <4> QED
        BY <4>1, <4>2
    <3> QED
      BY <3>1, TopFact
  <2> QED
    BY <1>2, <2>1, <2>2, UpTo
<1>6. stack'[1].node = Root /\ result' = "none"
  <2>1. 1 \in 1..Len(stack) /\ stack # <<>>
    BY <1>2 DEF Idle
  <2> QED
    BY <1>1, <2>1 DEF StackInv
<1> QED
  BY <1>1, <1>3, <1>4, <1>5, <1>6 DEF StackInv

(* An object is entered: it was not in the memo, so it is on the stack once. *)
LEMMA EnterStack ==
  ASSUME StackInv, ~Idle, NEW s \in Top.todo, NEW n \in Nodes, n \notin DOMAIN memo,
         Enter(n, Append(Below, [Top EXCEPT !.slot = s])), UNCHANGED <<heap, result>>
  PROVE  /\ StackInv' /\ OnStack' = OnStack \cup {n}
         /\ DOMAIN memo' = DOMAIN memo \cup {n}
         /\ \A m \in DOMAIN memo : memo'[m] = memo[m]
<1>1. /\ stack' \in Seq(Frames) /\ stack' # <<>>
      /\ Len(stack') = Len(stack) + 1 /\ DOMAIN stack' = 1..Len(stack) + 1
      /\ \A i \in 1..Len(stack) - 1 : stack'[i] = stack[i]
      /\ stack'[Len(stack)] = [Top EXCEPT !.slot = s]
      /\ stack'[Len(stack) + 1] = Frame(n)
      /\ \A i \in 1..Len(stack) : stack'[i].node = stack[i].node
      /\ memo' = With(memo, n, Ref(n))
  BY EnterFact
<1>2. Len(stack) \in Nat /\ Len(stack) > 0 /\ DOMAIN stack = 1..Len(stack) /\ Top \in Frames
  BY TopFact
<1>3. /\ Frame(n).node = n /\ Frame(n).todo = DOMAIN heap[n] /\ Frame(n).out = heap[n]
  BY FrameIsTyped DEF StackInv
<1>4. /\ Partial(memo', Nodes, Value) /\ DOMAIN memo' = DOMAIN memo \cup {n}
      /\ \A m \in DOMAIN memo : memo'[m] = memo[m]
  <2>1. Partial(memo, Nodes, Value) /\ Ref(n) \in Value
    BY RefIsValue DEF StackInv
  <2>2. LET m == With(memo, n, Ref(n))
        IN  /\ Partial(m, Nodes, Value) /\ DOMAIN m = DOMAIN memo \cup {n}
            /\ \A k \in DOMAIN memo : k # n => m[k] = memo[k]
    BY <2>1, WithFact
  <2> QED
    BY <1>1, <2>2
<1>5. OnStack' = OnStack \cup {n}
  BY <1>1, <1>2, <1>3 DEF OnStack
<1>6. NoEndlessDescent'
  <2> SUFFICES ASSUME NEW i \in DOMAIN stack', NEW j \in DOMAIN stack',
                      stack'[i].node = stack'[j].node
               PROVE  i = j
    BY DEF NoEndlessDescent
  <2>1. n \notin OnStack
    BY DEF StackInv
  <2>2. \A k \in 1..Len(stack) : stack'[k].node # n
    BY <1>1, <1>2, <2>1 DEF OnStack
  <2>3. CASE i \in 1..Len(stack) /\ j \in 1..Len(stack)
    BY <2>3, <1>1, <1>2 DEF StackInv, NoEndlessDescent
  <2>4. CASE i = Len(stack) + 1 \/ j = Len(stack) + 1
    BY <2>4, <2>2, <1>1, <1>2, <1>3
  <2> QED
    BY <1>1, <1>2, <2>3, <2>4
<1>7. ASSUME NEW i \in 1..Len(stack) + 1
      PROVE  /\ stack'[i].todo \subseteq DOMAIN heap[stack'[i].node]
             /\ DOMAIN stack'[i].out = DOMAIN heap[stack'[i].node]
  <2>1. CASE i \in 1..Len(stack) - 1
    BY <2>1, <1>1, <1>2 DEF StackInv
  <2>2. CASE i = Len(stack)
    <3>1. stack'[i].todo = Top.todo /\ stack'[i].out = Top.out /\ stack'[i].node = Top.node
      BY <2>2, <1>1, <1>2 DEF Frames
    <3> QED
      BY <3>1, TopFact
  <2>3. CASE i = Len(stack) + 1
    BY <2>3, <1>1, <1>3
  <2> QED
    BY <1>2, <2>1, <2>2, <2>3, UpTo
<1>8. stack'[1].node = Root /\ result' = "none"
  <2>1. 1 \in 1..Len(stack) /\ stack # <<>>
    BY <1>2 DEF Idle
  <2> QED
    BY <1>1, <2>1 DEF StackInv
<1>9. OnStack' \subseteq DOMAIN memo'
  BY <1>4, <1>5 DEF StackInv
<1> QED
  BY <1>1, <1>4, <1>5, <1>6, <1>7, <1>8, <1>9 DEF StackInv

(* A call returns to its caller, or process() returns.                      *)
LEMMA ReturnStack ==
  ASSUME StackInv, Return
  PROVE  /\ StackInv' /\ OnStack' = OnStack \ {Top.node}
         /\ Top.node \in Nodes /\ Top.node \in DOMAIN memo /\ DOMAIN memo' = DOMAIN memo
         /\ memo'[Top.node] = IF Top.out = heap[Top.node] THEN Ref(Top.node) ELSE Copy(Top.node)
         /\ \A m \in DOMAIN memo : m # Top.node => memo'[m] = memo[m]
<1> DEFINE n == Top.node
           z == IF Top.out = heap[n] THEN Ref(n) ELSE Copy(n)
<1>0. ~Idle
  BY DEF Return
<1>1. /\ Len(stack) \in Nat /\ Len(stack) > 0 /\ DOMAIN stack = 1..Len(stack) /\ Top \in Frames
      /\ n \in Nodes /\ n \in DOMAIN memo
  BY <1>0, TopFact
<1>2. memo' = [memo EXCEPT ![n] = z] /\ heap' = heap
  BY DEF Return, Settle
<1>3. z \in Value
  BY <1>1, RefIsValue
<1> HIDE DEF z
<1>4. /\ DOMAIN memo' = DOMAIN memo /\ memo'[n] = z
      /\ \A m \in DOMAIN memo : m # n => memo'[m] = memo[m]
  BY <1>1, <1>2
<1>5. Partial(memo', Nodes, Value)
  <2>1. Partial(memo, Nodes, Value)
    BY DEF StackInv
  <2> HIDE DEF Value
  <2> QED
    BY <1>2, <1>3, <2>1 DEF Partial
<1>6. CASE Below = <<>>
  <2>1. stack' = <<>> /\ result' = "masked"
    BY <1>6 DEF Return
  <2>2. Len(stack) = 1
    BY <1>0, <1>6, TopFact
  <2>3. OnStack = {n}
    BY <1>1, <2>2 DEF OnStack, Top
  <2>4. StackInv' /\ OnStack' = {}
    BY <1>2, <1>5, <2>1, NoStack
  <2> QED
    BY <1>1, <1>4, <2>3, <2>4 DEF z
<1>7. CASE Below # <<>>
  <2> DEFINE d == Len(stack) - 1
             w == Put(stack[d], stack[d].slot, memo'[n])
  <2>1. /\ stack' \in Seq(Frames) /\ d \in Nat /\ d > 0 /\ DOMAIN stack' = 1..d
        /\ \A i \in 1..d - 1 : stack'[i] = stack[i]
        /\ stack'[d] = w /\ stack[d] \in Frames
        /\ \A i \in 1..d : stack'[i].node = stack[i].node
        /\ result' = result /\ stack' # <<>>
    BY <1>0, <1>3, <1>4, <1>7, ReturnFact
  <2> HIDE DEF w
  <2>2. \A i \in 1..d : i \in DOMAIN stack /\ i # Len(stack)
    BY <1>1, UpTo
  <2>3. NoEndlessDescent'
    BY <2>1, <2>2 DEF StackInv, NoEndlessDescent
  <2>4. \A i \in 1..d : stack[i].node # n
    <3>1. Len(stack) \in DOMAIN stack /\ stack[Len(stack)].node = n
      BY <1>1 DEF Top
    <3> QED
      BY <2>2, <3>1 DEF StackInv, NoEndlessDescent
  <2>5. OnStack' = OnStack \ {n}
    <3>1. DOMAIN stack = (1..d) \cup {Len(stack)} /\ stack[Len(stack)].node = n
      BY <1>1 DEF Top
    <3>2. OnStack' = {stack[i].node : i \in 1..d}
      BY <2>1 DEF OnStack
    <3>3. OnStack = {stack[i].node : i \in 1..d} \cup {n}
      BY <3>1 DEF OnStack
    <3> QED
      BY <2>4, <3>2, <3>3
  <2>6. ASSUME NEW i \in 1..d
        PROVE  /\ stack'[i].todo \subseteq DOMAIN heap[stack'[i].node]
               /\ DOMAIN stack'[i].out = DOMAIN heap[stack'[i].node]
    <3>1. CASE i \in 1..d - 1
      BY <3>1, <2>1, <2>2 DEF StackInv
    <3>2. CASE i = d
      <4>1. w.todo = stack[d].todo \ {stack[d].slot} /\ DOMAIN w.out = DOMAIN stack[d].out
        BY <2>1, PutShape DEF w
      <4>2. stack[d].todo \subseteq DOMAIN heap[stack[d].node]
            /\ DOMAIN stack[d].out = DOMAIN heap[stack[d].node]
        BY <2>1, <2>2 DEF StackInv
      <4> QED
        BY <3>2, <4>1, <4>2, <2>1
    <3> QED
      BY <2>1, <3>1, <3>2
  <2>7. stack'[1].node = Root /\ result' = "none"
    <3>1. 1 \in 1..d /\ stack # <<>>
      BY <1>0, <2>1 DEF Idle
    <3> QED
      BY <2>1, <3>1 DEF StackInv
  <2>8. OnStack' \subseteq DOMAIN memo'
    BY <1>4, <2>5 DEF StackInv
  <2>9. StackInv'
    BY <1>2, <1>5, <2>1, <2>3, <2>6, <2>7, <2>8 DEF StackInv
  <2> QED
    BY <1>1, <1>4, <2>5, <2>9 DEF z
<1> QED
  BY <1>6, <1>7

-----------------------------------------------------------------------------
(* Decisions about key names.                                               *)

CacheInv ==
  /\ Partial(cache, Slots, Rules \cup {NoRule})
  /\ IsFiniteSet(DOMAIN cache) /\ Cardinality(DOMAIN cache) <= CacheMax
  /\ moved \subseteq Stateful

LEMMA DecideKeeps ==
  ASSUME DataInv, NEW k \in Slots, Decide(k)
  PROVE  CacheInv'
<1> DEFINE d == ScanRules(k)  R == Rules \cup {NoRule}
<1>0. d \in R
  BY ScanIsTyped DEF DataInv
<1> HIDE DEF d, R
<1>1. CASE UNCHANGED <<cache, moved>>
  BY <1>1 DEF DataInv, CacheInv, Partial
<1>2. CASE k \notin DOMAIN cache
  <2>1. moved' \subseteq Stateful
    BY <1>2 DEF Decide, DataInv
  <2>2. CASE Cardinality(DOMAIN cache) < CacheMax
    <3>1. cache' = With(cache, k, d)
      BY <1>2, <2>2 DEF Decide, d
    <3>2. Partial(cache', Slots, R) /\ DOMAIN cache' = DOMAIN cache \cup {k}
      <4>1. Partial(cache, Slots, R)
        BY DEF DataInv, R
      <4>2. Partial(cache', Slots, R)
        BY <1>0, <3>1, <4>1, WithIsPartial
      <4>3. DOMAIN cache' = DOMAIN cache \cup {k}
        BY <3>1 DEF With
      <4> QED
        BY <4>2, <4>3
    <3>3. /\ IsFiniteSet(DOMAIN cache)
          /\ IsFiniteSet(DOMAIN cache') /\ Cardinality(DOMAIN cache') = Cardinality(DOMAIN cache) + 1
      BY <1>2, <3>2, FS_AddElement DEF DataInv
    <3>4. Cardinality(DOMAIN cache) \in Nat
      BY <3>3, FS_CardinalityType
    <3>5. Cardinality(DOMAIN cache') <= CacheMax
      BY <2>2, <3>3, <3>4, RuleAssumption
    <3> QED
      BY <2>1, <3>2, <3>3, <3>5 DEF CacheInv, R
  <2>3. CASE ~(Cardinality(DOMAIN cache) < CacheMax)
    BY <1>2, <2>1, <2>3 DEF Decide, DataInv, CacheInv, Partial
  <2> QED
    BY <2>2, <2>3
<1> QED
  BY <1>1, <1>2 DEF Decide

LEMMA ConsultKeeps ==
  ASSUME DataInv, NEW n, NEW s \in Slots, Consult(n, s)
  PROVE  CacheInv'
<1>1. CASE n \in Arrays
  BY <1>1 DEF Consult, DataInv, CacheInv, Partial
<1>2. CASE n \notin Arrays
  BY <1>2, DecideKeeps DEF Consult
<1> QED
  BY <1>1, <1>2

LEMMA RuleForIsTyped ==
  ASSUME DataInv, NEW n, NEW s
  PROVE  RuleFor(n, s) \in Rules \cup {NoRule}
<1>1. ScanRules(s) \in Rules \cup {NoRule}
  BY ScanIsTyped DEF DataInv
<1>2. s \in DOMAIN cache => cache[s] \in Rules \cup {NoRule}
  BY DEF DataInv, Partial
<1> QED
  BY <1>1, <1>2 DEF RuleFor, FindMatchingRule

(* What a visit of a slot may do.                                           *)
LEMMA VisitCases ==
  ASSUME StackInv, DataInv, NEW s \in Slots, Visit(s)
  PROVE  LET v == heap[Top.node][s]
             r == RuleFor(Top.node, s)
         IN  /\ ~Idle /\ s \in Top.todo /\ s \in DOMAIN heap[Top.node] /\ v \in Value
             /\ UNCHANGED <<rules, heap, copies, result>>
             /\ \/ /\ r # NoRule /\ memo' = memo
                   /\ PutTop(s, IF v = Text THEN Masked(r) ELSE Redacted)
                   /\ (IF v = Text THEN Masked(r) ELSE Redacted) \in Value
                \/ /\ r = NoRule /\ v.is = "ref" /\ v.of \in Nodes /\ v.of \notin DOMAIN memo
                   /\ Enter(v.of, Append(Below, [Top EXCEPT !.slot = s]))
                \/ /\ r = NoRule /\ v.is = "ref" /\ v.of \in DOMAIN memo /\ memo' = memo
                   /\ memo[v.of] \in Value /\ PutTop(s, memo[v.of])
                \/ /\ r = NoRule /\ v.is # "ref" /\ memo' = memo /\ PutTop(s, v)
<1> DEFINE v == heap[Top.node][s]
           r == RuleFor(Top.node, s)
<1>1. ~Idle /\ s \in Top.todo /\ UNCHANGED <<rules, heap>>
  BY DEF Visit
<1>2. heap \in Heaps /\ Top.node \in Nodes /\ s \in DOMAIN heap[Top.node]
  BY <1>1, TopFact DEF StackInv
<1>3. v \in Value /\ (v.is = "ref" => v.of \in Nodes)
  BY <1>2, HeapFact
<1>4. r \in Rules \cup {NoRule}
  BY RuleForIsTyped
<1>5. r # NoRule => Masked(r) \in Value /\ Redacted \in Value
  BY <1>4 DEF Masked, Redacted, Value
<1>6. \A m \in DOMAIN memo : memo[m] \in Value
  <2> HIDE DEF Value
  <2> QED
    BY DEF StackInv, Partial
<1>7. IF r # NoRule THEN MaskMatched(s, v, r) ELSE PassUnmatched(s, v)
  BY DEF Visit
<1> HIDE DEF v, r
<1>8. CASE r # NoRule
  <2>1. MaskMatched(s, v, r)
    BY <1>7, <1>8
  <2> QED
    BY <1>1, <1>2, <1>3, <1>5, <1>8, <2>1 DEF MaskMatched, v, r
<1>9. CASE r = NoRule
  <2>1. PassUnmatched(s, v)
    BY <1>7, <1>9
  <2>2. CASE v.is = "ref" /\ v.of \notin DOMAIN memo
    BY <1>1, <1>2, <1>3, <1>9, <2>1, <2>2 DEF PassUnmatched, v, r
  <2>3. CASE v.is = "ref" /\ v.of \in DOMAIN memo
    BY <1>1, <1>2, <1>3, <1>6, <1>9, <2>1, <2>3 DEF PassUnmatched, v, r
  <2>4. CASE v.is # "ref"
    BY <1>1, <1>2, <1>3, <1>9, <2>1, <2>4 DEF PassUnmatched, v, r
  <2> QED
    BY <2>2, <2>3, <2>4
<1> QED
  BY <1>8, <1>9

-----------------------------------------------------------------------------
(* Every step keeps both.                                                   *)

CopiesInv ==
  /\ DOMAIN copies \subseteq DOMAIN memo
  /\ \A n \in DOMAIN copies : copies[n] \in Contents /\ DOMAIN copies[n] = DOMAIN heap[n]

LEMMA DataParts == DataInv <=> rules \in Seq(Rules) /\ CacheInv /\ CopiesInv
BY DEF DataInv, CacheInv, CopiesInv

MaskInv == StackInv /\ DataInv

LEMMA MaskInit == ASSUME Init PROVE MaskInv
<1>1. heap \in Heaps /\ stack = <<>> /\ memo = Nothing /\ result = "none"
  BY DEF Init
<1>2. Partial(memo, Nodes, Value)
  BY <1>1, NothingFact
<1>3. OnStack = {} /\ NoEndlessDescent /\ stack \in Seq(Frames)
  BY <1>1 DEF OnStack, NoEndlessDescent
<1>4. StackInv
  BY <1>1, <1>2, <1>3 DEF StackInv
<1>5. rules \in Seq(Rules)
  <2>1. <<>> \in Seq(Rules)
    OBVIOUS
  <2> QED
    BY <2>1, RuleAssumption DEF Init
<1>6. CacheInv
  <2>1. cache = Nothing /\ moved = {} /\ DOMAIN Nothing = {}
    BY NothingFact DEF Init
  <2>2. Partial(cache, Slots, Rules \cup {NoRule})
    BY <2>1, NothingFact
  <2> QED
    BY <2>1, <2>2, FS_EmptySet, RuleAssumption DEF CacheInv
<1>7. CopiesInv
  <2>1. copies = Nothing /\ DOMAIN Nothing = {}
    BY NothingFact DEF Init
  <2> QED
    BY <2>1 DEF CopiesInv
<1> QED
  BY <1>4, <1>5, <1>6, <1>7, DataParts DEF MaskInv

(* An operation between two entries.                                        *)
LEMMA IdleKeeps ==
  ASSUME MaskInv, Idle, Forget, UNCHANGED <<heap, stack>>
  PROVE  StackInv' /\ CopiesInv' /\ OnStack' = {}
<1>1. Partial(memo', Nodes, Value) /\ DOMAIN copies' = {}
  BY NothingFact DEF Forget
<1>2. stack' = <<>> /\ result' = "none"
  BY DEF Idle, Forget
<1> QED
  BY <1>1, <1>2, NoStack DEF MaskInv, CopiesInv

LEMMA EmptyCacheNext == ASSUME cache' = Nothing, moved' \subseteq Stateful PROVE CacheInv'
<1>1. Partial(cache', Slots, Rules \cup {NoRule}) /\ DOMAIN cache' = {}
  BY NothingFact
<1> QED
  BY <1>1, FS_EmptySet, RuleAssumption DEF CacheInv

LEMMA MaskStep ==
  ASSUME MaskInv, [Next]_vars
  PROVE  MaskInv'
<1> USE DEF MaskInv
<1> SUFFICES rules' \in Seq(Rules) /\ CacheInv' /\ CopiesInv' /\ StackInv'
  BY DEF DataInv, CacheInv, CopiesInv
<1>0. rules \in Seq(Rules) /\ CacheInv /\ CopiesInv /\ moved \subseteq Stateful
  BY DataParts DEF CacheInv
<1>1. ASSUME NEW r \in Rules, AddRule(r)
      PROVE  rules' \in Seq(Rules) /\ CacheInv' /\ CopiesInv' /\ StackInv'
  <2>1. StackInv' /\ CopiesInv'
    BY <1>1, IdleKeeps DEF AddRule
  <2>2. rules' \in Seq(Rules)
    BY <1>0, <1>1 DEF AddRule
  <2>3. CASE r \in Unsafe
    BY <1>0, <1>1, <2>1, <2>2, <2>3 DEF AddRule, CacheInv, Partial
  <2>4. CASE r \notin Unsafe
    <3>1. cache' = Nothing /\ moved' \subseteq Stateful
      BY <1>0, <1>1, <2>4 DEF AddRule
    <3>2. CacheInv'
      BY <3>1, EmptyCacheNext
    <3> QED
      BY <2>1, <2>2, <3>2
  <2> QED
    BY <2>3, <2>4
<1>2. ASSUME Shutdown
      PROVE  rules' \in Seq(Rules) /\ CacheInv' /\ CopiesInv' /\ StackInv'
  <2>1. StackInv' /\ CopiesInv'
    BY <1>2, IdleKeeps DEF Shutdown
  <2>2. rules' \in Seq(Rules) /\ cache' = Nothing /\ moved' \subseteq Stateful
    BY <1>0, <1>2 DEF Shutdown
  <2> QED
    BY <2>1, <2>2, EmptyCacheNext
<1>3. ASSUME Process
      PROVE  rules' \in Seq(Rules) /\ CacheInv' /\ CopiesInv' /\ StackInv'
  <2>1. StackInv'
    BY <1>3, ProcessStack
  <2>2. rules' = rules /\ cache' = cache /\ moved' = moved /\ copies' = Nothing
    BY <1>3 DEF Process
  <2>3. CopiesInv'
    BY <2>2, NothingFact DEF CopiesInv
  <2> QED
    BY <1>0, <2>1, <2>2, <2>3 DEF CacheInv, Partial
<1>4. ASSUME NEW s \in Slots, Visit(s)
      PROVE  rules' \in Seq(Rules) /\ CacheInv' /\ CopiesInv' /\ StackInv'
  <2> DEFINE v == heap[Top.node][s]  r == RuleFor(Top.node, s)
             w == IF v = Text THEN Masked(r) ELSE Redacted
  <2>1. /\ ~Idle /\ s \in Top.todo /\ v \in Value
        /\ UNCHANGED <<rules, heap, copies, result>>
        /\ \/ memo' = memo /\ PutTop(s, w) /\ w \in Value
           \/ /\ v.of \in Nodes /\ v.of \notin DOMAIN memo
              /\ Enter(v.of, Append(Below, [Top EXCEPT !.slot = s]))
           \/ memo' = memo /\ memo[v.of] \in Value /\ PutTop(s, memo[v.of])
           \/ memo' = memo /\ PutTop(s, v)
    BY <1>4, VisitCases
  <2>2. CacheInv'
    BY <1>4, ConsultKeeps DEF Visit
  <2> HIDE DEF v, r, w
  <2>3. StackInv' /\ DOMAIN memo \subseteq DOMAIN memo'
    <3>1. CASE memo' = memo /\ PutTop(s, w) /\ w \in Value
      BY <2>1, <3>1, PutStack
    <3>2. CASE /\ v.of \in Nodes /\ v.of \notin DOMAIN memo
               /\ Enter(v.of, Append(Below, [Top EXCEPT !.slot = s]))
      BY <2>1, <3>2, EnterStack
    <3>3. CASE memo' = memo /\ memo[v.of] \in Value /\ PutTop(s, memo[v.of])
      BY <2>1, <3>3, PutStack
    <3>4. CASE memo' = memo /\ PutTop(s, v)
      BY <2>1, <3>4, PutStack
    <3> QED
      BY <2>1, <3>1, <3>2, <3>3, <3>4
  <2>4. CopiesInv'
    BY <1>0, <2>1, <2>3 DEF CopiesInv
  <2> QED
    BY <1>0, <2>1, <2>2, <2>3, <2>4
<1>5. ASSUME NEW s \in Slots, Throw(s)
      PROVE  rules' \in Seq(Rules) /\ CacheInv' /\ CopiesInv' /\ StackInv'
  <2>1. CacheInv'
    BY <1>5, ConsultKeeps DEF Throw
  <2>2. /\ stack' = <<>> /\ memo' = Nothing /\ copies' = Nothing /\ result' = "failed"
        /\ heap' = heap /\ rules' = rules
    BY <1>5 DEF Throw
  <2>3. StackInv'
    BY <2>2, NothingFact, NoStack
  <2>4. CopiesInv'
    BY <2>2, NothingFact DEF CopiesInv
  <2> QED
    BY <1>0, <2>1, <2>2, <2>3, <2>4
<1>6. ASSUME Return
      PROVE  rules' \in Seq(Rules) /\ CacheInv' /\ CopiesInv' /\ StackInv'
  <2>1. StackInv' /\ DOMAIN memo' = DOMAIN memo /\ Top.node \in DOMAIN memo
    BY <1>6, ReturnStack
  <2>2. rules' = rules /\ cache' = cache /\ moved' = moved /\ heap' = heap /\ ~Idle
    BY <1>6 DEF Return
  <2>3. Top \in Frames /\ DOMAIN Top.out = DOMAIN heap[Top.node]
    BY <2>2, TopFact
  <2>4. Top.out \in Contents
    BY <2>3 DEF Frames
  <2>5. copies' = copies \/ copies' = With(copies, Top.node, Top.out)
    BY <1>6 DEF Return, Settle
  <2>6. CASE copies' = copies
    BY <1>0, <2>1, <2>2, <2>6 DEF CopiesInv, CacheInv, Partial
  <2>7. CASE copies' = With(copies, Top.node, Top.out)
    <3>1. DOMAIN copies' = DOMAIN copies \cup {Top.node}
      BY <2>7 DEF With
    <3>2. ASSUME NEW n \in DOMAIN copies'
          PROVE  copies'[n] = IF n = Top.node THEN Top.out ELSE copies[n]
      BY <2>7, <3>1 DEF With
    <3>3. CopiesInv'
      BY <1>0, <2>1, <2>2, <2>3, <2>4, <3>1, <3>2 DEF CopiesInv
    <3> QED
      BY <1>0, <2>1, <2>2, <3>3 DEF CacheInv, Partial
  <2> QED
    BY <2>5, <2>6, <2>7
<1>7. CASE UNCHANGED vars
  <2>1. StackInv'
    BY <1>7 DEF vars, StackInv, OnStack, NoEndlessDescent, Partial
  <2> QED
    BY <1>0, <1>7, <2>1 DEF vars, CacheInv, CopiesInv, Partial
<1> QED
  BY <1>1, <1>2, <1>3, <1>4, <1>5, <1>6, <1>7 DEF Next

(* The stack, the memo, the rules, the cache and the copies keep their      *)
(* shape (src/masking/MaskingEngine.ts:319-437).                            *)
LEMMA MaskCorrect == Spec => []MaskInv
BY MaskInit, MaskStep, PTL DEF Spec

(* Type correctness, with the bound of the cache                            *)
(* (src/masking/MaskingEngine.ts:417).                                      *)
THEOREM TypeCorrect == Spec => []TypeOK
<1>1. ASSUME MaskInv PROVE TypeOK
  <2>1. rules \in Seq(Rules) /\ CacheInv /\ CopiesInv /\ StackInv
    BY <1>1, DataParts DEF MaskInv
  <2>2. ASSUME NEW T \in SUBSET Slots, NEW f \in [T -> Value] PROVE Partial(f, Slots, Value)
    <3> HIDE DEF Value
    <3> QED
      BY DEF Partial
  <2>3. \A f \in Contents : Partial(f, Slots, Value)
    BY <2>2 DEF Contents
  <2>4. ASSUME NEW i \in DOMAIN stack
        PROVE  LET f == stack[i] IN
                 /\ f.node \in Nodes /\ f.slot \in Slots \cup {NoRule}
                 /\ f.todo \subseteq DOMAIN heap[f.node]
                 /\ DOMAIN f.out = DOMAIN heap[f.node] /\ Partial(f.out, Slots, Value)
    <3>1. stack[i] \in Frames
      BY <2>1 DEF StackInv
    <3>2. stack[i].node \in Nodes /\ stack[i].slot \in Slots \cup {NoRule} /\ stack[i].out \in Contents
      BY <3>1 DEF Frames
    <3> QED
      BY <2>1, <2>3, <3>2 DEF StackInv
  <2>5. \A n \in DOMAIN copies : DOMAIN copies[n] = DOMAIN heap[n] /\ Partial(copies[n], Slots, Value)
    BY <2>1, <2>3 DEF CopiesInv
  <2> QED
    BY <2>1, <2>4, <2>5 DEF TypeOK, CacheInv, CopiesInv, StackInv
<1> QED
  BY <1>1, MaskCorrect, PTL

(* applyMaskingRules() never enters an object it is inside of, whatever     *)
(* cycles the entry has (src/masking/MaskingEngine.ts:346).                 *)
THEOREM NoEndlessDescentHolds == Spec => []NoEndlessDescent
<1>1. MaskInv => NoEndlessDescent
  BY DEF MaskInv, StackInv
<1> QED
  BY <1>1, MaskCorrect, PTL

-----------------------------------------------------------------------------
(* The masked entry.  A slot that is done holds what is promised, and       *)
(* refers only to objects that are settled; those stay what they are.       *)

Ranks(rank) ==
  \A n \in Nodes : \A s \in DOMAIN heap[n] :
    heap[n][s].is = "ref" => rank[heap[n][s].of] < rank[n]

GoodSlot(n, s, x) ==
  /\ x = MaskedSlot(n, s)
  /\ Due(n, s) = NoRule /\ heap[n][s].is = "ref" => heap[n][s].of \in DOMAIN memo \ OnStack

Settled(n) ==
  /\ memo[n] \in {Ref(n), Copy(n)}
  /\ memo[n] = Copy(n) => n \in DOMAIN copies
  /\ DOMAIN Shown(n) = DOMAIN heap[n]
  /\ \A s \in DOMAIN heap[n] : GoodSlot(n, s, Shown(n)[s])

(* A call waits at the slot whose object the next one is for.               *)
Call(i) ==
  /\ stack[i].slot \in stack[i].todo
  /\ heap[stack[i].node][stack[i].slot] = Ref(stack[i + 1].node)
  /\ Due(stack[i].node, stack[i].slot) = NoRule

CallInv == \A i \in 1..Len(stack) - 1 : Call(i)

(* Down the stack of an entry without cycles the rank falls.                *)
DescentInv ==
  \A rank \in [Nodes -> Int] :
    Ranks(rank) => \A i, j \in DOMAIN stack :
                     i < j => rank[stack[j].node] < rank[stack[i].node]

DoneInv ==
  \A i \in DOMAIN stack : \A s \in DOMAIN heap[stack[i].node] \ stack[i].todo :
    GoodSlot(stack[i].node, s, stack[i].out[s])

SettledInv == \A n \in DOMAIN memo \ OnStack : Settled(n)

WalkInv ==
  /\ CallInv /\ DescentInv
  /\ Acyclic(heap) => DoneInv /\ SettledInv
  /\ result = "masked" => Root \in DOMAIN memo

(* What a step leaves alone.                                                *)
Kept ==
  /\ rules' = rules /\ heap' = heap
  /\ \A m \in DOMAIN memo \ OnStack :
       m \in DOMAIN memo' \ OnStack' /\ memo'[m] = memo[m]

LEMMA DueStays == ASSUME rules' = rules, NEW n, NEW s PROVE Due(n, s)' = Due(n, s)
BY DEF Due, FirstMatch, FirstIn

LEMMA SlotStays ==
  ASSUME Kept, NEW n, NEW s, NEW x, GoodSlot(n, s, x)
  PROVE  GoodSlot(n, s, x)'
<1>1. Due(n, s)' = Due(n, s) /\ heap' = heap
  BY DueStays DEF Kept
<1>2. MaskedSlot(n, s)' = MaskedSlot(n, s)
  BY <1>1 DEF MaskedSlot, MaskMatchedValue, GoodSlot, Kept
<1> QED
  BY <1>1, <1>2 DEF GoodSlot, Kept

LEMMA SettledStays ==
  ASSUME Kept, NEW n \in DOMAIN memo \ OnStack, Settled(n),
         n \in DOMAIN copies => n \in DOMAIN copies' /\ copies'[n] = copies[n]
  PROVE  Settled(n)'
<1>1. memo'[n] = memo[n] /\ heap' = heap
  BY DEF Kept
<1>2. Shown(n)' = Shown(n)
  BY <1>1 DEF Shown, Settled
<1>3. ASSUME NEW s \in DOMAIN heap[n] PROVE GoodSlot(n, s, Shown(n)[s])'
  <2> DEFINE x == Shown(n)[s]
  <2>1. GoodSlot(n, s, x)
    BY DEF Settled
  <2>2. PICK y : y = x
    OBVIOUS
  <2>3. GoodSlot(n, s, y)
    BY <2>1, <2>2
  <2>4. GoodSlot(n, s, y)'
    BY <2>3, SlotStays
  <2>5. Shown(n)'[s] = y
    BY <1>2, <2>2
  <2> QED
    BY <2>4, <2>5 DEF GoodSlot
<1> QED
  BY <1>1, <1>2, <1>3 DEF Settled

(* The same for what a call has done so far.                                *)
LEMMA DoneStays ==
  ASSUME Kept, DoneInv, NEW i \in DOMAIN stack,
         stack'[i].node = stack[i].node,
         NEW s \in DOMAIN heap[stack[i].node] \ stack[i].todo,
         stack'[i].out[s] = stack[i].out[s]
  PROVE  GoodSlot(stack[i].node, s, stack[i].out[s])'
<1>1. PICK n : n = stack[i].node
  OBVIOUS
<1>2. PICK x : x = stack[i].out[s]
  OBVIOUS
<1>3. GoodSlot(n, s, x)
  BY <1>1, <1>2 DEF DoneInv
<1>4. GoodSlot(n, s, x)'
  BY <1>3, SlotStays
<1> QED
  BY <1>1, <1>2, <1>4

LEMMA CallStays ==
  ASSUME Kept, NEW i, Call(i), stack'[i] = stack[i], stack'[i + 1].node = stack[i + 1].node
  PROVE  Call(i)'
<1>1. PICK n, t : n = stack[i].node /\ t = stack[i].slot
  OBVIOUS
<1>2. Due(n, t)' = Due(n, t) /\ heap' = heap
  BY DueStays DEF Kept
<1>3. Due(n, t) = NoRule /\ t \in stack[i].todo /\ heap[n][t] = Ref(stack[i + 1].node)
  BY <1>1 DEF Call
<1>4. n = stack'[i].node /\ t = stack'[i].slot
  BY <1>1
<1>5. Due(n, t)' = NoRule /\ t \in stack'[i].todo /\ heap'[n][t] = Ref(stack'[i + 1].node)
  BY <1>2, <1>3
<1> QED
  BY <1>4, <1>5 DEF Call, Ref

LEMMA PutWalk ==
  ASSUME MaskInv, WalkInv, ~Idle, NEW s \in Top.todo, NEW v \in Value, PutTop(s, v),
         UNCHANGED <<rules, heap, memo, copies, result>>,
         Acyclic(heap) => GoodSlot(Top.node, s, v)
  PROVE  WalkInv'
<1>1. /\ stack' \in Seq(Frames) /\ stack' # <<>>
      /\ Len(stack') = Len(stack) /\ DOMAIN stack' = 1..Len(stack)
      /\ \A i \in 1..Len(stack) - 1 : stack'[i] = stack[i]
      /\ stack'[Len(stack)] = Put(Top, s, v)
      /\ \A i \in 1..Len(stack) : stack'[i].node = stack[i].node
  BY PutTopFact DEF MaskInv
<1>2. /\ Len(stack) \in Nat /\ Len(stack) > 0 /\ DOMAIN stack = 1..Len(stack) /\ Top \in Frames
      /\ DOMAIN Top.out = DOMAIN heap[Top.node] /\ Top.todo \subseteq DOMAIN heap[Top.node]
  BY TopFact DEF MaskInv
<1>3. OnStack' = OnStack
  BY PutStack DEF MaskInv
<1>4. Kept
  BY <1>3 DEF Kept
<1>5. CallInv'
  <2>1. ASSUME NEW i \in 1..Len(stack) - 1 PROVE Call(i)'
    <3>1. stack'[i] = stack[i] /\ i + 1 \in 1..Len(stack) /\ Call(i)
      BY <1>1, <1>2 DEF WalkInv, CallInv
    <3>2. stack'[i + 1].node = stack[i + 1].node
      BY <1>1, <3>1
    <3> QED
      BY <1>4, <3>1, <3>2, CallStays
  <2> QED
    BY <1>1, <2>1 DEF CallInv
<1>6. DescentInv'
  BY <1>1, <1>2 DEF WalkInv, DescentInv, Ranks
<1>7. ASSUME Acyclic(heap) PROVE DoneInv'
  <2> SUFFICES ASSUME NEW i \in 1..Len(stack),
                      NEW t \in DOMAIN heap[stack[i].node] \ stack'[i].todo
               PROVE  GoodSlot(stack[i].node, t, stack[i].out[t])'
    BY <1>1 DEF DoneInv
  <2>1. DoneInv
    BY <1>7 DEF WalkInv
  <2>2. CASE i \in 1..Len(stack) - 1
    BY <2>1, <2>2, <1>1, <1>2, <1>4, DoneStays
  <2>3. CASE i = Len(stack)
    <3>1. stack'[i].todo = Top.todo \ {s} /\ stack'[i].out = [Top.out EXCEPT ![s] = v]
      BY <2>3, <1>1, <1>2, PutShape, PutOut
    <3>2. CASE t = s
      <4>1. PICK n : n = Top.node
        OBVIOUS
      <4>2. GoodSlot(n, s, v)'
        BY <1>4, <1>7, <4>1, SlotStays
      <4>3. stack'[i].out[t] = v /\ stack'[i].node = n
        BY <2>3, <3>1, <3>2, <4>1, <1>1, <1>2 DEF Top
      <4> QED
        BY <3>2, <4>2, <4>3
    <3>3. CASE t # s
      <4>1. stack'[i].out[t] = stack[i].out[t] /\ t \notin stack[i].todo
        BY <2>3, <3>1, <3>3, <1>2 DEF Top
      <4> QED
        BY <2>1, <4>1, <1>1, <1>2, <1>4, DoneStays
    <3> QED
      BY <3>2, <3>3
  <2> QED
    BY <1>2, <2>2, <2>3, UpTo
<1>8. ASSUME Acyclic(heap) PROVE SettledInv'
  BY <1>3, <1>4, <1>8, SettledStays DEF WalkInv, SettledInv
<1> QED
  BY <1>5, <1>6, <1>7, <1>8 DEF WalkInv

LEMMA EnterWalk ==
  ASSUME MaskInv, WalkInv, ~Idle, NEW s \in Top.todo, NEW n \in Nodes, n \notin DOMAIN memo,
         Enter(n, Append(Below, [Top EXCEPT !.slot = s])),
         UNCHANGED <<rules, heap, copies, result>>,
         s \in DOMAIN heap[Top.node], heap[Top.node][s] = Ref(n), Due(Top.node, s) = NoRule
  PROVE  WalkInv'
<1>1. /\ stack' \in Seq(Frames) /\ stack' # <<>>
      /\ Len(stack') = Len(stack) + 1 /\ DOMAIN stack' = 1..Len(stack) + 1
      /\ \A i \in 1..Len(stack) - 1 : stack'[i] = stack[i]
      /\ stack'[Len(stack)] = [Top EXCEPT !.slot = s]
      /\ stack'[Len(stack) + 1] = Frame(n)
      /\ \A i \in 1..Len(stack) : stack'[i].node = stack[i].node
  BY EnterFact DEF MaskInv
<1>2. /\ Len(stack) \in Nat /\ Len(stack) > 0 /\ DOMAIN stack = 1..Len(stack) /\ Top \in Frames
      /\ Top.node \in Nodes
  BY TopFact DEF MaskInv
<1>3. /\ OnStack' = OnStack \cup {n} /\ DOMAIN memo' = DOMAIN memo \cup {n}
      /\ \A m \in DOMAIN memo : memo'[m] = memo[m]
  BY EnterStack DEF MaskInv
<1>4. Kept
  BY <1>3 DEF Kept
<1>5. Frame(n).node = n /\ Frame(n).todo = DOMAIN heap[n]
  BY FrameIsTyped DEF MaskInv, StackInv
<1>6. LET caller == stack'[Len(stack)]
      IN  caller.node = Top.node /\ caller.todo = Top.todo /\ caller.slot = s /\ caller.out = Top.out
  BY <1>1, <1>2 DEF Frames
<1>7. CallInv'
  <2>1. ASSUME NEW i \in 1..Len(stack) - 1 PROVE Call(i)'
    <3>1. stack'[i] = stack[i] /\ i + 1 \in 1..Len(stack) /\ Call(i)
      BY <1>1, <1>2 DEF WalkInv, CallInv
    <3>2. stack'[i + 1].node = stack[i + 1].node
      BY <1>1, <3>1
    <3> QED
      BY <1>4, <3>1, <3>2, CallStays
  <2>2. ASSUME NEW i, i = Len(stack) PROVE Call(i)'
    <3>1. PICK m : m = Top.node
      OBVIOUS
    <3>2. Due(m, s)' = NoRule
      BY <3>1, DueStays
    <3>3. stack'[i].node = m /\ stack'[i].slot = s /\ stack'[i].todo = Top.todo
          /\ stack'[i + 1].node = n /\ heap'[m][s] = Ref(n)
      BY <1>1, <1>5, <1>6, <2>2, <3>1
    <3> QED
      BY <3>2, <3>3 DEF Call, Ref
  <2>3. Len(stack') - 1 = Len(stack)
    BY <1>1, <1>2
  <2>4. ASSUME NEW i \in 1..Len(stack) PROVE Call(i)'
    BY <1>2, <2>1, <2>2, UpTo
  <2> QED
    BY <2>3, <2>4 DEF CallInv
<1>8. DescentInv'
  <2> SUFFICES ASSUME NEW rank \in [Nodes -> Int], Ranks(rank),
                      NEW i \in 1..Len(stack) + 1, NEW j \in 1..Len(stack) + 1, i < j
               PROVE  rank[stack'[j].node] < rank[stack'[i].node]
    BY <1>1 DEF DescentInv, Ranks
  <2>1. rank[n] < rank[Top.node]
    BY <1>2 DEF Ranks, Ref
  <2>2. CASE j \in 1..Len(stack)
    <3>1. i \in 1..Len(stack)
      BY <1>2, <2>2
    <3> QED
      BY <2>2, <3>1, <1>1, <1>2 DEF WalkInv, DescentInv
  <2>3. CASE j = Len(stack) + 1 /\ i = Len(stack)
    BY <2>1, <2>3, <1>1, <1>5, <1>6
  <2>4. CASE j = Len(stack) + 1 /\ i \in 1..Len(stack) - 1
    <3>1. i \in DOMAIN stack /\ Len(stack) \in DOMAIN stack /\ i < Len(stack)
      BY <1>2, <2>4
    <3>2. rank[Top.node] < rank[stack[i].node]
      BY <3>1 DEF WalkInv, DescentInv, Top
    <3>3. stack[i].node \in Nodes
      <4>1. stack[i] \in Frames
        BY <3>1 DEF MaskInv, StackInv
      <4> QED
        BY <4>1 DEF Frames
    <3>4. rank[n] \in Int /\ rank[Top.node] \in Int /\ rank[stack[i].node] \in Int
      BY <1>2, <3>3
    <3>5. rank[n] < rank[stack[i].node]
      BY <2>1, <3>2, <3>4
    <3> QED
      BY <2>4, <3>5, <1>1, <1>5
  <2> QED
    BY <1>2, <2>2, <2>3, <2>4, PairUpTo
<1>9. ASSUME Acyclic(heap) PROVE DoneInv'
  <2> SUFFICES ASSUME NEW i \in 1..Len(stack) + 1,
                      NEW t \in DOMAIN heap[stack'[i].node] \ stack'[i].todo
               PROVE  GoodSlot(stack[i].node, t, stack[i].out[t])'
    BY <1>1 DEF DoneInv
  <2>1. DoneInv
    BY <1>9 DEF WalkInv
  <2>2. CASE i \in 1..Len(stack) - 1
    BY <2>1, <2>2, <1>1, <1>2, <1>4, DoneStays
  <2>3. CASE i = Len(stack)
    <3>1. stack[i] = Top /\ stack'[i].todo = stack[i].todo /\ stack'[i].out = stack[i].out
          /\ stack'[i].node = stack[i].node
      BY <2>3, <1>6 DEF Top
    <3> QED
      BY <2>1, <2>3, <3>1, <1>2, <1>4, DoneStays
  <2>4. CASE i = Len(stack) + 1
    BY <2>4, <1>1, <1>5
  <2> QED
    BY <1>2, <2>2, <2>3, <2>4, UpTo
<1>10. ASSUME Acyclic(heap) PROVE SettledInv'
  <2>1. DOMAIN memo' \ OnStack' = (DOMAIN memo \ OnStack)
    BY <1>3
  <2>2. SettledInv
    BY <1>10 DEF WalkInv
  <2> QED
    BY <1>4, <2>1, <2>2, SettledStays DEF SettledInv
<1> QED
  BY <1>3, <1>7, <1>8, <1>9, <1>10 DEF WalkInv

LEMMA ReturnWalk ==
  ASSUME MaskInv, WalkInv, Return
  PROVE  WalkInv'
<1>1. PICK n : n = Top.node
  OBVIOUS
<1>2. /\ OnStack' = OnStack \ {n} /\ n \in Nodes /\ n \in DOMAIN memo /\ DOMAIN memo' = DOMAIN memo
      /\ memo'[n] = IF Top.out = heap[n] THEN Ref(n) ELSE Copy(n)
      /\ \A m \in DOMAIN memo : m # n => memo'[m] = memo[m]
  BY <1>1, ReturnStack DEF MaskInv
<1>3. ~Idle /\ Top.todo = {} /\ rules' = rules /\ heap' = heap
  BY DEF Return
<1>4. /\ Len(stack) \in Nat /\ Len(stack) > 0 /\ DOMAIN stack = 1..Len(stack) /\ Top \in Frames
      /\ DOMAIN Top.out = DOMAIN heap[n] /\ n \in OnStack /\ (Below = <<>> <=> Len(stack) = 1)
  BY <1>1, <1>3, TopFact DEF MaskInv, OnStack, Top
<1>5. Kept
  BY <1>2, <1>3, <1>4 DEF Kept
<1>6. copies' = IF Top.out = heap[n] THEN copies ELSE With(copies, n, Top.out)
  BY <1>1 DEF Return, Settle
<1>7. ASSUME Acyclic(heap) PROVE SettledInv'
  <2>1. DoneInv /\ SettledInv
    BY <1>7 DEF WalkInv
  <2>2. Settled(n)'
    <3>1. PICK out : out = Top.out
      OBVIOUS
    <3>2. ASSUME NEW s \in DOMAIN heap[n] PROVE GoodSlot(n, s, out[s])'
      <4>1. Len(stack) \in DOMAIN stack /\ stack[Len(stack)] = Top
        BY <1>4 DEF Top
      <4>2. GoodSlot(n, s, out[s])
        BY <1>1, <1>3, <2>1, <3>1, <4>1 DEF DoneInv
      <4>3. PICK x : x = out[s]
        OBVIOUS
      <4> QED
        BY <1>5, <4>2, <4>3, SlotStays
    <3>3. Ref(n) # Copy(n)
      BY DEF Ref, Copy
    <3>4. Shown(n)' = out /\ (memo'[n] = Copy(n) => n \in DOMAIN copies')
      <4>1. CASE out = heap[n]
        BY <1>2, <1>3, <3>1, <3>3, <4>1 DEF Shown, Ref, Copy
      <4>2. CASE out # heap[n]
        <5>1. memo'[n] = Copy(n) /\ copies' = With(copies, n, out)
          BY <1>2, <1>6, <3>1, <4>2
        <5>2. n \in DOMAIN copies' /\ copies'[n] = out
          BY <5>1 DEF With
        <5> QED
          BY <5>1, <5>2 DEF Shown, Copy
      <4> QED
        BY <4>1, <4>2
    <3>5. memo'[n] \in {Ref(n), Copy(n)}
      BY <1>2
    <3>6. DOMAIN out = DOMAIN heap'[n]
      BY <1>3, <1>4, <3>1
    <3>7. ASSUME NEW s \in DOMAIN heap'[n] PROVE GoodSlot(n, s, Shown(n)[s])'
      BY <1>3, <3>2, <3>4
    <3> QED
      BY <3>4, <3>5, <3>6, <3>7 DEF Settled, Ref, Copy
  <2>3. ASSUME NEW m \in DOMAIN memo \ OnStack PROVE Settled(m)'
    <3>1. m \in DOMAIN copies => m \in DOMAIN copies' /\ copies'[m] = copies[m]
      BY <1>4, <1>6 DEF With
    <3>2. Settled(m)
      BY <2>1 DEF SettledInv
    <3> QED
      BY <1>5, <3>1, <3>2, SettledStays
  <2>4. ASSUME NEW m \in DOMAIN memo' \ OnStack' PROVE m = n \/ m \in DOMAIN memo \ OnStack
    BY <1>2
  <2> QED
    BY <2>2, <2>3, <2>4 DEF SettledInv
<1>8. CASE Below = <<>>
  <2>1. stack' = <<>>
    BY <1>8 DEF Return
  <2>2. CallInv' /\ DescentInv' /\ DoneInv'
    BY <2>1 DEF CallInv, DescentInv, DoneInv
  <2>3. n = Root
    BY <1>1, <1>3, <1>4, <1>8 DEF Top, MaskInv, StackInv, Idle
  <2> QED
    BY <1>2, <1>3, <1>7, <2>2, <2>3 DEF WalkInv
<1>9. CASE Below # <<>>
  <2>0. PICK d : d = Len(stack) - 1
    OBVIOUS
  <2>1. memo'[n] \in Value
    BY <1>2, RefIsValue
  <2>2. /\ stack' \in Seq(Frames) /\ d \in Nat /\ d > 0 /\ DOMAIN stack' = 1..d
        /\ \A i \in 1..d - 1 : stack'[i] = stack[i]
        /\ stack'[d] = Put(stack[d], stack[d].slot, memo'[n])
        /\ stack[d] \in Frames
        /\ \A i \in 1..d : stack'[i].node = stack[i].node
        /\ result' = result /\ stack' # <<>> /\ Len(stack') = d
    <3>1. memo'[Top.node] \in Value
      BY <1>1, <2>1
    <3> QED
      BY <1>1, <1>3, <1>9, <2>0, <3>1, ReturnFact DEF MaskInv
  <2>3. \A i \in 1..d : i \in DOMAIN stack
    BY <1>4, <2>0, <2>2
  <2>4. CallInv'
    <3>1. ASSUME NEW i \in 1..d - 1 PROVE Call(i)'
      <4>1. stack'[i] = stack[i] /\ i + 1 \in 1..d /\ i \in 1..Len(stack) - 1
        BY <2>0, <2>2
      <4>2. stack'[i + 1].node = stack[i + 1].node /\ Call(i)
        BY <2>2, <4>1 DEF WalkInv, CallInv
      <4> QED
        BY <1>5, <4>1, <4>2, CallStays
    <3> QED
      BY <2>2, <3>1 DEF CallInv
  <2>5. DescentInv'
    BY <1>3, <2>2, <2>3 DEF WalkInv, DescentInv, Ranks
  <2>6. ASSUME Acyclic(heap) PROVE DoneInv'
    <3> SUFFICES ASSUME NEW i \in 1..d,
                        NEW t \in DOMAIN heap[stack[i].node] \ stack'[i].todo
                 PROVE  GoodSlot(stack[i].node, t, stack[i].out[t])'
      BY <1>3, <2>2 DEF DoneInv
    <3>1. DoneInv /\ SettledInv'
      BY <1>7, <2>6 DEF WalkInv
    <3>2. CASE i \in 1..d - 1
      BY <1>5, <2>2, <2>3, <3>1, <3>2, DoneStays
    <3>3. CASE i = d
      <4>1. PICK s, m : s = stack[d].slot /\ m = stack[d].node
        OBVIOUS
      <4>2. Call(d)
        BY <2>0, <2>2 DEF WalkInv, CallInv
      <4>3. /\ s \in stack[d].todo /\ heap[m][s] = Ref(n) /\ Due(m, s) = NoRule
        <5>1. stack[d + 1].node = n
          BY <1>1, <1>4, <2>0 DEF Top
        <5> QED
          BY <4>1, <4>2, <5>1 DEF Call
      <4>4. /\ stack'[d].todo = stack[d].todo \ {s}
            /\ t \in DOMAIN stack[d].out => stack'[d].out[t] = IF t = s THEN memo'[n] ELSE stack[d].out[t]
        <5>1. PICK c, z : c = stack[d] /\ z = memo'[n]
          OBVIOUS
        <5>2. c \in Frames
          BY <2>2, <5>1
        <5>3. Put(c, s, z).todo = c.todo \ {s}
          BY <5>2, PutShape
        <5>4. t \in DOMAIN c.out => Put(c, s, z).out[t] = IF t = s THEN z ELSE c.out[t]
          BY <5>2, PutAt
        <5> QED
          BY <2>2, <4>1, <5>1, <5>3, <5>4
      <4>5. s \in DOMAIN stack[d].out
        BY <2>2, <2>3, <4>3 DEF MaskInv, StackInv
      <4>6. CASE t = s
        <5>1. stack'[i].out[t] = memo'[n] /\ stack'[i].node = m
          BY <2>2, <3>3, <4>1, <4>4, <4>5, <4>6
        <5>2. Due(m, s)' = NoRule /\ heap'[m][s] = Ref(n)
          BY <1>3, <4>3, DueStays
        <5>3. heap'[m][s].is = "ref" /\ heap'[m][s].of = n
          BY <5>2 DEF Ref
        <5>4. n \in DOMAIN memo' \ OnStack'
          BY <1>2
        <5>5. PICK x : x = memo'[n]
          OBVIOUS
        <5>6. GoodSlot(m, s, x)'
          BY <5>2, <5>3, <5>4, <5>5 DEF GoodSlot, MaskedSlot
        <5> QED
          BY <4>6, <5>1, <5>5, <5>6
      <4>7. CASE t # s
        <5>0. t \in DOMAIN stack[d].out
          BY <2>2, <2>3, <3>3 DEF MaskInv, StackInv
        <5>1. stack'[i].out[t] = stack[i].out[t] /\ t \notin stack[i].todo
          BY <3>3, <4>4, <4>7, <5>0
        <5> QED
          BY <1>5, <2>2, <2>3, <3>1, <3>3, <5>1, DoneStays
      <4> QED
        BY <4>6, <4>7
    <3> QED
      BY <2>2, <3>2, <3>3, UpTo
  <2>7. result' # "masked"
    BY <1>3, <2>2 DEF MaskInv, StackInv, Idle
  <2> QED
    BY <1>3, <1>7, <2>4, <2>5, <2>6, <2>7 DEF WalkInv
<1> QED
  BY <1>8, <1>9

-----------------------------------------------------------------------------
(* The decisions, where no pattern keeps a position between its tests.      *)

NoState == Stateful = {}

LEMMA NeverMoved == ASSUME NoState, DataInv PROVE moved = {}
BY DEF NoState, DataInv

LEMMA ScanIsFirstMatch ==
  ASSUME moved = {}, NEW k
  PROVE  ScanRules(k) = FirstMatch(k)
BY DEF ScanRules, FirstMatch, FirstIn, Test

LEMMA RuleIsDue ==
  ASSUME NoState, DataInv, CacheCoherent, NEW n, NEW s
  PROVE  RuleFor(n, s) = Due(n, s)
<1>1. ScanRules(s) = FirstMatch(s)
  BY NeverMoved, ScanIsFirstMatch
<1>2. s \in DOMAIN cache => cache[s] = FirstMatch(s)
  BY DEF CacheCoherent
<1> QED
  BY <1>1, <1>2 DEF RuleFor, FindMatchingRule, Due

LEMMA FirstMatchStays ==
  ASSUME rules' = rules, NEW k
  PROVE  FirstMatch(k)' = FirstMatch(k)
BY DEF FirstMatch, FirstIn

LEMMA ConsultCoherent ==
  ASSUME NoState, DataInv, CacheCoherent, NEW n, NEW s, Consult(n, s), rules' = rules
  PROVE  CacheCoherent'
<1>1. ASSUME NEW k \in DOMAIN cache', k \in DOMAIN cache => cache'[k] = cache[k],
             k \notin DOMAIN cache => k = s /\ cache'[k] = ScanRules(s)
      PROVE  (cache[k] = FirstMatch(k))'
  <2>1. ScanRules(s) = FirstMatch(s)
    BY NeverMoved, ScanIsFirstMatch
  <2>2. cache'[k] = FirstMatch(k)
    BY <1>1, <2>1 DEF CacheCoherent
  <2> QED
    BY <2>2, FirstMatchStays
<1>2. cache' = cache \/ (s \notin DOMAIN cache /\ cache' = With(cache, s, ScanRules(s)))
  BY DEF Consult, Decide
<1>3. ASSUME NEW k \in DOMAIN cache'
      PROVE  /\ k \in DOMAIN cache => cache'[k] = cache[k]
             /\ k \notin DOMAIN cache => k = s /\ cache'[k] = ScanRules(s)
  <2>1. CASE cache' = cache
    BY <2>1
  <2>2. CASE s \notin DOMAIN cache /\ cache' = With(cache, s, ScanRules(s))
    <3>1. DOMAIN cache' = DOMAIN cache \cup {s}
          /\ \A y \in DOMAIN cache \cup {s} : cache'[y] = IF y = s THEN ScanRules(s) ELSE cache[y]
      BY <2>2 DEF With
    <3> QED
      BY <2>2, <3>1
  <2> QED
    BY <1>2, <2>1, <2>2
<1> QED
  BY <1>1, <1>3 DEF CacheCoherent

LEMMA CoherentStep ==
  ASSUME NoState, MaskInv, CacheCoherent, [Next]_vars
  PROVE  CacheCoherent'
<1> USE DEF MaskInv
<1>1. ASSUME cache' = Nothing PROVE CacheCoherent'
  BY <1>1, NothingFact DEF CacheCoherent
<1>2. ASSUME UNCHANGED <<rules, cache>> PROVE CacheCoherent'
  BY <1>2, FirstMatchStays DEF CacheCoherent
<1>3. ASSUME NEW r \in Rules, AddRule(r) PROVE CacheCoherent'
  BY <1>1, <1>2, <1>3 DEF AddRule
<1>4. ASSUME Shutdown PROVE CacheCoherent'
  BY <1>1, <1>4 DEF Shutdown
<1>5. ASSUME Process PROVE CacheCoherent'
  BY <1>2, <1>5 DEF Process
<1>6. ASSUME NEW s \in Slots, Visit(s) PROVE CacheCoherent'
  BY <1>6, ConsultCoherent DEF Visit
<1>7. ASSUME NEW s \in Slots, Throw(s) PROVE CacheCoherent'
  BY <1>7, ConsultCoherent DEF Throw
<1>8. ASSUME Return PROVE CacheCoherent'
  BY <1>2, <1>8 DEF Return
<1>9. CASE UNCHANGED vars
  BY <1>2, <1>9 DEF vars
<1> QED
  BY <1>3, <1>4, <1>5, <1>6, <1>7, <1>8, <1>9 DEF Next

LEMMA CoherentInit == ASSUME Init PROVE CacheCoherent
BY NothingFact DEF Init, CacheCoherent

(* The decision cache answers what a scan of the rules would, for any size  *)
(* of it and whenever rules are added                                       *)
(* (src/masking/MaskingEngine.ts:414).                                      *)
THEOREM CacheCoherentHolds ==
  ASSUME NoState
  PROVE  Spec => []CacheCoherent
<1>1. Init => MaskInv /\ CacheCoherent
  BY MaskInit, CoherentInit
<1>2. MaskInv /\ CacheCoherent /\ [Next]_vars => (MaskInv /\ CacheCoherent)'
  BY MaskStep, CoherentStep
<1> QED
  BY <1>1, <1>2, PTL DEF Spec

-----------------------------------------------------------------------------
(* Every step of the walk keeps its promise.                                *)

LEMMA VisitWalk ==
  ASSUME NoState, MaskInv, CacheCoherent, WalkInv, NEW s \in Slots, Visit(s)
  PROVE  WalkInv'
<1> DEFINE v == heap[Top.node][s]  r == RuleFor(Top.node, s)
           w == IF v = Text THEN Masked(r) ELSE Redacted
<1>1. /\ ~Idle /\ s \in Top.todo /\ s \in DOMAIN heap[Top.node] /\ v \in Value
      /\ UNCHANGED <<rules, heap, copies, result>>
      /\ \/ r # NoRule /\ memo' = memo /\ PutTop(s, w) /\ w \in Value
         \/ /\ r = NoRule /\ v.is = "ref" /\ v.of \in Nodes /\ v.of \notin DOMAIN memo
            /\ Enter(v.of, Append(Below, [Top EXCEPT !.slot = s]))
         \/ /\ r = NoRule /\ v.is = "ref" /\ v.of \in DOMAIN memo /\ memo' = memo
            /\ memo[v.of] \in Value /\ PutTop(s, memo[v.of])
         \/ r = NoRule /\ v.is # "ref" /\ memo' = memo /\ PutTop(s, v)
  BY VisitCases DEF MaskInv
<1>2. r = Due(Top.node, s)
  BY RuleIsDue DEF MaskInv
<1>3. Top.node \in Nodes /\ heap \in Heaps
  BY <1>1, TopFact DEF MaskInv, StackInv
<1>4. v.is = "ref" => v = Ref(v.of) /\ v.of \in Nodes
  BY <1>1, <1>3, HeapFact
<1> HIDE DEF w
<1>5. CASE r # NoRule /\ memo' = memo /\ PutTop(s, w) /\ w \in Value
  <2>1. GoodSlot(Top.node, s, w)
    BY <1>2, <1>5 DEF GoodSlot, MaskedSlot, MaskMatchedValue, w
  <2> QED
    BY <1>1, <1>5, <2>1, PutWalk
<1>6. CASE /\ r = NoRule /\ v.is = "ref" /\ v.of \in Nodes /\ v.of \notin DOMAIN memo
           /\ Enter(v.of, Append(Below, [Top EXCEPT !.slot = s]))
  BY <1>1, <1>2, <1>4, <1>6, EnterWalk
<1>7. CASE /\ r = NoRule /\ v.is = "ref" /\ v.of \in DOMAIN memo /\ memo' = memo
           /\ memo[v.of] \in Value /\ PutTop(s, memo[v.of])
  <2>1. ASSUME Acyclic(heap) PROVE v.of \notin OnStack
    <3>1. PICK rank \in [Nodes -> 0..Cardinality(Nodes)] : Ranks(rank)
      BY <2>1 DEF Acyclic, Ranks
    <3>2. rank \in [Nodes -> Int]
      BY <3>1
    <3>3. rank[v.of] < rank[Top.node]
      BY <1>1, <1>3, <1>7, <3>1 DEF Ranks
    <3>4. ASSUME NEW i \in DOMAIN stack PROVE stack[i].node # v.of
      <4>1. Len(stack) \in Nat /\ Len(stack) > 0 /\ DOMAIN stack = 1..Len(stack)
        BY <1>1, TopFact DEF MaskInv
      <4>2. CASE i = Len(stack)
        BY <1>3, <1>4, <1>7, <3>2, <3>3, <4>2 DEF Top
      <4>3. CASE i < Len(stack)
        <5>1. Len(stack) \in DOMAIN stack
          BY <4>1
        <5>2. rank[Top.node] < rank[stack[i].node]
          BY <3>1, <3>2, <4>3, <5>1 DEF WalkInv, DescentInv, Top
        <5>3. stack[i].node \in Nodes
          <6>1. stack[i] \in Frames
            BY DEF MaskInv, StackInv
          <6> QED
            BY <6>1 DEF Frames
        <5>4. rank[v.of] \in Int /\ rank[Top.node] \in Int /\ rank[stack[i].node] \in Int
          BY <1>3, <1>4, <1>7, <3>2, <5>3
        <5> QED
          BY <3>3, <5>2, <5>4
      <4> QED
        BY <4>1, <4>2, <4>3
    <3> QED
      BY <3>4 DEF OnStack
  <2>2. Acyclic(heap) => GoodSlot(Top.node, s, memo[v.of])
    BY <1>2, <1>7, <2>1 DEF GoodSlot, MaskedSlot
  <2> QED
    BY <1>1, <1>7, <2>2, PutWalk
<1>8. CASE r = NoRule /\ v.is # "ref" /\ memo' = memo /\ PutTop(s, v)
  <2>1. GoodSlot(Top.node, s, v)
    BY <1>2, <1>8 DEF GoodSlot, MaskedSlot
  <2> QED
    BY <1>1, <1>8, <2>1, PutWalk
<1> QED
  BY <1>1, <1>5, <1>6, <1>7, <1>8

(* Without a call in progress, only what is settled is left to show.        *)
LEMMA NoWalk ==
  ASSUME stack' = <<>>, OnStack' = {}, DOMAIN memo' = {}, result' # "masked"
  PROVE  WalkInv'
<1>1. CallInv' /\ DescentInv' /\ DoneInv'
  BY DEF CallInv, DescentInv, DoneInv
<1>2. SettledInv'
  BY DEF SettledInv
<1> QED
  BY <1>1, <1>2 DEF WalkInv

LEMMA WalkStep ==
  ASSUME NoState, MaskInv, CacheCoherent, WalkInv, [Next]_vars
  PROVE  WalkInv'
<1>1. ASSUME NEW r \in Rules, AddRule(r) PROVE WalkInv'
  <2>1. stack' = <<>> /\ memo' = Nothing /\ result' = "none" /\ OnStack' = {}
    BY <1>1, IdleKeeps DEF AddRule, Idle, Forget
  <2> QED
    BY <2>1, NothingFact, NoWalk
<1>2. ASSUME Shutdown PROVE WalkInv'
  <2>1. stack' = <<>> /\ memo' = Nothing /\ result' = "none" /\ OnStack' = {}
    BY <1>2, IdleKeeps DEF Shutdown, Idle, Forget
  <2> QED
    BY <2>1, NothingFact, NoWalk
<1>3. ASSUME Process PROVE WalkInv'
  <2>1. /\ stack' = <<Frame(Root)>> /\ OnStack' = {Root} /\ DOMAIN memo' = {Root}
    BY <1>3, ProcessStack DEF MaskInv
  <2>2. /\ Frame(Root).node = Root /\ Frame(Root).todo = DOMAIN heap[Root] /\ heap' = heap
    BY <1>3, FrameIsTyped, HeapAssumption DEF MaskInv, StackInv, Process
  <2>3. Len(stack') = 1 /\ DOMAIN stack' = {1} /\ stack'[1] = Frame(Root)
    BY <2>1
  <2>4. CallInv' /\ DescentInv'
    BY <2>3 DEF CallInv, DescentInv
  <2>5. DoneInv'
    BY <2>2, <2>3 DEF DoneInv
  <2>6. SettledInv'
    BY <2>1 DEF SettledInv
  <2> QED
    BY <2>1, <2>4, <2>5, <2>6 DEF WalkInv
<1>4. ASSUME NEW s \in Slots, Visit(s) PROVE WalkInv'
  BY <1>4, VisitWalk
<1>5. ASSUME NEW s \in Slots, Throw(s) PROVE WalkInv'
  <2>1. stack' = <<>> /\ memo' = Nothing /\ result' = "failed"
    BY <1>5 DEF Throw
  <2>2. OnStack' = {}
    BY <2>1 DEF OnStack
  <2> QED
    BY <2>1, <2>2, NothingFact, NoWalk
<1>6. ASSUME Return PROVE WalkInv'
  BY <1>6, ReturnWalk
<1>7. CASE UNCHANGED vars
  <2>1. Kept /\ OnStack' = OnStack
    BY <1>7 DEF vars, Kept, OnStack
  <2>2. CallInv'
    <3>1. ASSUME NEW i \in 1..Len(stack) - 1 PROVE Call(i)'
      BY <1>7, <2>1, CallStays DEF vars, WalkInv, CallInv
    <3> QED
      BY <1>7, <3>1 DEF vars, CallInv
  <2>3. DescentInv'
    BY <1>7 DEF vars, WalkInv, DescentInv, Ranks
  <2>4. ASSUME Acyclic(heap) PROVE DoneInv'
    <3> SUFFICES ASSUME NEW i \in DOMAIN stack,
                        NEW t \in DOMAIN heap[stack[i].node] \ stack[i].todo
                 PROVE  GoodSlot(stack[i].node, t, stack[i].out[t])'
      BY <1>7 DEF vars, DoneInv
    <3> QED
      BY <1>7, <2>1, <2>4, DoneStays DEF vars, WalkInv
  <2>5. ASSUME Acyclic(heap) PROVE SettledInv'
    BY <1>7, <2>1, <2>5, SettledStays DEF vars, WalkInv, SettledInv
  <2> QED
    BY <1>7, <2>2, <2>3, <2>4, <2>5 DEF vars, WalkInv
<1> QED
  BY <1>1, <1>2, <1>3, <1>4, <1>5, <1>6, <1>7 DEF Next

LEMMA WalkInit == ASSUME Init PROVE WalkInv
<1>1. stack = <<>> /\ DOMAIN memo = {} /\ result = "none"
  BY NothingFact DEF Init
<1>2. CallInv /\ DescentInv /\ DoneInv /\ SettledInv
  BY <1>1 DEF CallInv, DescentInv, DoneInv, SettledInv
<1> QED
  BY <1>1, <1>2 DEF WalkInv

LEMMA WalkIsMasked ==
  ASSUME MaskInv, WalkInv
  PROVE  MaskedThroughout
<1> SUFFICES ASSUME result = "masked", Acyclic(heap)
             PROVE  /\ Root \in DOMAIN memo
                    /\ \A n \in DOMAIN memo :
                         /\ memo[n] \in {Ref(n), Copy(n)}
                         /\ DOMAIN Shown(n) = DOMAIN heap[n]
                         /\ \A s \in DOMAIN heap[n] :
                              /\ Shown(n)[s] = MaskedSlot(n, s)
                              /\ Due(n, s) = NoRule /\ heap[n][s].is = "ref" =>
                                   heap[n][s].of \in DOMAIN memo
  BY DEF MaskedThroughout
<1>1. stack = <<>>
  BY DEF MaskInv, StackInv
<1>2. OnStack = {}
  BY <1>1 DEF OnStack
<1>3. \A n \in DOMAIN memo : Settled(n)
  BY <1>2 DEF WalkInv, SettledInv
<1>4. Root \in DOMAIN memo
  BY DEF WalkInv
<1> QED
  BY <1>3, <1>4 DEF Settled, GoodSlot

(* What process() returns for an entry without cycles is masked throughout, *)
(* however many objects it has and however often each is referred to        *)
(* (src/masking/MaskingEngine.ts:345).                                      *)
THEOREM MaskedThroughoutHolds ==
  ASSUME NoState
  PROVE  Spec => []MaskedThroughout
<1> DEFINE IInv == MaskInv /\ CacheCoherent /\ WalkInv
<1>1. Init => IInv
  BY MaskInit, CoherentInit, WalkInit
<1>2. IInv /\ [Next]_vars => IInv'
  BY MaskStep, CoherentStep, WalkStep
<1>3. IInv => MaskedThroughout
  BY WalkIsMasked
<1> QED
  BY <1>1, <1>2, <1>3, PTL DEF Spec

-----------------------------------------------------------------------------
(* The two engines side by side.  A tree is made from the depth that cuts   *)
(* it upwards: a row says what every object shows at one depth, given what  *)
(* they show one deeper.                                                    *)

NativeRow(below, d) ==
  [n \in Nodes |->
     IF d > MaxDepth THEN Cut
     ELSE Tree([s \in DOMAIN heap[n] |->
            LET v == heap[n][s]
                r == KeyAction(n, s)
            IN  CASE r = NoRule /\ v.is = "ref" -> below[v.of]
                  [] r # NoRule -> MaskMatchedValue(v, r)
                  [] OTHER -> IF d = MaxDepth THEN Cut ELSE v])]

ShownRow(below, d) ==
  [n \in Nodes |->
     IF d > MaxDepth \/ n \notin DOMAIN memo THEN Cut
     ELSE Tree([s \in DOMAIN heap[n] |->
            LET v == Shown(n)[s]
            IN  CASE v.is \in {"ref", "copy"} -> below[v.of]
                  [] v.is \in {"text", "number"} -> IF d = MaxDepth THEN Cut ELSE v
                  [] OTHER -> v])]

Deepest == MaxDepth + 1
NativeFrom(f, d) == f = [e \in d..Deepest |-> NativeRow(f[e + 1], e)]
ShownFrom(f, d)  == f = [e \in d..Deepest |-> ShownRow(f[e + 1], e)]

LEMMA DeepestRow ==
  ASSUME NEW x, NEW y
  PROVE  /\ NativeRow(x, Deepest) = NativeRow(y, Deepest)
         /\ ShownRow(x, Deepest) = ShownRow(y, Deepest)
<1>1. Deepest > MaxDepth
  BY RuleAssumption DEF Deepest
<1> QED
  BY <1>1 DEF NativeRow, ShownRow

LEMMA NativeExists == \E f : NativeFrom(f, 0)
<1> DEFINE P == {m \in 0..Deepest : \E f : NativeFrom(f, Deepest - m)}
<1>1. Deepest \in Nat
  BY RuleAssumption DEF Deepest
<1>2. 0 \in P
  <2> DEFINE f == [e \in Deepest..Deepest |-> NativeRow(0, e)]
  <2>1. \A e \in Deepest..Deepest : e = Deepest
    BY <1>1
  <2>2. \A e \in Deepest..Deepest : NativeRow(0, e) = NativeRow(f[e + 1], e)
    <3> HIDE DEF f
    <3> QED
      BY <2>1, DeepestRow
  <2>3. f = [e \in Deepest..Deepest |-> NativeRow(f[e + 1], e)]
    BY <2>2
  <2> HIDE DEF f
  <2>4. NativeFrom(f, Deepest - 0)
    BY <1>1, <2>3 DEF NativeFrom
  <2> QED
    BY <1>1, <2>4
<1>3. ASSUME NEW m \in 1..Deepest, m - 1 \in P PROVE m \in P
  <2> DEFINE d == Deepest - m
  <2>1. d \in Nat /\ d + 1 \in Nat /\ d + 1 = Deepest - (m - 1) /\ d < Deepest /\ m \in 0..Deepest
    BY <1>1
  <2>2. PICK f : NativeFrom(f, d + 1)
    BY <1>3, <2>1
  <2> HIDE DEF d
  <2> DEFINE h == [e \in d..Deepest |-> IF e = d THEN NativeRow(f[d + 1], d) ELSE f[e]]
  <2>3. ASSUME NEW e \in d..Deepest PROVE h[e] = NativeRow(h[e + 1], e)
    <3>1. CASE e = d
      <4>1. d + 1 \in d..Deepest /\ d + 1 # d
        BY <1>1, <2>1
      <4>2. h[d + 1] = f[d + 1] /\ h[e] = NativeRow(f[d + 1], d)
        BY <3>1, <4>1
      <4> QED
        BY <3>1, <4>2
    <3>2. CASE e # d
      <4>1. e \in d + 1..Deepest
        BY <1>1, <2>1, <3>2
      <4>2. f[e] = NativeRow(f[e + 1], e)
        BY <2>2, <4>1 DEF NativeFrom
      <4>3. CASE e = Deepest
        BY <3>2, <4>2, <4>3, DeepestRow
      <4>4. CASE e # Deepest
        <5>1. e + 1 \in d..Deepest /\ e + 1 # d
          BY <1>1, <2>1, <4>1, <4>4
        <5>2. h[e + 1] = f[e + 1] /\ h[e] = f[e]
          BY <3>2, <5>1
        <5> QED
          BY <4>2, <5>2
      <4> QED
        BY <4>3, <4>4
    <3> QED
      BY <3>1, <3>2
  <2>4. h = [e \in d..Deepest |-> h[e]]
    OBVIOUS
  <2> HIDE DEF h
  <2>5. NativeFrom(h, d)
    BY <2>3, <2>4 DEF NativeFrom
  <2> QED
    BY <2>1, <2>5 DEF d
<1>4. \A m \in 0..Deepest : m \in P
  <2> HIDE DEF P
  <2>1. \A m \in 1..Deepest : m - 1 \in P => m \in P
    BY <1>3
  <2> QED
    BY <1>1, <1>2, <2>1, Reaches
<1>5. Deepest \in 0..Deepest /\ Deepest - Deepest = 0
  BY <1>1
<1> QED
  BY <1>4, <1>5

LEMMA ShownExists == \E f : ShownFrom(f, 0)
<1> DEFINE P == {m \in 0..Deepest : \E f : ShownFrom(f, Deepest - m)}
<1>1. Deepest \in Nat
  BY RuleAssumption DEF Deepest
<1>2. 0 \in P
  <2> DEFINE f == [e \in Deepest..Deepest |-> ShownRow(0, e)]
  <2>1. \A e \in Deepest..Deepest : e = Deepest
    BY <1>1
  <2>2. \A e \in Deepest..Deepest : ShownRow(0, e) = ShownRow(f[e + 1], e)
    <3> HIDE DEF f
    <3> QED
      BY <2>1, DeepestRow
  <2>3. f = [e \in Deepest..Deepest |-> ShownRow(f[e + 1], e)]
    BY <2>2
  <2> HIDE DEF f
  <2>4. ShownFrom(f, Deepest - 0)
    BY <1>1, <2>3 DEF ShownFrom
  <2> QED
    BY <1>1, <2>4
<1>3. ASSUME NEW m \in 1..Deepest, m - 1 \in P PROVE m \in P
  <2> DEFINE d == Deepest - m
  <2>1. d \in Nat /\ d + 1 \in Nat /\ d + 1 = Deepest - (m - 1) /\ d < Deepest /\ m \in 0..Deepest
    BY <1>1
  <2>2. PICK f : ShownFrom(f, d + 1)
    BY <1>3, <2>1
  <2> HIDE DEF d
  <2> DEFINE h == [e \in d..Deepest |-> IF e = d THEN ShownRow(f[d + 1], d) ELSE f[e]]
  <2>3. ASSUME NEW e \in d..Deepest PROVE h[e] = ShownRow(h[e + 1], e)
    <3>1. CASE e = d
      <4>1. d + 1 \in d..Deepest /\ d + 1 # d
        BY <1>1, <2>1
      <4>2. h[d + 1] = f[d + 1] /\ h[e] = ShownRow(f[d + 1], d)
        BY <3>1, <4>1
      <4> QED
        BY <3>1, <4>2
    <3>2. CASE e # d
      <4>1. e \in d + 1..Deepest
        BY <1>1, <2>1, <3>2
      <4>2. f[e] = ShownRow(f[e + 1], e)
        BY <2>2, <4>1 DEF ShownFrom
      <4>3. CASE e = Deepest
        BY <3>2, <4>2, <4>3, DeepestRow
      <4>4. CASE e # Deepest
        <5>1. e + 1 \in d..Deepest /\ e + 1 # d
          BY <1>1, <2>1, <4>1, <4>4
        <5>2. h[e + 1] = f[e + 1] /\ h[e] = f[e]
          BY <3>2, <5>1
        <5> QED
          BY <4>2, <5>2
      <4> QED
        BY <4>3, <4>4
    <3> QED
      BY <3>1, <3>2
  <2>4. h = [e \in d..Deepest |-> h[e]]
    OBVIOUS
  <2> HIDE DEF h
  <2>5. ShownFrom(h, d)
    BY <2>3, <2>4 DEF ShownFrom
  <2> QED
    BY <2>1, <2>5 DEF d
<1>4. \A m \in 0..Deepest : m \in P
  <2> HIDE DEF P
  <2>1. \A m \in 1..Deepest : m - 1 \in P => m \in P
    BY <1>3
  <2> QED
    BY <1>1, <1>2, <2>1, Reaches
<1>5. Deepest \in 0..Deepest /\ Deepest - Deepest = 0
  BY <1>1
<1> QED
  BY <1>4, <1>5

LEMMA NativeTreeFact ==
  \E f : NativeFrom(f, 0) /\ NativeTree = f[0][Root]
<1> DEFINE tree == CHOOSE f : NativeFrom(f, 0)
<1>1. NativeTree = tree[0][Root]
  BY DEF NativeTree, NativeFrom, NativeRow, Deepest
<1>2. NativeFrom(tree, 0)
  BY NativeExists
<1> QED
  BY <1>1, <1>2

LEMMA ShownTreeFact ==
  \E f : ShownFrom(f, 0) /\ ShownTree = f[0][Root]
<1> DEFINE tree == CHOOSE f : ShownFrom(f, 0)
<1>1. ShownTree = tree[0][Root]
  BY DEF ShownTree, ShownFrom, ShownRow, Deepest
<1>2. ShownFrom(tree, 0)
  BY ShownExists
<1> QED
  BY <1>1, <1>2

LEMMA ActionIsDue ==
  ASSUME SameVerdicts, NEW n \in Nodes, NEW s \in DOMAIN heap[n]
  PROVE  KeyAction(n, s) = Due(n, s)
<1>1. CASE n \in Arrays
  BY <1>1 DEF KeyAction, Due
<1>2. CASE n \notin Arrays
  <2> DEFINE hits   == {i \in DOMAIN rules : Matched(rules[i], s)}
             native == {i \in DOMAIN rules : s \in NativeMatches[rules[i]]}
             first(those) == IF those = {} THEN NoRule
                             ELSE rules[CHOOSE i \in those : \A j \in those : i <= j]
  <2>1. hits = native
    BY <1>2 DEF SameVerdicts
  <2>2. Due(n, s) = first(hits)
    BY <1>2 DEF Due, FirstMatch, FirstIn
  <2>3. KeyAction(n, s) = first(native)
    BY <1>2 DEF KeyAction
  <2> HIDE DEF hits, native, first
  <2> QED
    BY <2>1, <2>2, <2>3, Zenon
<1> QED
  BY <1>1, <1>2

(* What a walk has masked throughout shows at every depth what the native   *)
(* walk shows.                                                              *)
LEMMA RowsAgree ==
  ASSUME SameVerdicts, heap \in Heaps, DOMAIN memo \subseteq Nodes,
         NEW f, NEW g, NEW d \in 0..Deepest, NEW n \in DOMAIN memo,
         d < Deepest => \A m \in DOMAIN memo : f[m] = g[m],
         memo[n] \in {Ref(n), Copy(n)}, DOMAIN Shown(n) = DOMAIN heap[n],
         \A s \in DOMAIN heap[n] :
           /\ Shown(n)[s] = MaskedSlot(n, s)
           /\ Due(n, s) = NoRule /\ heap[n][s].is = "ref" => heap[n][s].of \in DOMAIN memo,
         \A m \in DOMAIN memo : memo[m] \in {Ref(m), Copy(m)}
  PROVE  ShownRow(f, d)[n] = NativeRow(g, d)[n]
<1>1. n \in Nodes
  OBVIOUS
<1>2. CASE d > MaxDepth
  BY <1>1, <1>2 DEF ShownRow, NativeRow
<1>3. CASE ~(d > MaxDepth)
  <2>1. \A m \in DOMAIN memo : f[m] = g[m]
    BY <1>3, RuleAssumption DEF Deepest
  <2> DEFINE shown(s) == CASE Shown(n)[s].is \in {"ref", "copy"} -> f[Shown(n)[s].of]
                           [] Shown(n)[s].is \in {"text", "number"} ->
                                IF d = MaxDepth THEN Cut ELSE Shown(n)[s]
                           [] OTHER -> Shown(n)[s]
             native(s) == CASE KeyAction(n, s) = NoRule /\ heap[n][s].is = "ref" -> g[heap[n][s].of]
                            [] KeyAction(n, s) # NoRule ->
                                 MaskMatchedValue(heap[n][s], KeyAction(n, s))
                            [] OTHER -> IF d = MaxDepth THEN Cut ELSE heap[n][s]
  <2>2. /\ ShownRow(f, d)[n] = Tree([s \in DOMAIN heap[n] |-> shown(s)])
        /\ NativeRow(g, d)[n] = Tree([s \in DOMAIN heap[n] |-> native(s)])
    BY <1>1, <1>3 DEF ShownRow, NativeRow
  <2>3. ASSUME NEW s \in DOMAIN heap[n] PROVE shown(s) = native(s)
    <3> DEFINE v == heap[n][s]
               r == Due(n, s)
               w == Shown(n)[s]
    <3>1. w = IF r # NoRule THEN MaskMatchedValue(v, r) ELSE IF v.is = "ref" THEN memo[v.of] ELSE v
      BY DEF MaskedSlot
    <3>2. KeyAction(n, s) = r
      BY <1>1, ActionIsDue
    <3>3. shown(s) = CASE w.is \in {"ref", "copy"} -> f[w.of]
                       [] w.is \in {"text", "number"} -> IF d = MaxDepth THEN Cut ELSE w
                       [] OTHER -> w
      OBVIOUS
    <3>4. native(s) = CASE r = NoRule /\ v.is = "ref" -> g[v.of]
                        [] r # NoRule -> MaskMatchedValue(v, r)
                        [] OTHER -> IF d = MaxDepth THEN Cut ELSE v
      BY <3>2
    <3>5. Input(v)
      BY <1>1, HeapAssumption
    <3>6. r = NoRule /\ v.is = "ref" => v.of \in DOMAIN memo
      OBVIOUS
    <3> HIDE DEF shown, native, v, r, w
    <3>7. CASE r # NoRule
      <4>1. w = MaskMatchedValue(v, r) /\ w.is \in {"masked", "redacted"}
        BY <3>1, <3>7 DEF MaskMatchedValue, Masked, Redacted
      <4> QED
        BY <3>3, <3>4, <3>7, <4>1
    <3>8. CASE r = NoRule /\ v.is = "ref"
      <4>1. w = memo[v.of] /\ v.of \in DOMAIN memo
        BY <3>1, <3>6, <3>8
      <4>2. w \in {Ref(v.of), Copy(v.of)}
        BY <4>1
      <4>3. w.is \in {"ref", "copy"} /\ w.of = v.of
        BY <4>2 DEF Ref, Copy
      <4> QED
        BY <2>1, <3>3, <3>4, <3>8, <4>1, <4>3
    <3>9. CASE r = NoRule /\ v.is # "ref"
      <4>1. w = v /\ v.is \in {"text", "number"}
        BY <3>1, <3>5, <3>9 DEF Input, Text, Number, Ref
      <4> QED
        BY <3>3, <3>4, <3>9, <4>1
    <3> QED
      BY <3>7, <3>8, <3>9
  <2> HIDE DEF shown, native
  <2> QED
    BY <2>2, <2>3
<1> QED
  BY <1>2, <1>3

LEMMA MaskedIsNative ==
  ASSUME StackInv, MaskedThroughout
  PROVE  EnginesAgreeOnEntry
<1> SUFFICES ASSUME SameVerdicts, result = "masked", Acyclic(heap)
             PROVE  ShownTree = NativeTree
  BY DEF EnginesAgreeOnEntry, EnginesAgree
<1>1. /\ heap \in Heaps /\ DOMAIN memo \subseteq Nodes /\ Root \in DOMAIN memo
      /\ \A n \in DOMAIN memo :
           /\ memo[n] \in {Ref(n), Copy(n)} /\ DOMAIN Shown(n) = DOMAIN heap[n]
           /\ \A s \in DOMAIN heap[n] :
                /\ Shown(n)[s] = MaskedSlot(n, s)
                /\ Due(n, s) = NoRule /\ heap[n][s].is = "ref" => heap[n][s].of \in DOMAIN memo
  BY DEF StackInv, Partial, MaskedThroughout
<1>2. PICK f : ShownFrom(f, 0) /\ ShownTree = f[0][Root]
  BY ShownTreeFact
<1>3. PICK g : NativeFrom(g, 0) /\ NativeTree = g[0][Root]
  BY NativeTreeFact
<1>4. Deepest \in Nat
  BY RuleAssumption DEF Deepest
<1>5. \A d \in 0..Deepest : f[d] = ShownRow(f[d + 1], d) /\ g[d] = NativeRow(g[d + 1], d)
  BY <1>2, <1>3 DEF ShownFrom, NativeFrom
<1> DEFINE P == {m \in 0..Deepest : \A n \in DOMAIN memo : f[Deepest - m][n] = g[Deepest - m][n]}
<1>6. ASSUME NEW d \in 0..Deepest, d < Deepest => \A m \in DOMAIN memo : f[d + 1][m] = g[d + 1][m]
      PROVE  \A n \in DOMAIN memo : f[d][n] = g[d][n]
  BY <1>1, <1>5, <1>6, RowsAgree
<1>7. 0 \in P
  <2>1. Deepest - 0 = Deepest /\ Deepest \in 0..Deepest /\ ~(Deepest < Deepest) /\ 0 \in 0..Deepest
    BY <1>4
  <2> QED
    BY <1>6, <2>1
<1>8. ASSUME NEW m \in 1..Deepest, m - 1 \in P PROVE m \in P
  <2>1. Deepest - m \in 0..Deepest /\ Deepest - m + 1 = Deepest - (m - 1) /\ m \in 0..Deepest
    BY <1>4
  <2>2. \A n \in DOMAIN memo : f[Deepest - m + 1][n] = g[Deepest - m + 1][n]
    BY <1>8, <2>1
  <2> QED
    BY <1>6, <2>1, <2>2
<1>9. Deepest \in P
  <2> HIDE DEF P
  <2>1. \A m \in 1..Deepest : m - 1 \in P => m \in P
    BY <1>8
  <2>2. \A m \in 0..Deepest : m \in P
    BY <1>4, <1>7, <2>1, Reaches
  <2> QED
    BY <1>4, <2>2
<1>10. Deepest - Deepest = 0
  BY <1>4
<1> QED
  BY <1>1, <1>2, <1>3, <1>9, <1>10

(* Of an entry without cycles, for rules without a g or y flag none of      *)
(* which the two engines tell apart on a key of the entry, the native line  *)
(* and the JavaScript one show the same, to the depth both show: whatever   *)
(* was cached before, whatever the entry shares and whatever rules overlap. *)
THEOREM EnginesAgreeOnEntryHolds ==
  ASSUME NoState
  PROVE  Spec => []EnginesAgreeOnEntry
<1>1. MaskInv /\ MaskedThroughout => EnginesAgreeOnEntry
  BY MaskedIsNative DEF MaskInv
<1> QED
  BY <1>1, MaskCorrect, MaskedThroughoutHolds, PTL
================================================================================
