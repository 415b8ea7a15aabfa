------------------------------- MODULE Recursion -------------------------------
(***************************************************************************)
(* Induction and recursion on the natural numbers, stated for sets and     *)
(* functions: what the proofs about recursive functions rest on.           *)
(***************************************************************************)
EXTENDS Integers, WellFoundedInduction, TLAPS

Smaller == {x \in Nat \X Nat : x[1] < x[2]}

LEMMA SmallerWellFounded == IsWellFoundedOn(Smaller, Nat)
BY NatLessThanWellFounded DEF OpToRel, Smaller

(* A set of natural numbers has a smallest. *)
LEMMA Smallest ==
  ASSUME NEW S \in SUBSET Nat, S # {}
  PROVE  \E i \in S : \A j \in S : i <= j
<1>1. PICK i \in S : \A j \in S : ~(<<j, i>> \in Smaller)
  BY SmallerWellFounded, WFMin
<1>2. ASSUME NEW j \in S PROVE i <= j
  <2>1. i \in Nat /\ j \in Nat
    OBVIOUS
  <2>2. <<j, i>> \in Nat \X Nat /\ <<j, i>>[1] = j /\ <<j, i>>[2] = i
    BY <2>1
  <2>3. ~(j < i)
    BY <1>1, <2>2 DEF Smaller
  <2> QED
    BY <2>1, <2>3
<1> QED
  BY <1>2

(* A set that has 0, and with a number below n the next one, reaches n. *)
LEMMA Reaches ==
  ASSUME NEW n \in Nat, NEW P, 0 \in P, \A i \in 1..n : i - 1 \in P => i \in P
  PROVE  \A i \in 0..n : i \in P
<1> DEFINE T == {i \in 0..n : i \notin P}
<1> SUFFICES ASSUME T # {} PROVE FALSE
  OBVIOUS
<1>1. T \in SUBSET Nat
  OBVIOUS
<1>2. PICK i \in T : \A j \in T : i <= j
  <2> HIDE DEF T
  <2> QED
    BY <1>1, Smallest
<1>3. i \in 1..n /\ i - 1 \in 0..n /\ i - 1 \notin T
  BY <1>2
<1> QED
  BY <1>2, <1>3

(* f starts from c; g[i] makes its value at i of the one before.            *)
Recurs(f, n, c, g) == f = [i \in 0..n |-> IF i = 0 THEN c ELSE g[i][f[i - 1]]]

LEMMA RecursSteps ==
  ASSUME NEW n \in Nat, NEW S, NEW c \in S, NEW g, NEW f, Recurs(f, n, c, g),
         \A x \in S, i \in 1..n : g[i][x] \in S
  PROVE  /\ f \in [0..n -> S] /\ f[0] = c
         /\ \A i \in 1..n : f[i] = g[i][f[i - 1]]
<1>1. DOMAIN f = 0..n /\ f[0] = c /\ \A i \in 1..n : f[i] = g[i][f[i - 1]]
  <2>1. DOMAIN f = 0..n
    BY DEF Recurs
  <2>2. \A i \in 0..n : f[i] = IF i = 0 THEN c ELSE g[i][f[i - 1]]
    BY ZenonT(30) DEF Recurs
  <2> QED
    BY <2>1, <2>2
<1> DEFINE P == {i \in 0..n : f[i] \in S}
<1>2. 0 \in P
  BY <1>1
<1>3. ASSUME NEW i \in 1..n, i - 1 \in P PROVE i \in P
  <2>1. g[i][f[i - 1]] \in S
    BY <1>3
  <2> QED
    BY <1>1, <2>1
<1>4. \A i \in 0..n : i \in P
  <2> HIDE DEF P
  <2>1. \A i \in 1..n : i - 1 \in P => i \in P
    BY <1>3
  <2> QED
    BY <1>2, <2>1, Reaches
<1>5. f = [i \in 0..n |-> f[i]]
  BY <1>1 DEF Recurs
<1> QED
  BY <1>1, <1>4, <1>5

(* Such a function exists. *)
LEMMA RecursionExists ==
  ASSUME NEW n \in Nat, NEW S, NEW c \in S, NEW g, \A x \in S, i \in 1..n : g[i][x] \in S
  PROVE  \E f : Recurs(f, n, c, g)
<1> DEFINE P == {m \in 0..n : \E f : Recurs(f, m, c, g)}
<1>1. 0 \in P
  <2>1. Recurs([i \in 0..0 |-> c], 0, c, g)
    BY DEF Recurs
  <2> QED
    BY <2>1
<1>2. ASSUME NEW m \in 1..n, m - 1 \in P PROVE m \in P
  <2>1. PICK f : Recurs(f, m - 1, c, g)
    BY <1>2
  <2> DEFINE h == [i \in 0..m |-> IF i = m THEN g[m][f[m - 1]] ELSE f[i]]
  <2>2. \A i \in 0..m : h[i] = IF i = 0 THEN c ELSE g[i][h[i - 1]]
    <3> SUFFICES ASSUME NEW i \in 0..m PROVE h[i] = IF i = 0 THEN c ELSE g[i][h[i - 1]]
      OBVIOUS
    <3>1. CASE i = m
      BY <3>1
    <3>2. CASE i # m
      <4>1. i \in 0..(m - 1)
        BY <3>2
      <4>2. f[i] = IF i = 0 THEN c ELSE g[i][f[i - 1]]
        BY <2>1, <4>1 DEF Recurs
      <4>3. h[i] = f[i] /\ (i # 0 => h[i - 1] = f[i - 1])
        BY <3>2, <4>1
      <4> QED
        BY <4>2, <4>3
    <3> QED
      BY <3>1, <3>2
  <2>3. Recurs(h, m, c, g)
    BY <2>2 DEF Recurs
  <2> HIDE DEF h
  <2> QED
    BY <2>3
<1> HIDE DEF P
<1>3. \A i \in 0..n : i \in P
  BY <1>1, <1>2, Reaches
<1> QED
  BY <1>3 DEF P

(* From c in S, stepping by functions on S, there is a sequence in S. *)
StepsIn(g, n, S) == \A x \in S, i \in 1..n : g[i][x] \in S
Runs(f, n, S, c, g) ==
  f \in [0..n -> S] /\ f[0] = c /\ \A i \in 1..n : f[i] = g[i][f[i - 1]]

LEMMA RecursionFact ==
  ASSUME NEW n \in Nat, NEW S, NEW c \in S, NEW g, StepsIn(g, n, S)
  PROVE  \E f : Runs(f, n, S, c, g)
<1>1. \A x \in S, i \in 1..n : g[i][x] \in S
  BY DEF StepsIn
<1>2. PICK f : Recurs(f, n, c, g)
  BY <1>1, RecursionExists
<1>3. /\ f \in [0..n -> S] /\ f[0] = c
      /\ \A i \in 1..n : f[i] = g[i][f[i - 1]]
  BY <1>1, <1>2, RecursSteps
<1> QED
  BY <1>3 DEF Runs
================================================================================
