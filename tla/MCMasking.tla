-------------------------------- MODULE MCMasking --------------------------------
(* Three objects, the last an array; a default rule for one key, an          *)
(* application's rules for the other, one of them refused, one a function.   *)
(* "long" is a key of which the word that the rules look for is cut off.     *)
EXTENDS Masking, TLC

CONSTANTS n1, n2, n3, password, card, first, long, head, builtin, own, refused, function

AllNodes == {n1, n2, n3}
AllSlots == {password, card, first, long, head}
BoundedTo == [s \in AllSlots |-> IF s = long THEN head ELSE s]
AllRules == {own, refused, function, builtin}
MatchesOf == (builtin :> {password, long}) @@ (own :> {password, card, long})
               @@ (refused :> {card}) @@ (function :> {card})
DefaultRules == <<builtin>>

Filled(S, values) == UNION {[T -> values] : T \in SUBSET S}
Refs == {Ref(n) : n \in AllNodes}
Objects == {f \in Filled({password, card}, {Text, Number} \cup Refs) :
              password \in DOMAIN f => f[password] \in {Text, Ref(n3)}}
AllHeaps ==
  {(n1 :> a) @@ (n2 :> b) @@ (n3 :> c) :
     a \in {f \in Objects : DOMAIN f = {password, card}}
              \cup {(long :> Text) @@ (card :> v) : v \in {Text} \cup Refs},
     b \in {f \in Objects : Number \notin {f[s] : s \in DOMAIN f}},
     c \in Filled({first}, {Ref(n1), Ref(n2)})}
================================================================================
