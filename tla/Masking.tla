-------------------------------- MODULE Masking --------------------------------
(***************************************************************************)
(* The masking engine (src/masking/MaskingEngine.ts): an ordered list of   *)
(* rules, a bounded cache of the decision for each key name, and process(),*)
(* which walks the graph of objects of one log entry copying what it       *)
(* changes.  Beside it the walk of the native engine                       *)
(* (syntropylog-native/src/lib.rs) over the same entry, a tree cut at a    *)
(* depth, and the rules that engine is handed.                             *)
(*                                                                         *)
(* An entry is a heap: objects and arrays refer to each other, share       *)
(* children and may form cycles.  A string is Text, any other scalar is    *)
(* Number; the characters of a mask are in Masks.  What a pattern says of  *)
(* a key is given twice, for RegExp (Matches) and for the regex crate with *)
(* the flags i, m and s (NativeMatches): the two dialects differ.  A rule  *)
(* whose RegExp carries the g or y flag (Stateful) starts its next test    *)
(* where its last match ended, and finds nothing there.  process() is      *)
(* synchronous: nothing interleaves with it, so its stack is explicit only *)
(* to say what is visited when.                                            *)
(***************************************************************************)
EXTENDS Integers, Sequences, FiniteSets

CONSTANTS
  Nodes,     (* objects of an entry                                          *)
  Arrays,    (* the arrays among them                                        *)
  Slots,     (* key names, and positions of arrays                           *)
  Rules,     (* the default rules and those an application may add           *)
  Defaults,  (* getDefaultMaskingRules(), in order                           *)
  Bounded,   (* key name -> its first maxKeyLengthForRegex characters        *)
  Matches,   (* rule -> the key names its pattern matches, as a RegExp       *)
  NativeMatches, (* and those it matches in the regex crate                  *)
  Unsafe,    (* rules that assertSafeKeyPattern() refuses                    *)
  Functions, (* rules with a customMask function, which may throw            *)
  Stateful,  (* rules with a g or y flag                                     *)
  Linear,    (* rules the regex crate compiles                               *)
  NoRule,    (* the decision "no rule matched"                               *)
  Heaps,     (* the entries to mask                                          *)
  Root,      (* the object at the root of them                               *)
  CacheMax,  (* DECISION_CACHE_MAX                                           *)
  MaxDepth,  (* max_depth of the native walk                                 *)
  MaxRules   (* bound on the number of rules                                 *)

Value    == [is : {"text", "number", "ref", "copy", "masked", "redacted"},
             of : Nodes \cup Rules \cup {NoRule}]
Text     == [is |-> "text",     of |-> NoRule]
Number   == [is |-> "number",   of |-> NoRule]
Redacted == [is |-> "redacted", of |-> NoRule]
Ref(n)   == [is |-> "ref",      of |-> n]
Copy(n)  == [is |-> "copy",     of |-> n]
Masked(r) == [is |-> "masked",  of |-> r]

(* The slots of an object, some of them or none. *)
Partial(f, D, R) == DOMAIN f \subseteq D /\ f \in [DOMAIN f -> R]
Input(v) == v \in {Text, Number} \cup {Ref(n) : n \in Nodes}

ASSUME RuleAssumption ==
  /\ Bounded \in [Slots -> Slots]
  /\ Matches \in [Rules -> SUBSET Slots] /\ NativeMatches \in [Rules -> SUBSET Slots]
  /\ Defaults \in Seq(Rules)
  /\ NoRule \notin Rules /\ NoRule \notin Slots
  /\ CacheMax \in Nat /\ MaxDepth \in Nat
ASSUME HeapAssumption == Root \in Nodes /\
  \A h \in Heaps :
    /\ DOMAIN h = Nodes
    /\ \A n \in Nodes : Partial(h[n], Slots, Value) /\ \A s \in DOMAIN h[n] : Input(h[n][s])

BuiltIn == {Defaults[i] : i \in DOMAIN Defaults}   \* _isDefaultRule

VARIABLES
  rules,   \* the rules, first match wins
  cache,   \* decisionCache: key -> rule or NoRule
  moved,   \* stateful rules whose lastIndex is not 0
  heap,    \* the entry the application logs, again and again
  stack,   \* the calls of applyMaskingRules() in progress
  memo,    \* object -> its masked result (this call)
  copies,  \* object -> the contents of its copy
  result   \* of the last process(): "none", "masked" or "failed"

vars   == <<rules, cache, moved, heap, stack, memo, copies, result>>

Nothing == <<>>   \* the function with no domain

(* Map.set() *)
With(f, x, v) == [y \in DOMAIN f \cup {x} |-> IF y = x THEN v ELSE f[y]]

(* The constructor, with and without enableDefaultRules; the rules of its  *)
(* options are added one by one like any other.                             *)
Init ==
  /\ rules \in {Defaults, <<>>}
  /\ cache = Nothing /\ moved = {}
  /\ heap \in Heaps
  /\ stack = <<>> /\ memo = Nothing /\ copies = Nothing /\ result = "none"

Idle == stack = <<>>
Forget == memo' = Nothing /\ copies' = Nothing /\ result' = "none"

-----------------------------------------------------------------------------
(* Mutant: the cache survives the new rule. *)
AddRuleCached(r) ==
  /\ Idle /\ Len(rules) < MaxRules
  /\ rules' = IF r \in Unsafe THEN rules ELSE Append(rules, r)
  /\ cache' = cache
  /\ Forget /\ UNCHANGED <<moved, heap, stack>>

(* addRule(): a refused pattern throws before anything has changed. *)
AddRule(r) ==
  /\ Idle /\ Len(rules) < MaxRules
  /\ rules' = IF r \in Unsafe THEN rules ELSE Append(rules, r)
  /\ cache' = IF r \in Unsafe THEN cache ELSE Nothing
  /\ Forget /\ UNCHANGED <<moved, heap, stack>>

(* shutdown() *)
Shutdown ==
  /\ Idle
  /\ rules' = <<>> /\ cache' = Nothing
  /\ Forget /\ UNCHANGED <<moved, heap, stack>>

-----------------------------------------------------------------------------
(* What a rule says of a key: testCustomPatternBounded() shows the pattern  *)
(* of an application only the head of a long one, and takes a test that     *)
(* throws for no match.                                                     *)
Matched(r, k) == (IF r \in BuiltIn THEN k ELSE Bounded[k]) \in Matches[r]

(* regex.test() *)
Test(r, k) == Matched(r, k) /\ r \notin moved

FirstIn(rs, hit(_)) ==
  LET hits == {i \in DOMAIN rs : hit(rs[i])}
  IN  IF hits = {} THEN NoRule
      ELSE rs[CHOOSE i \in hits : \A j \in hits : i <= j]

(* scanRules(): every rule in order, up to the first that matches. *)
ScanRules(k) == FirstIn(rules, LAMBDA r : Test(r, k))
Scanned(k) ==
  {rules[i] : i \in {j \in DOMAIN rules : \A l \in 1..j - 1 : ~Test(rules[l], k)}}

(* findMatchingRule() *)
FindMatchingRule(k) == IF k \in DOMAIN cache THEN cache[k] ELSE ScanRules(k)

(* Its effects: the decision is cached while there is room, and the tests   *)
(* move or reset the patterns that keep a position.                         *)
Decide(k) ==
  IF k \in DOMAIN cache THEN UNCHANGED <<cache, moved>>
  ELSE /\ cache' = IF Cardinality(DOMAIN cache) < CacheMax
                     THEN With(cache, k, ScanRules(k)) ELSE cache
       /\ moved' = (moved \ Scanned(k)) \cup ({ScanRules(k)} \cap Stateful)

-----------------------------------------------------------------------------
Top   == stack[Len(stack)]
Below == SubSeq(stack, 1, Len(stack) - 1)

(* A call of applyMaskingRules() for an object: the slots still to do, the  *)
(* one it is inside of, and the contents of its result so far.              *)
Frame(n) == [node |-> n, todo |-> DOMAIN heap[n], slot |-> NoRule, out |-> heap[n]]

(* Mutant: the memo knows an object only when it is done. *)
EnterUnseeded(n, below) ==
  /\ stack' = Append(below, Frame(n))
  /\ memo'  = IF below = <<>> THEN Nothing ELSE memo

(* memo.set(data, data), before the loop over its slots. *)
Enter(n, below) ==
  /\ stack' = Append(below, Frame(n))
  /\ memo'  = With(IF below = <<>> THEN Nothing ELSE memo, n, Ref(n))

(* process() *)
Process ==
  /\ Idle
  /\ Enter(Root, <<>>)
  /\ copies' = Nothing /\ result' = "none"
  /\ UNCHANGED <<rules, cache, moved, heap>>

Put(frame, s, v) == [frame EXCEPT !.todo = @ \ {s}, !.out = [@ EXCEPT ![s] = v]]
PutTop(s, v) == stack' = Append(Below, Put(Top, s, v))

(* The rule for a slot: the positions of an array have none. *)
RuleFor(n, s) == IF n \in Arrays THEN NoRule ELSE FindMatchingRule(s)
Consult(n, s) == IF n \in Arrays THEN UNCHANGED <<cache, moved>> ELSE Decide(s)

(* A matched key: a string is masked by its rule, anything else redacted    *)
(* whole.                                                                   *)
MaskMatched(s, v, r) ==
  /\ PutTop(s, IF v = Text THEN Masked(r) ELSE Redacted)
  /\ UNCHANGED <<memo, copies, result>>

(* Any other: a scalar stays, a visited object is what the memo says, an    *)
(* unvisited one is entered.                                                *)
PassUnmatched(s, v) ==
  /\ IF v.is = "ref" /\ v.of \notin DOMAIN memo
       THEN Enter(v.of, Append(Below, [Top EXCEPT !.slot = s]))
       ELSE PutTop(s, IF v.is = "ref" THEN memo[v.of] ELSE v) /\ memo' = memo
  /\ UNCHANGED <<copies, result>>

Visit(s) ==
  /\ ~Idle /\ s \in Top.todo
  /\ LET v == heap[Top.node][s]
         r == RuleFor(Top.node, s)
     IN  IF r # NoRule THEN MaskMatched(s, v, r) ELSE PassUnmatched(s, v)
  /\ Consult(Top.node, s)
  /\ UNCHANGED <<rules, heap>>

(* A customMask that throws: process() answers with the fixed marker.       *)
Throw(s) ==
  /\ ~Idle /\ s \in Top.todo
  /\ heap[Top.node][s] = Text /\ RuleFor(Top.node, s) \in Functions
  /\ stack' = <<>> /\ memo' = Nothing /\ copies' = Nothing /\ result' = "failed"
  /\ Consult(Top.node, s)
  /\ UNCHANGED <<rules, heap>>

(* Mutant: the memo keeps the original of an object that was copied. *)
SettleOriginal(n, out) ==
  /\ memo'   = memo
  /\ copies' = IF out = heap[n] THEN copies ELSE With(copies, n, out)

(* memo.set(data, result): a copy only of what has changed. *)
Settle(n, out) ==
  /\ memo'   = [memo EXCEPT ![n] = IF out = heap[n] THEN Ref(n) ELSE Copy(n)]
  /\ copies' = IF out = heap[n] THEN copies ELSE With(copies, n, out)

(* The end of a call of applyMaskingRules(): its caller takes the result,   *)
(* or process() returns it.                                                 *)
Return ==
  /\ ~Idle /\ Top.todo = {}
  /\ Settle(Top.node, Top.out)
  /\ IF Below = <<>>
       THEN stack' = <<>> /\ result' = "masked"
       ELSE LET caller == Below[Len(Below)]
            IN  /\ stack' = [Below EXCEPT ![Len(Below)] =
                                Put(caller, caller.slot, memo'[Top.node])]
                /\ result' = result
  /\ UNCHANGED <<rules, cache, moved, heap>>

Next ==
  \/ \E r \in Rules \ BuiltIn : AddRule(r)
  \/ Shutdown
  \/ Process
  \/ \E s \in Slots : Visit(s) \/ Throw(s)
  \/ Return

Spec == Init /\ [][Next]_vars

-----------------------------------------------------------------------------
(* What the engine promises: the first rule that matches a key, whatever    *)
(* was asked before.                                                        *)
FirstMatch(k) == FirstIn(rules, LAMBDA r : Matched(r, k))
Due(n, s) == IF n \in Arrays THEN NoRule ELSE FirstMatch(s)

(* getNativeRules(): null, or every rule in order. *)
GetNativeRules == \A i \in DOMAIN rules : rules[i] \notin Functions

(* compile_masking_rules(): None, or every one of them. *)
CompileMaskingRules == \A i \in DOMAIN rules : rules[i] \in Linear

NativeServes == GetNativeRules /\ CompileMaskingRules

(* Mutant: the last rule that matches. *)
KeyActionLast(n, s) ==
  LET hits == {i \in DOMAIN rules : s \in NativeMatches[rules[i]]}
  IN  IF n \in Arrays \/ hits = {} THEN NoRule
      ELSE rules[CHOOSE i \in hits : \A j \in hits : j <= i]

(* resolve_key_action(): match_rule() scans the rules without a cache and   *)
(* shows each the whole key; sensitive_fields, which the JavaScript side    *)
(* leaves empty, add nothing.                                               *)
KeyAction(n, s) ==
  LET hits == {i \in DOMAIN rules : s \in NativeMatches[rules[i]]}
  IN  IF n \in Arrays \/ hits = {} THEN NoRule
      ELSE rules[CHOOSE i \in hits : \A j \in hits : i <= j]

(* mask_matched_value() and mask_matched_js_value() *)
MaskMatchedValue(v, r) == IF v = Text THEN Masked(r) ELSE Redacted

(* mask_value() and js_unknown_to_value_masked(): a tree, cut below         *)
(* max_depth.                                                               *)
Cut == [is |-> "cut", of |-> NoRule]
Tree(f) == [is |-> "object", of |-> f]

NativeTree ==
  LET tree[d \in 0..MaxDepth + 1] ==
        [n \in Nodes |->
           IF d > MaxDepth THEN Cut
           ELSE Tree([s \in DOMAIN heap[n] |->
                  LET v == heap[n][s]
                      r == KeyAction(n, s)
                  IN  CASE r = NoRule /\ v.is = "ref" -> tree[d + 1][v.of]
                        [] r # NoRule -> MaskMatchedValue(v, r)
                        [] OTHER -> IF d = MaxDepth THEN Cut ELSE v])]
  IN  tree[0][Root]

-----------------------------------------------------------------------------
TypeOK ==
  /\ rules \in Seq(Rules)
  /\ Partial(cache, Slots, Rules \cup {NoRule}) /\ Cardinality(DOMAIN cache) <= CacheMax
  /\ moved \subseteq Stateful
  /\ heap \in Heaps
  /\ \A i \in DOMAIN stack : LET f == stack[i] IN
       /\ f.node \in Nodes /\ f.slot \in Slots \cup {NoRule}
       /\ f.todo \subseteq DOMAIN heap[f.node]
       /\ DOMAIN f.out = DOMAIN heap[f.node] /\ Partial(f.out, Slots, Value)
  /\ Partial(memo, Nodes, Value)
  /\ DOMAIN copies \subseteq DOMAIN memo
  /\ \A n \in DOMAIN copies : DOMAIN copies[n] = DOMAIN heap[n] /\ Partial(copies[n], Slots, Value)
  /\ result \in {"none", "masked", "failed"}

(* The cache answers what a scan of the rules of now would: a decision      *)
(* depends on the key name and the rule set alone ("Deterministic by        *)
(* design", src/masking/MaskingEngine.ts:212).                              *)
CacheCoherent == \A k \in DOMAIN cache : cache[k] = FirstMatch(k)

(* applyMaskingRules() never enters an object it is inside of: it ends on a *)
(* cyclic entry too.                                                        *)
NoEndlessDescent ==
  \A i, j \in DOMAIN stack : stack[i].node = stack[j].node => i = j

(* An entry without cycles. *)
Acyclic(h) ==
  \E rank \in [Nodes -> 0..Cardinality(Nodes)] :
    \A n \in Nodes : \A s \in DOMAIN h[n] :
      h[n][s].is = "ref" => rank[h[n][s].of] < rank[n]

(* The contents of the masked version of an object. *)
Shown(n) == IF memo[n] = Copy(n) THEN copies[n] ELSE heap[n]

(* Each slot of it: masked by the first rule that matches its key, else     *)
(* what it was, or the masked version of the object it refers to.           *)
MaskedSlot(n, s) ==
  LET v == heap[n][s]
  IN  IF Due(n, s) # NoRule THEN MaskMatchedValue(v, Due(n, s))
      ELSE IF v.is = "ref" THEN memo[v.of] ELSE v

(* What process() returns for an entry without cycles is masked             *)
(* throughout: from the root down, and also where an object is reached a    *)
(* second time ("no unmasked leak on the second reference",                 *)
(* src/masking/MaskingEngine.ts:345).                                       *)
MaskedThroughout ==
  result = "masked" /\ Acyclic(heap) =>
    /\ Root \in DOMAIN memo
    /\ \A n \in DOMAIN memo :
         /\ memo[n] \in {Ref(n), Copy(n)}
         /\ DOMAIN Shown(n) = DOMAIN heap[n]
         /\ \A s \in DOMAIN heap[n] :
              /\ Shown(n)[s] = MaskedSlot(n, s)
              /\ Due(n, s) = NoRule /\ heap[n][s].is = "ref" =>
                   heap[n][s].of \in DOMAIN memo

(* What process() returned, as the tree a reader of it sees. *)
ShownTree ==
  LET tree[d \in 0..MaxDepth + 1] ==
        [n \in Nodes |->
           IF d > MaxDepth \/ n \notin DOMAIN memo THEN Cut
           ELSE Tree([s \in DOMAIN heap[n] |->
                  LET v == Shown(n)[s]
                  IN  CASE v.is \in {"ref", "copy"} -> tree[d + 1][v.of]
                        [] v.is \in {"text", "number"} -> IF d = MaxDepth THEN Cut ELSE v
                        [] OTHER -> v])]
  IN  tree[0][Root]

(* No rule in force is told apart by the two engines on a key of the entry: *)
(* none of an application's is decided by what a key has beyond its first   *)
(* 256 characters, or by where the dialects of patterns differ.             *)
SameVerdicts ==
  \A i \in DOMAIN rules : \A n \in Nodes \ Arrays : \A s \in DOMAIN heap[n] :
    Matched(rules[i], s) <=> s \in NativeMatches[rules[i]]

(* Where the native engine serves these rules, its line and the JavaScript  *)
(* one show the same, to the depth both show ("the masked output is         *)
(* identical", docs/masking.md:7).                                          *)
EnginesAgree ==
  result = "masked" /\ NativeServes /\ Acyclic(heap) => ShownTree = NativeTree

(* They do on an entry about whose keys the single rules agree: neither the *)
(* order of the rules, nor the decision cache, nor copying and sharing on   *)
(* one side and the tree cut at a depth on the other make a difference      *)
(* (src/masking/MaskingEngine.ts:413, syntropylog-native/src/lib.rs:337).   *)
EnginesAgreeOnEntry == SameVerdicts => EnginesAgree
================================================================================
