--------------------------------- MODULE Masks ---------------------------------
(***************************************************************************)
(* The string work of masking, as functions of their inputs: the           *)
(* declarative mask (src/masking/maskSpec.ts) and its twin in the native   *)
(* engine (syntropylog-native/src/lib.rs), which are to give the same      *)
(* result for every value and spec; the truncation of the native engine;   *)
(* and the scan that refuses explosive key patterns                        *)
(* (src/masking/regexSafety.ts).                                           *)
(*                                                                         *)
(* A value is a sequence of characters, or of their widths in bytes where  *)
(* bytes matter.  A pattern is a sequence of tokens as JavaScript reads it; *)
(* the scan reads some of them differently.                                *)
(***************************************************************************)
EXTENDS Integers, Sequences, FiniteSets, SequencesExt, FiniteSetsExt, Tasks

CONSTANTS
  Chars,     (* characters of a value                                        *)
  Digits,    (* the ASCII digits among them                                  *)
  MaskChar,  (* the mask character                                           *)
  Cap,       (* MASK_DEFAULT_CAP_LENGTH                                      *)
  Values,    (* the values to mask                                           *)
  Specs,     (* the specs to mask them by                                    *)
  Texts,     (* the texts to truncate: widths of their characters            *)
  MaxLengths,(* the lengths to truncate them to                              *)
  Patterns   (* the key patterns to judge                                    *)

(* keepAfter: no delimiter, or one, which may be the empty string. *)
MaskSpec == [redact : BOOLEAN, unmaskStart : Nat, unmaskEnd : Nat,
             scope : {"all", "digits"},
             keepAfter : {ds \in SUBSET Seq(Chars) : \A d, e \in ds : d = e},
             preserveLength : BOOLEAN]

ASSUME CharAssumption  == Digits \subseteq Chars /\ Cap \in Nat
ASSUME InputAssumption == /\ Values \subseteq Seq(Chars) /\ Specs \subseteq MaskSpec
                          /\ Texts \subseteq Seq(Nat) /\ MaxLengths \subseteq Nat

AtMost(a, b) == IF a < b THEN a ELSE b

-----------------------------------------------------------------------------
(* Mutant: the end is kept without regard to what the start has kept. *)
MaskCharsOverlapping(s, start, end, preserveLength) ==
  LET n      == Len(s)
      keep   == AtMost(start, n)
      masked == Max({0, n - start - end})
  IN  SubSeq(s, 1, keep)
        \o [i \in 1..(IF preserveLength THEN masked ELSE AtMost(masked, Cap)) |-> MaskChar]
        \o SubSeq(s, n - AtMost(end, n) + 1, n)

(* maskChars() and mask_chars(): a masked run between what is kept at the   *)
(* start and at the end, capped when the length is not preserved.           *)
MaskChars(s, start, end, preserveLength) ==
  LET n         == Len(s)
      keepStart == AtMost(start, n)
      keepEnd   == AtMost(end, n - keepStart)
      masked    == n - keepStart - keepEnd
      body      == IF preserveLength THEN masked ELSE AtMost(masked, Cap)
  IN  SubSeq(s, 1, keepStart) \o [i \in 1..body |-> MaskChar]
        \o SubSeq(s, n - keepEnd + 1, n)

(* maskDigits() and mask_digits(): the digits that are neither among the    *)
(* first nor among the last of them; every other character stays.           *)
DigitsUpTo(s, i) == Cardinality({j \in 1..i : s[j] \in Digits})

MaskDigits(s, start, end) ==
  LET d         == DigitsUpTo(s, Len(s))
      keepStart == AtMost(start, d)
      keepEnd   == AtMost(end, d - keepStart)
      masked    == keepStart + 1..d - keepEnd
  IN  [i \in DOMAIN s |->
         IF s[i] \in Digits /\ DigitsUpTo(s, i) \in masked THEN MaskChar ELSE s[i]]

(* Where value.indexOf(delim) and value.find(delim) cut: the length of the  *)
(* head.  The empty string is found at the start, an absent one nowhere.    *)
HeadUntil(s, delim) ==
  IF delim = <<>> THEN 0
  ELSE LET fits == {j \in DOMAIN s : j + Len(delim) - 1 <= Len(s)}
       IN  Min({Len(s)} \cup
               {j - 1 : j \in {i \in fits : SubSeq(s, i, i + Len(delim) - 1) = delim}})

(* splitKeptTail() has no use for an empty delimiter (!delim);              *)
(* split_kept_tail() takes Some("") like any other.                         *)
SplitKeptTail(s, keepAfter) ==
  Min({Len(s)} \cup {HeadUntil(s, d) : d \in keepAfter \ {<<>>}})
SplitKeptTailNative(s, keepAfter) ==
  Min({Len(s)} \cup {HeadUntil(s, d) : d \in keepAfter})

REDACTED == <<"[REDACTED]">>

MaskHead(s, cut, spec) ==
  LET head == SubSeq(s, 1, cut)
  IN  (IF spec.scope = "digits"
         THEN MaskDigits(head, spec.unmaskStart, spec.unmaskEnd)
         ELSE MaskChars(head, spec.unmaskStart, spec.unmaskEnd, spec.preserveLength))
      \o SubSeq(s, cut + 1, Len(s))

(* strategyToSpec(): the presets. *)
StrategyToSpec(strategy, preserveLength) ==
  LET base == [redact |-> FALSE, unmaskStart |-> 0, unmaskEnd |-> 0, scope |-> "all",
               keepAfter |-> {}, preserveLength |-> preserveLength]
  IN  CASE strategy = "email" -> [base EXCEPT !.unmaskStart = 1, !.keepAfter = {<<"@">>}]
        [] strategy \in {"credit_card", "ssn", "phone"} ->
             [base EXCEPT !.scope = "digits", !.unmaskEnd = 4]
        [] strategy \in {"password", "token"} -> [base EXCEPT !.redact = TRUE]
        [] OTHER -> base

(* getDefaultMaskingRules(): the presets of the built-in rules, in order;    *)
(* the last rule catches every other name of a secret.                      *)
DefaultStrategies ==
  <<"credit_card", "ssn", "email", "phone", "password", "token", "password">>

(* applyMask() *)
ApplyMask(s, spec) ==
  IF spec.redact THEN REDACTED ELSE MaskHead(s, SplitKeptTail(s, spec.keepAfter), spec)

(* apply_mask() *)
ApplyMaskNative(s, spec) ==
  IF spec.redact THEN REDACTED
  ELSE MaskHead(s, SplitKeptTailNative(s, spec.keepAfter), spec)

Mask(v, s) ==
  /\ task = Idle
  /\ task' = [do |-> "mask", value |-> v, spec |-> s,
              js |-> ApplyMask(v, s), native |-> ApplyMaskNative(v, s)]

-----------------------------------------------------------------------------
Bytes(text) ==
  LET upTo[i \in 0..Len(text)] == IF i = 0 THEN 0 ELSE upTo[i - 1] + text[i]
  IN  upTo[Len(text)]
Boundaries(text) == {Bytes(SubSeq(text, 1, k)) : k \in 0..Len(text)}

(* Mutant: cuts at a byte, whatever character it is in. *)
TruncateAtBytes(text, maxLen) ==
  IF Bytes(text) <= maxLen THEN [kept |-> Bytes(text), cut |-> FALSE]
  ELSE [kept |-> Max({0, maxLen - 3}), cut |-> TRUE]

(* truncate(): the cut walks down from max_len - 3 bytes to a character     *)
(* boundary; "..." follows.  The result: the bytes kept of the text, and    *)
(* whether anything was cut.                                                *)
TruncateAt(text, maxLen) ==
  LET end == IF maxLen < 3 THEN 0 ELSE maxLen - 3
  IN  IF Bytes(text) <= maxLen THEN [kept |-> Bytes(text), cut |-> FALSE]
      ELSE [kept |-> Max({b \in Boundaries(text) : b <= end}), cut |-> TRUE]

Truncate(text, maxLen) ==
  /\ task = Idle
  /\ task' = [do |-> "truncate", text |-> text, maxLen |-> maxLen,
              result |-> TruncateAt(text, maxLen)]

-----------------------------------------------------------------------------
(* Tokens of a pattern; "+" stands for * and {n,} as well, "{2}" for any    *)
(* bounded quantifier that repeats.  "class" is [...], or a ] without [;    *)
(* "empty" is [] or [^], a whole class to JavaScript; "point" is an escape  *)
(* \u{61} with decimal digits, one character under the flag u or v.  These  *)
(* last two the scan does not read as JavaScript does.                      *)
Tokens  == {"atom", "class", "empty", "point", "(", ")", "+", "?", "{2}"}
Repeats == {"+", "{2}"}
Misread == {"empty", "point"}

(* How deep in groups a pattern is after its k-th token; a regular          *)
(* expression closes no group that is not open.                             *)
Depth(p, k) == Cardinality({i \in 1..k : p[i] = "("}) - Cardinality({i \in 1..k : p[i] = ")"})
ASSUME PatternAssumption ==
  \A p \in Patterns : p \in Seq(Tokens) /\ \A k \in 0..Len(p) : Depth(p, k) >= 0

(* The state of the scan: for each group it takes to be open, has its body  *)
(* an unbounded quantifier?  Is it inside what it takes for a class?  What  *)
(* would the next quantifier apply to?  And has it refused the pattern, or  *)
(* thrown, which addRule() lets through to its caller just the same?        *)
Scan == [stack |-> <<FALSE>>, inside |-> FALSE, last |-> "none", refused |-> FALSE]

(* top().hasUnbounded = true, which throws on no stack. *)
Bear(stack, unbounded) ==
  [i \in DOMAIN stack |-> stack[i] \/ (unbounded /\ i = Len(stack))]
Throws(stack, unbounded) == unbounded /\ stack = <<>>

(* skipCharClass(): after [ or [^ a ] is a literal, so an empty class lasts *)
(* until the next one.                                                      *)
Skip(s, token) ==
  IF token \in {"class", "empty"} THEN [s EXCEPT !.inside = FALSE, !.last = "atom"] ELSE s

(* Mutant: a closed group does not mark the one around it. *)
CloseGroupForgetting(s) ==
  LET closed == s.stack # <<>> /\ Last(s.stack)
  IN  [s EXCEPT !.stack = Front(@), !.last = IF closed THEN "unboundedGroup" ELSE "atom"]

CloseGroup(s) ==
  LET closed == s.stack # <<>> /\ Last(s.stack)
      around == Front(s.stack)
  IN  [s EXCEPT !.stack   = Bear(around, closed),
                !.last    = IF closed THEN "unboundedGroup" ELSE "atom",
                !.refused = @ \/ Throws(around, closed)]

(* readQuantifier(): the braces of \u{61} pass for the quantifier of \u, so *)
(* the one that follows is read as an atom.                                 *)
ReadQuantifier(s, token) ==
  IF s.last = "point" THEN [s EXCEPT !.last = "none"]
  ELSE [s EXCEPT !.stack   = Bear(@, token = "+"),
                 !.last    = "none",
                 !.refused = \/ @
                             \/ s.last = "unboundedGroup" /\ token \in Repeats
                             \/ Throws(s.stack, token = "+")]

(* One turn of the loop of findDangerousConstruct(). *)
ScanToken(s, token) ==
  IF s.inside THEN Skip(s, token)
  ELSE CASE token \in {"atom", "class"} -> [s EXCEPT !.last = "atom"]
         [] token = "empty" -> [s EXCEPT !.inside = TRUE, !.last = "none"]
         [] token = "point" -> [s EXCEPT !.last = "point"]
         [] token = "("     -> [s EXCEPT !.stack = Append(@, FALSE), !.last = "none"]
         [] token = ")"     -> CloseGroup(s)
         [] OTHER           -> ReadQuantifier(s, token)

FindDangerousConstruct(pattern) ==
  LET scan[i \in 0..Len(pattern)] ==
        IF i = 0 THEN Scan ELSE ScanToken(scan[i - 1], pattern[i])
  IN  scan[Len(pattern)].refused

(* assertSafeKeyPattern() *)
Judge(pattern) ==
  /\ task = Idle
  /\ task' = [do |-> "judge", pattern |-> pattern,
              refused |-> FindDangerousConstruct(pattern)]

-----------------------------------------------------------------------------
Transform ==
  \/ \E v \in Values, s \in Specs : Mask(v, s)
  \/ \E t \in Texts, m \in MaxLengths : Truncate(t, m)
  \/ \E p \in Patterns : Judge(p)

TransformSpec == Init /\ [][Transform]_task

-----------------------------------------------------------------------------
(* What a spec hides of the head of a value: a character it counts, with at *)
(* least unmaskStart others before it and unmaskEnd after it.               *)
Counted(s, head, spec) ==
  {i \in 1..head : spec.scope = "digits" => s[i] \in Digits}
Hidden(s, head, spec) ==
  LET units == Counted(s, head, spec)
  IN  {i \in units : /\ Cardinality({j \in units : j < i}) >= spec.unmaskStart
                     /\ Cardinality({j \in units : j > i}) >= spec.unmaskEnd}

(* Both engines replace exactly what the spec hides, nothing more and       *)
(* nothing less, also where the kept ends overlap, and without              *)
(* preserveLength a hidden run longer than the cap does not tell its length *)
(* ("MUST stay byte-for-byte equivalent to apply_mask in the Rust engine",  *)
(* src/masking/maskSpec.ts:106).                                            *)
HidesExactlyTheRest ==
  task.do = "mask" /\ ~task.spec.redact =>
    LET s      == task.value
        hidden == Hidden(s, SplitKeptTail(s, task.spec.keepAfter), task.spec)
        plain  == [i \in DOMAIN s |-> IF i \in hidden THEN MaskChar ELSE s[i]]
        capped == task.spec.scope = "all" /\ ~task.spec.preserveLength
                    /\ Cardinality(hidden) > Cap
        masked == IF capped
                    THEN SubSeq(plain, 1, Min(hidden) - 1 + Cap)
                           \o SubSeq(plain, Max(hidden) + 1, Len(s))
                    ELSE plain
    IN  task.js = masked /\ task.native = masked

(* truncate() never cuts a character in two, keeps within the length it was *)
(* given when that has room for the dots, and keeps as many whole           *)
(* characters as fit (lib.rs).                                              *)
TruncatesBetweenCharacters ==
  task.do = "truncate" =>
    LET kept == task.result.kept
    IN  /\ \E k \in 0..Len(task.text) : kept = Bytes(SubSeq(task.text, 1, k))
        /\ task.result.cut /\ task.maxLen >= 3 => kept + 3 <= task.maxLen
        /\ \A k \in 1..Len(task.text) :
             LET longer == Bytes(SubSeq(task.text, 1, k))
             IN  longer > kept => longer + 3 > task.maxLen

(* The matching parentheses of a pattern. *)
Group(p, l, r) ==
  LET inside == SubSeq(p, l, r)
  IN  /\ p[l] = "(" /\ p[r] = ")" /\ Depth(inside, Len(inside)) = 0
      /\ \A k \in 1..Len(inside) - 1 : Depth(inside, k) > 0

(* The first k tokens repeat a group that has an unbounded quantifier       *)
(* somewhere inside, at any depth.                                          *)
Nested(p, k) ==
  \E l, r \in 1..k :
    /\ l < r /\ r < k /\ p[r + 1] \in Repeats
    /\ \E i \in l + 1..r - 1 : p[i] = "+"
    /\ Group(p, l, r)

(* The scan reads the first k tokens right, and no more. *)
Reads(p, k) ==
  (\A i \in 1..k : p[i] \notin Misread) /\ (k = Len(p) \/ p[k + 1] \in Misread)

(* A pattern that nests quantifiers before anything the scan misreads is    *)
(* refused, and one without anything it misreads is refused only for that   *)
(* (src/masking/regexSafety.ts:10).                                         *)
RefusesNestedQuantifiers ==
  task.do = "judge" =>
    LET p == task.pattern
    IN  \A k \in 0..Len(p) : Reads(p, k) =>
          /\ Nested(p, k) => task.refused
          /\ k = Len(p) /\ task.refused => Nested(p, k)
================================================================================
