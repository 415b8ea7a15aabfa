---------------------------- MODULE MCSerialization ----------------------------
(* Two instances in one process, a transport exempted by its name beside one *)
(* that is not; a transport whose key and name differ.                       *)
EXTENDS Serialization, TLC

CONSTANTS i1, i2, audit, console, ruleA, ruleB, function, lookahead, auditName, auditKey, consoleName

TwoInstances == {i1, i2}
AllRuleSets == {ruleA, ruleB, function, lookahead}
TwoTransports == {audit, console}
Names == (audit :> auditName) @@ (console :> consoleName)
Keys  == (audit :> auditKey) @@ (console :> consoleName)
AllAddons == {"absent", "legacy", "single", "dual"}
AllEntries == {"plain", "circular", "bigint", "surrogate", "hostile"}
Interchangeable == Permutations(TwoInstances)
================================================================================
