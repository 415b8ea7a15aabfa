------------------------------- MODULE MCLogging -------------------------------
(* Values of the constants of the loggers and their factory, for TLC.       *)
(* A console on every route, an archive that only the audit route has and   *)
(* names find, and a console for debugging that has the archive's name.     *)
EXTENDS Logging

CONSTANTS Console, Archive, Debug

AllTransports == {Console, Archive, Debug}
AllNames      == {"console", "archive", "unknown"}
TheirNames    == (Console :> "console" @@ Archive :> "archive" @@ Debug :> "archive")
TheirLevels   == (Console :> "info" @@ Archive :> "error" @@ Debug :> "info")
ConfiguredPool == [console |-> Console, archive |-> Archive]
AuditRoute    == [default |-> {Console}, audit |-> {Console, Archive}]
OneRoute      == [default |-> {Console}]
DebugConsole  == {Debug}
NoTransport   == {}

ThreeNames    == {"default", "audit", "app"}
TwoNames      == {"default", "audit"}
OneName       == {"app"}

OnlyArchive   == [do |-> "override", names |-> {"archive"}]
BothByName    == [do |-> "override", names |-> {"archive", "console"}]
PlusArchive   == [do |-> "add", names |-> {"archive"}]
MinusConsole  == [do |-> "remove", names |-> {"console"}]
SomeOperations == {OnlyArchive, PlusArchive, MinusConsole}
AllOperations == {OnlyArchive, BothByName, PlusArchive, MinusConsole}

(* What the surroundings may do. *)
Calm     == {}
Shutdown == {"shutdown"}
Faults   == {"serializationThrows", "transportThrows", "hookThrows"}
================================================================================
