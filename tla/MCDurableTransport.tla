-------------------------- MODULE MCDurableTransport --------------------------
(* Values of the durable transport's constants, for TLC. *)
EXTENDS DurableTransport

AnyStrategy == {"oldest", "newest", "reject"}
Oldest      == {"oldest"}
NoEntry     == {}
FirstEntry  == {1}

(* What the surroundings may do. *)
Calm        == {}
Torn        == {"torn"}
InMemory    == {"deadline", "hookThrows"}
Hostile     == {"deadline", "hookThrows", "writeFails", "unreadable", "torn"}
=============================================================================
