--------------------------- MODULE DeliveryContract ---------------------------
(***************************************************************************)
(* What a durable transport promises to whoever logs through it, while its *)
(* process lives: an entry it accepted keeps its place until it gets one   *)
(* outcome, delivery or the dead-letter hook, and never another; and the   *)
(* entry delivered is always the oldest one that has no outcome yet.       *)
(* Entries are numbered in the order of the log() calls.                   *)
(***************************************************************************)
EXTENDS Naturals

CONSTANT MaxCalls      (* bound: log() calls *)

VARIABLES
  accepted,   \* entries the transport took charge of
  pending,    \* those without an outcome
  delivered,  \* those the executor succeeded on
  dropped     \* those handed to onDrop

vars == <<accepted, pending, delivered, dropped>>

Entries == 1..MaxCalls

Init == accepted = {} /\ pending = {} /\ delivered = {} /\ dropped = {}

(* A new entry is accepted; a full buffer may drop others for it. *)
Accept(e, victims) ==
  /\ \A x \in accepted : x < e
  /\ accepted' = accepted \cup {e}
  /\ pending' = (pending \ victims) \cup {e}
  /\ dropped' = dropped \cup victims
  /\ UNCHANGED delivered

Deliver(e) ==
  /\ \A x \in pending : e <= x
  /\ pending' = pending \ {e}
  /\ delivered' = delivered \cup {e}
  /\ UNCHANGED <<accepted, dropped>>

Drop(victims) ==
  /\ pending' = pending \ victims
  /\ dropped' = dropped \cup victims
  /\ UNCHANGED <<accepted, delivered>>

Next ==
  \/ \E e \in Entries, victims \in SUBSET pending : Accept(e, victims)
  \/ \E e \in pending : Deliver(e)
  \/ \E victims \in SUBSET pending : Drop(victims)

Spec == Init /\ [][Next]_vars

-----------------------------------------------------------------------------
(* Every accepted entry is in exactly one of the three states. *)
OneOutcome ==
  /\ accepted = pending \cup delivered \cup dropped
  /\ pending \cap (delivered \cup dropped) = {}
  /\ delivered \cap dropped = {}
=============================================================================
