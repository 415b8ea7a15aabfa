--------------------------------- MODULE Tasks ---------------------------------
(***************************************************************************)
(* Much of the framework is functions of their arguments, without state.   *)
(* In the modules that model these a behaviour performs one task, which    *)
(* records what was asked and what came of it, and stops.                  *)
(***************************************************************************)
VARIABLE task

Idle == [do |-> "nothing"]
Init == task = Idle
================================================================================
