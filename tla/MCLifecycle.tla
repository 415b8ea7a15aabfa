------------------------------ MODULE MCLifecycle ------------------------------
(* Values of the lifecycle's constants, for TLC. *)
EXTENDS Lifecycle

(* What the surroundings may do. *)
Quiet  == {}
Throws == {"initFails", "readyThrows", "shuttingDownThrows", "drainedThrows",
           "shutdownThrows", "errorUnheard", "transportThrows", "hookThrows",
           "logThrows", "killThrows"}
================================================================================
