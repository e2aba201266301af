-------------------------- MODULE MCPowerScheduler --------------------------
(* Finite instances of PowerScheduler; the configurations give the bounds. *)
EXTENDS PowerScheduler
=============================================================================
