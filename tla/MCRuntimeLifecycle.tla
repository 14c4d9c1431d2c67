------------------------- MODULE MCRuntimeLifecycle --------------------------
(* Instances of RuntimeLifecycle for TLC. Operations and callers are         *)
(* interchangeable: no action orders or names them.                          *)
EXTENDS RuntimeCoupling, TLC

Symmetry == Permutations(OpId) \cup Permutations(Caller)
=============================================================================
