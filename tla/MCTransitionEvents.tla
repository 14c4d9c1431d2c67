------------------------- MODULE MCTransitionEvents --------------------------
(* Instances of TransitionEvents for TLC. No action names an operation.      *)
EXTENDS TransitionEvents, TLC

Symmetry == Permutations(OpId)
=============================================================================
