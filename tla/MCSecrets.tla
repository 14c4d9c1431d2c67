------------------------------ MODULE MCSecrets ------------------------------
(* Two keys of one account, one of another, and one that is refused.         *)
EXTENDS Secrets, TLC

CONSTANTS k1, k2, k3, bad, a1, a2

MCAccountOf == k1 :> a1 @@ k2 :> a1 @@ k3 :> a2 @@ bad :> a2

Symmetry == Permutations(Call)
=============================================================================
