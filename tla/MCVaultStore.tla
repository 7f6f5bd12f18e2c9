----------------------------- MODULE MCVaultStore -----------------------------
(* Instances of VaultStore for TLC. *)
EXTENDS VaultStore, TLC

CONSTANTS a1, a2, k1, k2, b1, b2

\* One record is one unit of the budgets, or one is twice the other.
EvenSizes == b1 :> 1
TwoSizes == (b1 :> 1) @@ (b2 :> 2)
AddrSymmetry == Permutations({a1, a2})
=============================================================================
