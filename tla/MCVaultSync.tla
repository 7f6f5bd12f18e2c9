------------------------------ MODULE MCVaultSync -----------------------------
(* Instances of VaultSync for TLC. *)
EXTENDS VaultSync, TLC

CONSTANTS me, t1, t2, w1, k1, k2

TheContents == Content
Alike == {p @@ q : p \in Permutations({t1, t2}), q \in Permutations({k1, k2})}
=============================================================================
