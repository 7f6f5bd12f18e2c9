------------------------------ MODULE MCBundle ------------------------------
(* Instances of Bundle for TLC. *)
EXTENDS Bundle, TLC

CONSTANTS w1, w2

\* The bundle wallets are alike.
Alike == Permutations(Wallets)
=============================================================================
