----------------------------- MODULE MCKeystore -----------------------------
(* Small instances of Keystore: keys are alike.                            *)
EXTENDS Keystore, TLC

CONSTANTS k1, k2, k3

Alike == Permutations(Keys)
=============================================================================
