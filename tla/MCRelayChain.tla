----------------------------- MODULE MCRelayChain -----------------------------
(***************************************************************************)
(* Values of RelayChain's constants for TLC.                               *)
(***************************************************************************)
EXTENDS RelayChain

\* Fresh wallets hold nothing; seasoned ones hold more than a transfer orders.
NoEther == [i \in 1..N |-> 0]
Seasoned == [i \in 1..N |-> Fund + 1]
=============================================================================
