------------------------------ MODULE MCCampaign ------------------------------
(* Instances of Campaign for TLC. *)
EXTENDS Campaign, TLC

CONSTANTS c1, c2, m1, m2, s1, s2

Nothing == [c \in Ids |-> NoCampaign]
Owes(s, n) == [u \in Seeds |-> [st |-> IF u = s THEN "pending" ELSE "none",
                                att |-> 0, due |-> IF u = s THEN n ELSE 0]]
Old(s, n) == [status |-> "running", master |-> m1, since |-> n, fails |-> 0,
              tr |-> Owes(s, 1)]
\* A restored backup: two running campaigns on one wallet.
Restored == [c \in Ids |-> IF c = c1 THEN Old(s1, 1) ELSE Old(s2, 0)]
EmptyOrRestored == {Nothing, Restored}
JustEmpty == {Nothing}
Alike == Permutations(Ids) \cup Permutations(Masters) \cup Permutations(Seeds)
=============================================================================
