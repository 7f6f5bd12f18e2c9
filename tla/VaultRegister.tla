---------------------------- MODULE VaultRegister -----------------------------
(***************************************************************************)
(* What the account store promises its clients: one list per address, that *)
(* changes in one step, and only for a client that names the rev of the    *)
(* list it replaces or takes away.                                         *)
(*                                                                         *)
(* VaultStore, with its lane, its several files and its crashes, implements*)
(* it; VaultSync, the dApp's side, is built on it.                         *)
(***************************************************************************)
EXTENDS Integers

CONSTANTS
  Account,      \* the account addresses
  Keys,         \* public ids of the encryption keys
  Contents,     \* what a list holds
  NoList        \* no list

VARIABLE list  \* [Account -> the list with its rev and key, or NoList]

RevOf(r) == IF r = NoList THEN 0 ELSE r.rev

\* PUT with baseRev b: a list keeps its key for as long as it stands.
CanSave(a, b, k) == /\ b = RevOf(list[a])
                    /\ list[a] # NoList => list[a].keyId = k
Saved(a, b, k, c) ==
  [list EXCEPT ![a] = [rev |-> b + 1, keyId |-> k, ct |-> c]]

\* DELETE with baseRev b.
CanDelete(a, b) == b = RevOf(list[a])
Deleted(a) == [list EXCEPT ![a] = NoList]

RegisterInit == list = [a \in Account |-> NoList]

RegisterNext ==
  \E a \in Account : LET b == RevOf(list[a]) IN
    \/ \E k \in Keys, c \in Contents :
         CanSave(a, b, k) /\ list' = Saved(a, b, k, c)
    \/ CanDelete(a, b) /\ list' = Deleted(a)

RegisterSpec == RegisterInit /\ [][RegisterNext]_list
=============================================================================
