------------------------------- MODULE VaultSync ------------------------------
(***************************************************************************)
(* The dApp's side of the account store: frontend/src/dapp/account/        *)
(* vaultSync.js in every tab that has the account open, started and        *)
(* stopped by ui/App.jsx, ui/leaveAccount.js and account/account.js, over  *)
(* the wallets of keys/walletStore.js.                                     *)
(*                                                                         *)
(* The server is VaultRegister.  A call to it goes out, is served and      *)
(* comes back; either half may be lost, and a lost PUT may still be served *)
(* later.  The wallets are an add-wins observed-remove set: an import      *)
(* mints a tag, a removal names the tags the tab holds.                    *)
(*                                                                         *)
(* Left out: the positions, which ride along; the age of tombstones (30    *)
(* days) and the caps on tags; a copy that does not decrypt.  A tab is a   *)
(* device of its own: two tabs of one browser would share the session.     *)
(***************************************************************************)
EXTENDS VaultRegister, FiniteSets

CONSTANTS
  Me,         \* the account: Account is {Me}
  Tabs, Wallets,
  None,
  MaxActs, MaxLosses, MaxDeletes  \* bounds: visitors' acts, losses, deletions

\* The copy, as normalizeContent() compares it: a wallet is in it while it has
\* a tag no tombstone names.
Nowhere == [w \in Wallets |-> {}]
Content == [live: [Wallets -> SUBSET Nat], dead: [Wallets -> SUBSET Nat]]
Empty == [live |-> Nowhere, dead |-> Nowhere]
In(ct) == {w \in Wallets : ct.live[w] # {}}

Puts == [op: {"put"}, base: Nat, key: Keys, ct: Content, life: Nat]
Lists == [rev: Nat, keyId: Keys, ct: Content] \cup {NoList}
Calls == Puts \cup [op: {"get", "lost", "conflict", "key_mismatch", "no_session"}]
         \cup [op: {"got"}, copy: Lists, life: Nat]
         \cup [op: {"saved"}, rev: Nat, ct: Content, life: Nat]

ASSUME SyncAssumption ==
  /\ Account = {Me}
  /\ None \notin Calls \cup Nat \cup Content \cup Keys
  /\ NoList \notin [rev: Nat, keyId: Keys, ct: Content]
  /\ {MaxActs, MaxLosses, MaxDeletes} \subseteq Nat

VARIABLES
  tab,     \* [Tabs -> what the tab keeps], see Tab
  late,    \* PUTs the tab gave up on, which the server may still get
  minted,  \* [Wallets -> tags minted]
  \* What the properties speak of.
  seen,    \* [Tabs -> [Wallets -> the tags this sync has held]]
  dropped, \* [Wallets -> tags whose holder removed the wallet]
  lifeOf,  \* [Tabs -> life when the copy behind tab's rev was read or written]
  life,    \* deletions of the copy
  clobbered, \* a PUT was accepted whose base was a rev of a deleted copy
  pressed, \* [Tabs -> the wallets held when Lock was pressed]
  acts, losses
ghosts == <<seen, dropped, lifeOf, life, clobbered, pressed>>
syncVars == <<list, tab, late, minted, ghosts, acts, losses>>

Tab == [sync: {"off", "on", "blocked"},
        session: {"good", "stale", "out"}, \* stale: over, and the tab was not told
        key: Keys \cup {None},
        held: SUBSET Wallets,              \* walletStore
        untagged: SUBSET Wallets,          \* held since before the first read
        tags: [Wallets -> SUBSET Nat],     \* tagsOf
        tombs: [Wallets -> SUBSET Nat],
        rev: Nat \cup {None},
        known: Content \cup {None},        \* lastDigest
        want: BOOLEAN,                     \* a save, or the first load, is to come
        call: Calls \cup {None},           \* the call that is out
        leave: {"no", "due", "out", "saved", "failed"}] \* Lock's flush

Closed == [sync |-> "off", session |-> "out", key |-> None, held |-> {}, untagged |-> {},
           tags |-> Nowhere, tombs |-> Nowhere, rev |-> None, known |-> None,
           want |-> FALSE, call |-> None, leave |-> "no"]

SavedCopy == list[Me]
SavedContent == IF SavedCopy = NoList THEN Empty ELSE SavedCopy.ct
On(t) == tab[t].sync = "on"
Out(t) == IF tab[t].call # None THEN tab[t].call.op ELSE "none"

\* localContent()
Local(s) == [live |-> [w \in Wallets |-> IF w \in s.held THEN s.tags[w] \ s.tombs[w] ELSE {}],
             dead |-> s.tombs]

SyncInit ==
  /\ RegisterInit
  /\ tab = [t \in Tabs |-> Closed] /\ late = {} /\ minted = [w \in Wallets |-> 0]
  /\ seen = [t \in Tabs |-> Nowhere] /\ dropped = Nowhere
  /\ lifeOf = [t \in Tabs |-> 0] /\ life = 0 /\ clobbered = FALSE
  /\ pressed = [t \in Tabs |-> {}]
  /\ acts = 0 /\ losses = 0

Set(t, s) == tab' = [tab EXCEPT ![t] = s]
\* The tab is now s; the properties remember the tags it holds.
Step(t, s) ==
  /\ Set(t, s)
  /\ seen' = [seen EXCEPT ![t] = [w \in Wallets |-> @[w] \cup s.tags[w]]]
\* A sync ends or begins.
Over(t) == /\ seen' = [seen EXCEPT ![t] = Nowhere] /\ lifeOf' = [lifeOf EXCEPT ![t] = 0]
           /\ pressed' = [pressed EXCEPT ![t] = {}]
Act == acts < MaxActs /\ acts' = acts + 1 /\ UNCHANGED losses
Loss == losses < MaxLosses /\ losses' = losses + 1 /\ UNCHANGED acts
Quiet == UNCHANGED <<acts, losses>>

\* The request of a sync that is stopped or lost stays on its way.
GivenUp(t) == IF Out(t) = "put" THEN {tab[t].call} ELSE {}
\* createVaultSync() and its load(): the wallets the tab holds have no tags yet.
Started(s) == [s EXCEPT !.sync = "on", !.untagged = s.held, !.tags = Nowhere, !.tombs = Nowhere,
                        !.rev = None, !.known = None, !.want = TRUE, !.call = None, !.leave = "no"]
\* stop(): the wallets stay.
Stopped(s) == [Closed EXCEPT !.session = s.session, !.held = s.held]
\* block(): nothing is saved any more.
Blocked(s) == [s EXCEPT !.sync = "blocked", !.want = FALSE, !.call = None,
                        !.leave = IF @ = "no" THEN @ ELSE "failed"]
\* failed(): a flush that waits for this save is told; one that waited for the
\* first load goes on to a load of its own.
Refused(s) == {[s EXCEPT !.call = None, !.leave = l] :
                 l \in IF s.leave = "no" THEN {"no"}
                       ELSE {"failed"} \cup {l \in {s.leave} : l = "due" /\ s.rev = None}}
----------------------------------------------------------------------------
(* What the visitor does. *)

\* Connect, sign in, unlock: the key is the one the copy is locked with, when
\* there is a copy.
Open(t) ==
  /\ Act /\ tab[t].sync = "off"
  /\ \E k \in IF SavedCopy = NoList THEN Keys ELSE {SavedCopy.keyId} :
       Set(t, Started([tab[t] EXCEPT !.session = "good", !.key = k]))
  /\ UNCHANGED <<list, late, minted, ghosts>>

\* The page is closed or reloaded.
Close(t) ==
  /\ Act /\ tab[t] # Closed
  /\ Set(t, Closed) /\ late' = late \cup GivenUp(t) /\ Over(t)
  /\ UNCHANGED <<list, minted, dropped, life, clobbered>>

\* addWallets(): an import, also of a wallet already here, gets a fresh tag.
Import(t, w) ==
  /\ Act
  /\ LET s == tab[t] IN
     IF s.sync = "off"
     THEN Set(t, [s EXCEPT !.held = @ \cup {w}]) /\ UNCHANGED <<minted, seen>>
     ELSE /\ Step(t, [s EXCEPT !.held = @ \cup {w}, !.untagged = @ \ {w},
                               !.tags[w] = {minted[w] + 1}, !.want = s.sync = "on"])
          /\ minted' = [minted EXCEPT ![w] = @ + 1]
  /\ UNCHANGED <<list, late, dropped, lifeOf, life, clobbered, pressed>>

\* A wallet is taken out: its tombstone names the tags the tab holds for it.
Remove(t, w) ==
  /\ Act /\ w \in tab[t].held
  /\ LET s == tab[t] IN
     /\ Set(t, [s EXCEPT !.held = @ \ {w}, !.untagged = @ \ {w}, !.tags[w] = {},
                         !.tombs[w] = @ \cup s.tags[w], !.want = s.sync = "on"])
     /\ dropped' = IF s.tags[w] = {} THEN dropped
                   ELSE [dropped EXCEPT ![w] = @ \cup seen[t][w]]
  /\ pressed' = [pressed EXCEPT ![t] = @ \ {w}]
  /\ UNCHANGED <<list, late, minted, seen, lifeOf, life, clobbered>>

\* Sign in again, offered once a call was refused for the session; then retry().
SignInAgain(t) ==
  /\ Quiet /\ On(t) /\ tab[t].session = "out" /\ tab[t].call = None /\ tab[t].leave = "no"
  /\ Set(t, [tab[t] EXCEPT !.session = "good", !.want = TRUE])
  /\ UNCHANGED <<list, late, minted, ghosts>>

\* Delete saved copy: the sync is stopped, then the DELETE names the rev the
\* session route just gave, and revokes every session of the account.
DeleteSaved(t) ==
  /\ Quiet /\ life < MaxDeletes /\ tab[t].session = "good" /\ tab[t].leave = "no"
  /\ list' = Deleted(Me) /\ late' = {} /\ life' = life + 1 /\ Over(t)
  /\ tab' = [u \in Tabs |->
       IF u = t THEN [Stopped(tab[t]) EXCEPT !.session = "out"]
       ELSE [tab[u] EXCEPT !.session = IF @ = "good" THEN "stale" ELSE @]]
  /\ UNCHANGED <<minted, dropped, clobbered>>

\* A DELETE that failed: a new sync is started for the same key.
DeleteFails(t) ==
  /\ Loss /\ tab[t].sync # "off" /\ tab[t].leave = "no"
  /\ Set(t, Started(tab[t])) /\ late' = late \cup GivenUp(t) /\ Over(t)
  /\ UNCHANGED <<list, minted, dropped, life, clobbered>>

\* Mutant: the save that is out counts as the flush.
LeaveStartJoins(t) ==
  /\ Act /\ On(t) /\ tab[t].leave = "no"
  /\ Set(t, [tab[t] EXCEPT !.leave = IF Out(t) \in {"put", "saved"} THEN "out" ELSE "due"])
  /\ pressed' = [pressed EXCEPT ![t] = tab[t].held]
  /\ UNCHANGED <<list, late, minted, seen, dropped, lifeOf, life, clobbered>>

\* Lock, Disconnect, Switch: flush() first.
LeaveStart(t) ==
  /\ Act /\ On(t) /\ tab[t].leave = "no"
  /\ Set(t, [tab[t] EXCEPT !.leave = "due"])
  /\ pressed' = [pressed EXCEPT ![t] = tab[t].held]
  /\ UNCHANGED <<list, late, minted, seen, dropped, lifeOf, life, clobbered>>

\* The save went well, or the visitor said to go on without it: the sync is
\* stopped, the account locked, the wallets leave the tab.
LeaveEnd(t) ==
  /\ Quiet /\ tab[t].leave \in {"saved", "failed"}
  /\ Set(t, [Stopped(tab[t]) EXCEPT !.held = {}]) /\ Over(t)
  /\ UNCHANGED <<list, late, minted, dropped, life, clobbered>>

\* The visitor said no.
LeaveOff(t) ==
  /\ Quiet /\ tab[t].leave = "failed"
  /\ Set(t, [tab[t] EXCEPT !.leave = "no"]) /\ pressed' = [pressed EXCEPT ![t] = {}]
  /\ UNCHANGED <<list, late, minted, seen, dropped, lifeOf, life, clobbered>>
----------------------------------------------------------------------------
(* load(), pull() and apply(). *)

\* A call by a tab whose session is known to be over is refused at once.
Issue(s, c) == IF s.session = "out" THEN [op |-> "no_session"] ELSE c
Idle(t) == On(t) /\ tab[t].call = None /\ tab[t].leave \notin {"saved", "failed"}
Due(t) == tab[t].want \/ tab[t].leave \in {"due", "out"}

LoadStart(t) ==
  /\ Quiet /\ Idle(t) /\ Due(t) /\ tab[t].rev = None
  /\ Set(t, [tab[t] EXCEPT !.want = FALSE, !.call = Issue(tab[t], [op |-> "get"]),
                           !.leave = IF @ = "due" THEN "out" ELSE @])
  /\ UNCHANGED <<list, late, minted, ghosts>>

GetServed(t) ==
  /\ Quiet /\ Out(t) = "get"
  /\ Set(t, [tab[t] EXCEPT !.call =
       IF tab[t].session = "good" THEN [op |-> "got", copy |-> SavedCopy, life |-> life]
       ELSE [op |-> "no_session"]])
  /\ UNCHANGED <<list, late, minted, ghosts>>

\* Mutant: the copy's wallets are not taken over.
AppliedOwnOnly(s, ct) ==
  LET tags == [w \in Wallets |-> IF w \in s.untagged THEN {minted[w] + 1} ELSE s.tags[w] \ ct.dead[w]]
  IN [s EXCEPT !.untagged = {}, !.tags = tags, !.tombs = [w \in Wallets |-> @[w] \cup ct.dead[w]],
               !.held = {w \in Wallets : tags[w] # {}}]
\* Mutant: the copy's tombstones are obeyed and forgotten.
AppliedTombsForgotten(s, ct) ==
  LET tags == [w \in Wallets |->
                 IF w \in s.untagged THEN IF ct.live[w] # {} THEN ct.live[w] ELSE {minted[w] + 1}
                 ELSE (s.tags[w] \cup ct.live[w]) \ (s.tombs[w] \cup ct.dead[w])]
  IN [s EXCEPT !.untagged = {}, !.tags = tags, !.held = {w \in Wallets : tags[w] # {}}]

\* apply(): the copy's tombstones join the tab's; a wallet no reading has tagged
\* takes the copy's tags, or a fresh one; any other keeps its tags and the
\* copy's, less the tombstoned, and goes when none is left.
Applied(s, ct) ==
  LET dead == [w \in Wallets |-> s.tombs[w] \cup ct.dead[w]]
      remote == [w \in Wallets |-> ct.live[w] \ dead[w]]
      tags == [w \in Wallets |->
                 IF w \notin s.untagged THEN (s.tags[w] \cup remote[w]) \ dead[w]
                 ELSE IF remote[w] # {} THEN remote[w] ELSE {minted[w] + 1}]
  IN [s EXCEPT !.untagged = {}, !.tags = tags, !.tombs = dead,
               !.held = {w \in Wallets : tags[w] # {}}]

\* pull() has its answer.  What is not in the copy yet is to be saved.
GetBack(t) ==
  /\ Quiet /\ Out(t) = "got"
  /\ LET s == tab[t]
         copy == s.call.copy
         ct == IF copy = NoList THEN Empty ELSE copy.ct
         read == [Applied(s, ct) EXCEPT
                    !.rev = RevOf(copy), !.call = None,
                    !.known = IF copy = NoList THEN None ELSE ct]
     IN IF copy # NoList /\ copy.keyId # s.key
        THEN Set(t, Blocked(s)) /\ UNCHANGED <<minted, seen, lifeOf, pressed>>
        ELSE /\ Step(t, [read EXCEPT !.want = @ \/ Local(read) # read.known])
             /\ minted' = [w \in Wallets |->
                  IF read.tags[w] = {minted[w] + 1} THEN minted[w] + 1 ELSE minted[w]]
             /\ lifeOf' = [lifeOf EXCEPT ![t] = s.call.life]
             /\ pressed' = [pressed EXCEPT ![t] = @ \cap read.held]
  /\ UNCHANGED <<list, late, dropped, life, clobbered>>
----------------------------------------------------------------------------
(* saveOnce() and run(). *)

\* Nothing is sent when the server holds this content already.
SaveStart(t) ==
  /\ Quiet /\ Idle(t) /\ Due(t) /\ tab[t].rev # None
  /\ LET s == tab[t]
         put == [op |-> "put", base |-> s.rev, key |-> s.key, ct |-> Local(s),
                 life |-> lifeOf[t]]
     IN Set(t, IF Local(s) = s.known
               THEN [s EXCEPT !.want = FALSE, !.leave = IF @ = "no" THEN @ ELSE "saved"]
               ELSE [s EXCEPT !.want = FALSE, !.call = Issue(s, put),
                              !.leave = IF @ = "due" THEN "out" ELSE @])
  /\ UNCHANGED <<list, late, minted, ghosts>>

\* The server takes PUT p.
Accept(p) ==
  /\ CanSave(Me, p.base, p.key)
  /\ list' = Saved(Me, p.base, p.key, p.ct)
  /\ clobbered' = (clobbered \/ p.life # life)

PutServed(t) ==
  /\ Quiet /\ Out(t) = "put"
  /\ LET s == tab[t]
         p == s.call
         Answer(c) == Set(t, [s EXCEPT !.call = c])
         Refuse(code) == Answer([op |-> code]) /\ UNCHANGED <<list, clobbered>>
     IN \/ /\ s.session = "good" /\ Accept(p)
           /\ Answer([op |-> "saved", rev |-> p.base + 1, ct |-> p.ct, life |-> life])
        \/ /\ s.session = "good" /\ p.base # RevOf(SavedCopy)
           /\ Refuse("conflict")
        \/ /\ s.session = "good" /\ p.base = RevOf(SavedCopy)
           /\ SavedCopy # NoList /\ SavedCopy.keyId # p.key
           /\ Refuse("key_mismatch")
        \/ s.session # "good" /\ Refuse("no_session")
  /\ UNCHANGED <<late, minted, seen, dropped, lifeOf, life, pressed>>

\* A PUT its tab has given up on arrives after all; a refusal changes nothing.
LateServed(p) ==
  /\ Quiet /\ p \in late /\ late' = late \ {p} /\ Accept(p)
  /\ UNCHANGED <<tab, minted, seen, dropped, lifeOf, life, pressed>>

\* Mutant: what changed during the save counts as saved.
PutSavedAll(t) ==
  /\ Quiet /\ Out(t) = "saved"
  /\ LET s == tab[t] IN
       Set(t, [s EXCEPT !.rev = s.call.rev, !.known = s.call.ct, !.call = None, !.want = FALSE,
                        !.leave = IF @ # "out" THEN @ ELSE "saved"])
  /\ lifeOf' = [lifeOf EXCEPT ![t] = tab[t].call.life]
  /\ UNCHANGED <<list, late, minted, seen, dropped, life, clobbered, pressed>>

\* 200.  A flush whose run has to go round again is not done yet.
PutSaved(t) ==
  /\ Quiet /\ Out(t) = "saved"
  /\ LET s == tab[t] IN \E again \in {FALSE, s.want} :
       Set(t, [s EXCEPT !.rev = s.call.rev, !.known = s.call.ct, !.call = None,
                        !.leave = IF @ # "out" THEN @ ELSE IF again THEN "due" ELSE "saved"])
  /\ lifeOf' = [lifeOf EXCEPT ![t] = tab[t].call.life]
  /\ UNCHANGED <<list, late, minted, seen, dropped, life, clobbered, pressed>>

\* Mutant: a conflict is final.
PutConflictsOnce(t) ==
  /\ Quiet /\ Out(t) = "conflict"
  /\ \E s \in Refused(tab[t]) : Set(t, s)
  /\ UNCHANGED <<list, late, minted, ghosts>>

\* 409: another tab saved first.  The copy is read and merged, then the next round.
PutConflicts(t) ==
  /\ Quiet /\ Out(t) = "conflict"
  /\ Set(t, [tab[t] EXCEPT !.want = TRUE, !.call = Issue(tab[t], [op |-> "get"])])
  /\ UNCHANGED <<list, late, minted, ghosts>>

PutMismatches(t) ==
  /\ Quiet /\ Out(t) = "key_mismatch"
  /\ Set(t, Blocked(tab[t]))
  /\ UNCHANGED <<list, late, minted, ghosts>>

\* 401: not retried before the visitor signs in again.
SessionIsOver(t) ==
  /\ Quiet /\ Out(t) = "no_session"
  /\ \E s \in Refused(tab[t]) : Set(t, [s EXCEPT !.session = "out"])
  /\ UNCHANGED <<list, late, minted, ghosts>>

\* No answer, a 429 or a 5xx: scheduleRetry().
CallFails(t) ==
  /\ Quiet /\ Out(t) = "lost"
  /\ \E s \in Refused(tab[t]) : Set(t, [s EXCEPT !.want = TRUE])
  /\ UNCHANGED <<list, late, minted, ghosts>>

\* The request or its answer is lost.
Lose(t) ==
  /\ Loss /\ Out(t) \in {"get", "got", "put", "saved"}
  /\ Set(t, [tab[t] EXCEPT !.call = [op |-> "lost"]]) /\ late' = late \cup GivenUp(t)
  /\ UNCHANGED <<list, minted, ghosts>>

\* The session reaches its end.
Expire(t) ==
  /\ Loss /\ On(t) /\ tab[t].session = "good"
  /\ Set(t, [tab[t] EXCEPT !.session = "stale"])
  /\ UNCHANGED <<list, late, minted, ghosts>>
----------------------------------------------------------------------------
Work(t) == \/ LoadStart(t) \/ GetServed(t) \/ GetBack(t) \/ SaveStart(t) \/ PutServed(t)
           \/ PutSaved(t) \/ PutConflicts(t) \/ PutMismatches(t) \/ SessionIsOver(t)
           \/ CallFails(t)
Visit(t) == \/ Open(t) \/ Close(t) \/ SignInAgain(t) \/ DeleteSaved(t) \/ LeaveStart(t)
            \/ LeaveOff(t) \/ \E w \in Wallets : Import(t, w) \/ Remove(t, w)
SyncNext == \/ \E t \in Tabs : Work(t) \/ Visit(t) \/ LeaveEnd(t)
                                \/ DeleteFails(t) \/ Lose(t) \/ Expire(t)
            \/ \E p \in late : LateServed(p)

SyncSpec == SyncInit /\ [][SyncNext]_syncVars

\* Timers fire, calls settle, and a leave that may go on does.
SyncFairSpec == /\ SyncSpec
                /\ \A t \in Tabs : WF_syncVars(Work(t)) /\ WF_syncVars(LeaveEnd(t))
----------------------------------------------------------------------------
SyncTypeOK ==
  /\ list \in [Account -> Lists] /\ tab \in [Tabs -> Tab]
  /\ \A t \in Tabs : tab[t].untagged \subseteq tab[t].held
  /\ late \subseteq Puts /\ minted \in [Wallets -> Nat]
  /\ seen \in [Tabs -> [Wallets -> SUBSET Nat]] /\ dropped \in [Wallets -> SUBSET Nat]
  /\ lifeOf \in [Tabs -> Nat] /\ life \in 0..MaxDeletes /\ clobbered \in BOOLEAN
  /\ pressed \in [Tabs -> SUBSET Wallets]
  /\ acts \in 0..MaxActs /\ losses \in 0..MaxLosses

\* A wallet leaves the copy only when every import of it there was one that a
\* tab removing it had held: tabs that save over each other, lost answers and
\* late PUTs lose no wallet.  (vaultSync.js: "an import it had not seen survives")
Survives(ct, after) == \A w \in In(ct) \ In(after) : ct.live[w] \subseteq dropped[w]
SavedWalletStays ==
  [][SavedCopy' = NoList \/ clobbered' \/ Survives(SavedContent, SavedContent')]_syncVars

\* The same without the exception for a PUT based on a deleted copy's rev.
UnseenImportSurvives == [][SavedCopy' = NoList \/ Survives(SavedContent, SavedContent')]_syncVars

\* A tombstone in the copy is in every later version of it, so a removal that
\* was saved is not undone by a tab that had not heard of it.
RemovalsStay ==
  [][SavedCopy' = NoList \/ clobbered' \/ \A w \in Wallets :
       SavedContent.dead[w] \subseteq SavedContent'.dead[w]]_syncVars

\* A tab that holds something the server is not known to have, and may save,
\* has a save to come or a call out.
NothingUnsavedIsForgotten ==
  \A t \in Tabs : LET s == tab[t] IN
    On(t) /\ s.session # "out" /\ ~s.want /\ s.call = None /\ s.leave = "no"
      => s.rev # None /\ Local(s) = s.known

\* The wallets in the tab when Lock was pressed leave it unasked only if the
\* server holds them.
LeavingSavesFirst ==
  \A t \in Tabs : tab[t].leave = "saved"
    => pressed[t] \cap tab[t].held \subseteq In(tab[t].known)

\* Nothing unsaved leaves the tab unless the visitor was asked.
LeavingAsks ==
  \A t \in Tabs : tab[t].leave = "saved" => tab[t].held \subseteq In(tab[t].known)

\* An import nobody removed, in a tab that stays and keeps its session, gets
\* into the copy, or the copy is one a PUT wrote over.
Kept(t, w) == /\ w \in tab[t].held /\ On(t) /\ tab[t].session = "good"
              /\ w \in tab[t].untagged \/ ~(tab[t].tags[w] \subseteq dropped[w])
ImportReachesTheCopy ==
  \A t \in Tabs, w \in Wallets :
    Kept(t, w) ~> (w \in In(SavedContent) \/ ~Kept(t, w) \/ clobbered)
=============================================================================
