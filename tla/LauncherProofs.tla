--------------------------- MODULE LauncherProofs ---------------------------
(***************************************************************************)
(* Proofs about Launcher for any number of nonces, launches, transfers,    *)
(* faults, restarts and lost requests:                                     *)
(*   - the types, with what the handlers and the transactions refer to;    *)
(*   - no two launches can both be mined (OneLaunchCanMine);               *)
(*   - one handler at a time has the key (OneSpender);                     *)
(*   - a live launch keeps its marker (LiveLaunchIsGuarded), as long as    *)
(*     /resolve is asked of the parked launch;                             *)
(*   - the launcher's own sends leave no hole (Gapless).                   *)
(*                                                                         *)
(* What the first of them rests on: a launch is signed at a nonce the node *)
(* said was mined past or next, and the mined count never falls, so every  *)
(* launch there ever was has a nonce the count has reached.  The last      *)
(* rests on this: what was read as pending has no hole before it, then and *)
(* ever after.                                                             *)
(***************************************************************************)
EXTENDS Launcher, FiniteSetTheorems, TLAPS

SentOrSoon == {"signed", "waiting", "tail", "unknown"}

\* What is signed fits, and every launch anywhere is one that was signed.
Numbered ==
  /\ hs["launch"].pc = "reading" => Len(signedAt) < MaxLaunches
  /\ hs["launch"].pc \in SentOrSoon => Len(signedAt) > 0
  /\ \A n \in Nonces : pool[n].kind = "launch" => pool[n].id \in 1..Len(signedAt)
  /\ \A w \in wire : w.tx.kind = "launch" => w.tx.id \in 1..Len(signedAt)
  /\ \A h \in Handlers :
       /\ IF hs[h].pc = "signed"
          THEN /\ hs[h].nonce \in Nonces /\ hs[h].sent < Batch
               /\ h = "bundle" => hs[h].nonce + Batch <= MaxNonce
          ELSE hs[h].sent = 0
       /\ h # "bundle" => hs[h].sent = 0
       /\ h # "action" => hs[h].act # "cancel"

TypeInv == TypeOK /\ Numbered
-----------------------------------------------------------------------------
(* The node's counts                                                       *)

LEMMA PendingType ==
  ASSUME TypeOK
  PROVE  /\ Pending \in Counts /\ Pending >= count
         /\ Pending = count /\ count < MaxNonce => pool[count] = Empty
<1>. DEFINE S == {n \in count..(MaxNonce - 1) : \A m \in count..n : pool[m] # Empty}
<1>1. count \in Nat /\ MaxNonce \in Nat /\ count <= MaxNonce
  BY LauncherAssumption DEF TypeOK, Counts
<1>2. /\ IsFiniteSet(count..(MaxNonce - 1))
      /\ Cardinality(count..(MaxNonce - 1)) = MaxNonce - count
  <2>1. count \in Int /\ MaxNonce - 1 \in Int
    BY <1>1
  <2>2. /\ IsFiniteSet(count..(MaxNonce - 1))
        /\ Cardinality(count..(MaxNonce - 1))
             = IF count > MaxNonce - 1 THEN 0 ELSE (MaxNonce - 1) - count + 1
    BY <2>1, FS_Interval, Zenon
  <2>. QED BY <1>1, <2>2
<1>3. IsFiniteSet(S) /\ Cardinality(S) <= MaxNonce - count
  BY <1>2, FS_Subset
<1>4. Cardinality(S) \in Nat
  BY <1>3, FS_CardinalityType
<1>5. Cardinality(S) = 0 => S = {}
  BY <1>3, FS_EmptySet
<1>6. Pending = count + Cardinality(S)
  BY DEF Pending
<1>7. ASSUME S = {}, count < MaxNonce PROVE pool[count] = Empty
  <2>1. count \in count..(MaxNonce - 1)
    BY <1>1, <1>7
  <2>2. count..count = {count}
    BY <1>1
  <2>. QED BY <2>1, <2>2, <1>7
<1>. QED
  BY <1>1, <1>3, <1>4, <1>5, <1>6, <1>7 DEF Counts

LEMMA FreshType == Fresh \in HandlerRecords
BY LauncherAssumption DEF Fresh, HandlerRecords, Acts, Counts, Unread

LEMMA InitTypes == Init => TypeInv
<1>. SUFFICES ASSUME Init PROVE TypeInv
  OBVIOUS
<1>1. count \in Counts /\ hs \in [Handlers -> HandlerRecords] /\ faults \in 0..MaxFaults
  BY FreshType, LauncherAssumption DEF Init, Counts
<1>2. pool \in [Nonces -> Txs \cup {Empty}] /\ signedAt \in Seq(Nonces) /\ Len(signedAt) = 0
  BY DEF Init
<1>3. TypeOK
  <2>1. mined \subseteq 1..MaxLaunches /\ wire \subseteq [nonce : Nonces, tx : Txs]
    BY DEF Init
  <2>2. Len(signedAt) <= MaxLaunches
    BY <1>2, LauncherAssumption
  <2>3. /\ asked \in Marker \cup {NoMark} /\ parked \in Marker \cup {NoMark}
        /\ job \in {"none", "running", "ended"} /\ grace \in BOOLEAN
        /\ exits \subseteq Exits /\ evicted \subseteq Nonces /\ loose \subseteq 1..MaxLaunches
    BY DEF Init
  <2>. QED BY <1>1, <1>2, <2>1, <2>2, <2>3 DEF TypeOK
<1>4. hs["launch"] = Fresh /\ \A h \in Handlers : hs[h] = Fresh
  BY DEF Init, Handlers, Signers
<1>5. Numbered
  BY <1>2, <1>4 DEF Init, Numbered, Fresh, Empty, SentOrSoon, Handlers, Signers
<1>. QED BY <1>3, <1>5 DEF TypeInv

\* A handler that changes keeps the types when its new record has one.
LEMMA HandlerChanges ==
  ASSUME TypeOK, NEW h \in Handlers, NEW r \in HandlerRecords, hs' = [hs EXCEPT ![h] = r]
  PROVE  /\ hs' \in [Handlers -> HandlerRecords]
         /\ hs'[h] = r
         /\ \A g \in Handlers \ {h} : hs'[g] = hs[g]
BY DEF TypeOK

\* What is sent, and at what nonce.
LEMMA SendType ==
  ASSUME TypeInv, NEW h \in Signers, hs[h].pc = "signed"
  PROVE  /\ At(h) \in Nonces /\ Tx(h) \in Txs
         /\ Tx(h).kind = "launch" <=> h = "launch"
         /\ Tx(h).kind = "launch" => Tx(h).id = Len(signedAt) /\ Tx(h).id \in 1..Len(signedAt)
         /\ h = "launch" => At(h) = hs[h].nonce
<1>1. /\ hs[h] \in HandlerRecords /\ h \in Handlers
      /\ hs[h].sent \in 0..Batch /\ hs[h].nonce \in Nonces /\ hs[h].sent < Batch
      /\ h = "bundle" => hs[h].nonce + Batch <= MaxNonce
      /\ h # "bundle" => hs[h].sent = 0
  BY DEF TypeInv, TypeOK, Numbered, Handlers, Signers, HandlerRecords
<1>2. At(h) \in Nonces
  BY <1>1, LauncherAssumption DEF At, Nonces
<1>3. Len(signedAt) \in Nat /\ Len(signedAt) <= MaxLaunches
  BY DEF TypeInv, TypeOK
<1>4. h = "launch" => Len(signedAt) \in 1..Len(signedAt)
  BY <1>3 DEF TypeInv, Numbered, SentOrSoon
<1>5. Tx(h) \in Txs
  BY <1>3, LauncherAssumption DEF Tx, Txs
<1>. QED BY <1>1, <1>2, <1>4, <1>5, LauncherAssumption DEF Tx, At, Nonces

\* The handler once its request is answered, or is not.
LEMMA AfterSend ==
  ASSUME TypeInv, NEW h \in Signers, hs[h].pc = "signed", Answered(h) \/ Threw(h)
  PROVE  /\ \E r \in HandlerRecords :
              /\ hs' = [hs EXCEPT ![h] = r]
              /\ r.pc \in {"idle", "signed", "waiting", "unknown"} /\ r.act \in {"none", hs[h].act}
              /\ r.lat \in {Unread, hs[h].lat}
              /\ IF r.pc = "signed"
                 THEN h = "bundle" /\ r.nonce = hs[h].nonce /\ r.sent < Batch
                 ELSE r.sent = 0
              /\ h # "bundle" => r.sent = 0
              /\ h = "launch" => r.pc \in {"waiting", "unknown"} /\ r.act = hs[h].act
         /\ UNCHANGED <<job, grace>> \/ (h = "fund" /\ job = "running" /\ job' = "ended" /\ grace' = TRUE)
<1>. DEFINE P(r) ==
       /\ r.pc \in {"idle", "signed", "waiting", "unknown"} /\ r.act \in {"none", hs[h].act}
       /\ r.lat \in {Unread, hs[h].lat}
       /\ IF r.pc = "signed"
          THEN h = "bundle" /\ r.nonce = hs[h].nonce /\ r.sent < Batch
          ELSE r.sent = 0
       /\ h # "bundle" => r.sent = 0
       /\ h = "launch" => r.pc \in {"waiting", "unknown"} /\ r.act = hs[h].act
     Q == UNCHANGED <<job, grace>> \/ (h = "fund" /\ job = "running" /\ job' = "ended" /\ grace' = TRUE)
<1>1. hs[h] \in HandlerRecords
  BY DEF TypeInv, TypeOK, Handlers, Signers
<1>2. CASE h # "launch" /\ Leave(h)
  <2>1. P(Fresh)
    BY <1>2 DEF Fresh
  <2>2. hs' = [hs EXCEPT ![h] = Fresh] /\ Q
    BY <1>2 DEF Leave
  <2>. QED BY <2>1, <2>2, FreshType
<1>3. CASE \E pc \in {"waiting", "unknown"} : Await(h, pc)
  <2>1. PICK pc \in {"waiting", "unknown"} : Await(h, pc)
    BY <1>3
  <2>. DEFINE r == [Fresh EXCEPT !.pc = pc, !.act = hs[h].act]
  <2>2. r \in HandlerRecords
    BY <1>1, FreshType DEF HandlerRecords, Fresh
  <2>3. P(r)
    BY DEF Fresh
  <2>4. hs' = [hs EXCEPT ![h] = r] /\ Q
    BY <2>1 DEF Await
  <2>. QED BY <2>2, <2>3, <2>4
<1>4. CASE /\ h = "bundle" /\ hs[h].sent + 1 < Batch
           /\ hs' = [hs EXCEPT ![h].sent = @ + 1] /\ UNCHANGED <<job, grace>>
  <2>. DEFINE r == [hs[h] EXCEPT !.sent = @ + 1]
  <2>1. r \in HandlerRecords
    BY <1>1, <1>4, LauncherAssumption DEF HandlerRecords
  <2>2. r.pc = hs[h].pc /\ r.act = hs[h].act /\ r.nonce = hs[h].nonce /\ r.sent = hs[h].sent + 1
        /\ r.lat = hs[h].lat
    BY <1>1 DEF HandlerRecords
  <2>3. hs' = [hs EXCEPT ![h] = r]
    BY <1>4
  <2>. QED BY <1>4, <2>1, <2>2, <2>3
<1>. QED BY <1>2, <1>3, <1>4 DEF Answered, Threw, Signers

\* A step keeps the types.
LEMMA StepTypes ==
  ASSUME TypeInv, [Next]_vars
  PROVE  TypeInv'
<1>1. ASSUME Mine PROVE TypeInv'
  <2>1. count \in Nonces /\ count + 1 \in Counts
    BY <1>1, LauncherAssumption DEF TypeInv, TypeOK, Mine, Counts, Nonces
  <2>2. mined' \subseteq 1..MaxLaunches
    <3>1. Len(signedAt) \in Nat /\ Len(signedAt) <= MaxLaunches /\ mined \subseteq 1..MaxLaunches
      BY DEF TypeInv, TypeOK
    <3>2. pool[count].kind = "launch" => pool[count].id \in 1..MaxLaunches
      BY <2>1, <3>1, LauncherAssumption DEF TypeInv, Numbered
    <3>. QED BY <1>1, <3>1, <3>2 DEF Mine
  <2>3. pool' \in [Nonces -> Txs \cup {Empty}]
    BY <1>1, <2>1 DEF TypeInv, TypeOK, Mine
  <2>t. TypeOK'
    BY <1>1, <2>1, <2>2, <2>3
       DEF TypeInv, TypeOK, memory, ghosts, Mine
  <2>n. Numbered'
    BY <1>1, LauncherAssumption
       DEF TypeInv, TypeOK, Numbered, memory, ghosts, Mine, Nonces, Empty, SentOrSoon
  <2>. QED BY <2>t, <2>n DEF TypeInv
<1>2. ASSUME NEW n \in Nonces, Evict(n) PROVE TypeInv'
  <2>t. TypeOK'
    BY <1>2, LauncherAssumption
       DEF TypeInv, TypeOK, Numbered, memory, Evict, Fault
  <2>n. Numbered'
    BY <1>2, LauncherAssumption
       DEF TypeInv, TypeOK, Numbered, memory, Evict, Fault, Empty, SentOrSoon
  <2>. QED BY <2>t, <2>n DEF TypeInv
<1>3. ASSUME NEW w \in wire, Arrive(w) PROVE TypeInv'
  <2>1. /\ w.nonce \in Nonces /\ w.tx \in Txs
        /\ w.tx.kind = "launch" => w.tx.id \in 1..Len(signedAt)
    BY DEF TypeInv, TypeOK, Numbered
  <2>t. TypeOK'
    BY <1>3, <2>1
       DEF TypeInv, TypeOK, Numbered, memory, ghosts, Arrive, Takes
  <2>n. Numbered'
    BY <1>3, <2>1
       DEF TypeInv, TypeOK, Numbered, memory, ghosts, Arrive, Takes
  <2>. QED BY <2>t, <2>n DEF TypeInv
<1>4. ASSUME NEW act \in {"alone", "combo"}, Launch(act) PROVE TypeInv'
  BY <1>4, LauncherAssumption
     DEF TypeInv, TypeOK, Numbered, Launch, Counts, Nonces, Unread, SentOrSoon, chain,
         ghosts, HandlerRecords, Acts, Handlers, Signers, Fresh, Empty, NoMark, Marker,
         Txs, Begin, withLaunchLock
<1>5. ASSUME Bundle PROVE TypeInv'
  BY <1>5, LauncherAssumption
     DEF TypeInv, TypeOK, Numbered, Bundle, Counts, Nonces, Unread, SentOrSoon, chain,
         ghosts, HandlerRecords, Acts, Handlers, Signers, Fresh, Empty, NoMark, Marker,
         Txs, Begin
<1>6. ASSUME FundStart PROVE TypeInv'
  BY <1>6 DEF TypeInv, TypeOK, Numbered, chain, ghosts, FundStart
<1>7. ASSUME FundStop PROVE TypeInv'
  BY <1>7 DEF TypeInv, TypeOK, Numbered, chain, ghosts, FundStop
<1>8. ASSUME Resolve PROVE TypeInv'
  <2>. DEFINE r == [Fresh EXCEPT !.pc = "receipt", !.act = "none"]
  <2>1. hs["resolve"] \in HandlerRecords /\ "resolve" \in Handlers
    BY <1>8 DEF TypeInv, TypeOK, Handlers, Signers
  <2>2. r \in HandlerRecords
    BY <1>8, FreshType DEF HandlerRecords, Acts, Fresh
  <2>3. hs' = [hs EXCEPT !["resolve"] = r]
    BY <1>8 DEF Resolve, Begin
  <2>. HIDE DEF r
  <2>4. /\ hs' \in [Handlers -> HandlerRecords] /\ hs'["resolve"] = r
        /\ \A g \in Handlers \ {"resolve"} : hs'[g] = hs[g]
    BY <2>1, <2>2, <2>3, HandlerChanges DEF TypeInv
  <2>t. TypeOK'
    BY <1>8, LauncherAssumption, <2>1, <2>4
       DEF TypeInv, TypeOK, Numbered, chain, ghosts, Resolve, Told, Marker, Begin
  <2>n. Numbered'
    BY <1>8, LauncherAssumption, <2>1, <2>4
       DEF TypeInv, TypeOK, Numbered, chain, ghosts, Resolve, r, HandlerRecords,
           SentOrSoon, Handlers, Signers, Nonces, Begin, Fresh
  <2>. QED BY <2>t, <2>n DEF TypeInv
<1>9. ASSUME Crash PROVE TypeInv'
  <2>1. hs' \in [Handlers -> HandlerRecords]
    BY <1>9, FreshType DEF Crash
  <2>2. loose' \subseteq 1..MaxLaunches
    BY <1>9, LauncherAssumption DEF Crash, TypeInv, TypeOK
  <2>3. faults' \in 0..MaxFaults
    BY <1>9, LauncherAssumption DEF Crash, Fault, TypeInv, TypeOK
  <2>t. TypeOK'
    BY <1>9, <2>1, <2>2, <2>3
       DEF TypeInv, TypeOK, Numbered, chain, Crash
  <2>n. Numbered'
    BY <1>9, LauncherAssumption, FreshType
       DEF TypeInv, TypeOK, Numbered, chain, Crash, Fault, Fresh, SentOrSoon, Handlers,
           Signers
  <2>. QED BY <2>t, <2>n DEF TypeInv
<1>10. ASSUME NEW act \in {"approve", "withdraw", "cancel"}, Action(act) PROVE TypeInv'
  BY <1>10, LauncherAssumption
     DEF TypeInv, TypeOK, Numbered, Action, Counts, Nonces, Unread, SentOrSoon, chain,
         ghosts, HandlerRecords, Acts, Handlers, Signers, Fresh, Empty, NoMark, Marker,
         Txs, Begin
<1>11. ASSUME NEW e \in Exits, Exit(e) PROVE TypeInv'
  <2>t. TypeOK'
    BY <1>11, LauncherAssumption
       DEF TypeInv, TypeOK, Numbered, chain, ghosts, Exit
  <2>n. Numbered'
    BY <1>11, LauncherAssumption
       DEF TypeInv, TypeOK, Numbered, chain, ghosts, Exit
  <2>. QED BY <2>t, <2>n DEF TypeInv
<1>12. ASSUME NEW e \in Exits, ExitEnds(e) PROVE TypeInv'
  <2>t. TypeOK'
    BY <1>12, LauncherAssumption
       DEF TypeInv, TypeOK, Numbered, chain, ghosts, ExitEnds
  <2>n. Numbered'
    BY <1>12, LauncherAssumption
       DEF TypeInv, TypeOK, Numbered, chain, ghosts, ExitEnds
  <2>. QED BY <2>t, <2>n DEF TypeInv
<1>13. ASSUME FundTick PROVE TypeInv'
  BY <1>13, LauncherAssumption
     DEF TypeInv, TypeOK, Numbered, FundTick, Counts, Nonces, Unread, SentOrSoon, chain,
         ghosts, HandlerRecords, Acts, Handlers, Signers, Fresh, Empty, NoMark, Marker,
         Txs, Begin
<1>14. ASSUME GraceOver PROVE TypeInv'
  BY <1>14 DEF TypeInv, TypeOK, Numbered, chain, ghosts, GraceOver
<1>15. ASSUME Receipt PROVE TypeInv'
  <2>. DEFINE r == hs'["launch"]
  <2>1. hs["launch"] \in HandlerRecords /\ "launch" \in Handlers
    BY <1>15 DEF TypeInv, TypeOK, Handlers, Signers
  <2>2. r \in HandlerRecords
    BY <1>15, <2>1 DEF Receipt, HandlerRecords, TypeInv, TypeOK
  <2>3. hs' = [hs EXCEPT !["launch"] = r]
    BY <1>15, <2>1 DEF Receipt, TypeInv, TypeOK
  <2>. HIDE DEF r
  <2>4. /\ hs' \in [Handlers -> HandlerRecords] /\ hs'["launch"] = r
        /\ \A g \in Handlers \ {"launch"} : hs'[g] = hs[g]
    BY <2>1, <2>2, <2>3, HandlerChanges DEF TypeInv
  <2>t. TypeOK'
    BY <1>15, LauncherAssumption, <2>1, <2>4
       DEF TypeInv, TypeOK, Numbered, chain, memory, ghosts, Receipt
  <2>n. Numbered'
    BY <1>15, LauncherAssumption, <2>1, <2>4
       DEF TypeInv, TypeOK, Numbered, chain, memory, ghosts, Receipt, r, HandlerRecords,
           SentOrSoon, Handlers, Signers, Nonces
  <2>. QED BY <2>t, <2>n DEF TypeInv
<1>16. ASSUME LaunchEnds PROVE TypeInv'
  <2>. DEFINE r == Fresh
  <2>1. hs["launch"] \in HandlerRecords /\ "launch" \in Handlers
    BY <1>16 DEF TypeInv, TypeOK, Handlers, Signers
  <2>2. r \in HandlerRecords
    BY FreshType DEF r
  <2>3. hs' = [hs EXCEPT !["launch"] = r]
    BY <1>16 DEF LaunchEnds, Leave
  <2>. HIDE DEF r
  <2>4. /\ hs' \in [Handlers -> HandlerRecords] /\ hs'["launch"] = r
        /\ \A g \in Handlers \ {"launch"} : hs'[g] = hs[g]
    BY <2>1, <2>2, <2>3, HandlerChanges DEF TypeInv
  <2>5. parked' \in Marker \cup {NoMark}
    <3>1. Len(signedAt) \in 1..MaxLaunches /\ signedAt[Len(signedAt)] \in Nonces
      BY <1>16, LauncherAssumption DEF LaunchEnds, TypeInv, TypeOK, Numbered, SentOrSoon
    <3>. QED BY <1>16, <3>1 DEF LaunchEnds, Marker, TypeInv, TypeOK
  <2>t. TypeOK'
    BY <1>16, <2>4, <2>5 DEF TypeInv, TypeOK, LaunchEnds, Leave, chain, ghosts
  <2>n. Numbered'
    BY <1>16, LauncherAssumption, <2>1, <2>4
       DEF TypeInv, TypeOK, Numbered, chain, ghosts, LaunchEnds, r, HandlerRecords,
           SentOrSoon, Handlers, Signers, Nonces, Leave, Fresh
  <2>. QED BY <2>t, <2>n DEF TypeInv
<1>17. ASSUME ReadReceipt PROVE TypeInv'
  <2>. DEFINE r == IF asked.id \in mined THEN Fresh ELSE [hs["resolve"] EXCEPT !.pc = "reading"]
  <2>1. hs["resolve"] \in HandlerRecords /\ "resolve" \in Handlers
    BY <1>17 DEF TypeInv, TypeOK, Handlers, Signers
  <2>2. r \in HandlerRecords
    BY <1>17, <2>1, FreshType DEF HandlerRecords
  <2>3. hs' = [hs EXCEPT !["resolve"] = r]
    BY <1>17 DEF ReadReceipt
  <2>. HIDE DEF r
  <2>4. /\ hs' \in [Handlers -> HandlerRecords] /\ hs'["resolve"] = r
        /\ \A g \in Handlers \ {"resolve"} : hs'[g] = hs[g]
    BY <2>1, <2>2, <2>3, HandlerChanges DEF TypeInv
  <2>5. r.pc # "signed" /\ r.sent = 0 /\ r.act # "cancel"
    BY <1>17, <2>1 DEF ReadReceipt, TypeInv, Numbered, Fresh, HandlerRecords, Handlers, r
  <2>. HIDE DEF r
  <2>t. TypeOK'
    BY <1>17, LauncherAssumption, <2>1, <2>4
       DEF TypeInv, TypeOK, Numbered, chain, ghosts, ReadReceipt
  <2>n. Numbered'
    BY <1>17, <2>1, <2>4, <2>5
       DEF TypeInv, Numbered, ReadReceipt, chain, ghosts, Handlers, Signers
  <2>. QED BY <2>t, <2>n DEF TypeInv
<1>18. ASSUME Verdict PROVE TypeInv'
  BY <1>18, LauncherAssumption
     DEF TypeInv, TypeOK, Numbered, Verdict, Counts, Nonces, Unread, SentOrSoon, chain,
         ghosts, HandlerRecords, Acts, Handlers, Signers, Fresh, Empty, NoMark, Marker, Txs
<1>19. ASSUME ResolveFails PROVE TypeInv'
  <2>. DEFINE r == Fresh
  <2>1. hs["resolve"] \in HandlerRecords /\ "resolve" \in Handlers
    BY <1>19 DEF TypeInv, TypeOK, Handlers, Signers
  <2>2. r \in HandlerRecords
    BY FreshType DEF r
  <2>3. hs' = [hs EXCEPT !["resolve"] = r]
    BY <1>19 DEF ResolveFails
  <2>. HIDE DEF r
  <2>4. /\ hs' \in [Handlers -> HandlerRecords] /\ hs'["resolve"] = r
        /\ \A g \in Handlers \ {"resolve"} : hs'[g] = hs[g]
    BY <2>1, <2>2, <2>3, HandlerChanges DEF TypeInv
  <2>t. TypeOK'
    BY <1>19, LauncherAssumption, <2>1, <2>4
       DEF TypeInv, TypeOK, Numbered, chain, ResolveFails, Fault
  <2>n. Numbered'
    BY <1>19, LauncherAssumption, <2>1, <2>4
       DEF TypeInv, TypeOK, Numbered, chain, ResolveFails, r, HandlerRecords, SentOrSoon,
           Handlers, Signers, Nonces, Fresh
  <2>. QED BY <2>t, <2>n DEF TypeInv
<1>20. ASSUME SizeSplit PROVE TypeInv'
  <2>. DEFINE r == [hs["bundle"] EXCEPT !.pc = "reading", !.held = count]
  <2>1. hs["bundle"] \in HandlerRecords /\ "bundle" \in Handlers
    BY <1>20 DEF TypeInv, TypeOK, Handlers, Signers
  <2>2. r \in HandlerRecords
    BY <1>20, <2>1, LauncherAssumption
       DEF TypeInv, TypeOK, HandlerRecords, Acts, Counts, Unread
  <2>3. hs' = [hs EXCEPT !["bundle"] = r]
    BY <1>20 DEF SizeSplit
  <2>. HIDE DEF r
  <2>4. /\ hs' \in [Handlers -> HandlerRecords] /\ hs'["bundle"] = r
        /\ \A g \in Handlers \ {"bundle"} : hs'[g] = hs[g]
    BY <2>1, <2>2, <2>3, HandlerChanges DEF TypeInv
  <2>t. TypeOK'
    BY <1>20, LauncherAssumption, <2>1, <2>4
       DEF TypeInv, TypeOK, Numbered, chain, memory, ghosts, SizeSplit
  <2>n. Numbered'
    BY <1>20, LauncherAssumption, <2>1, <2>4
       DEF TypeInv, TypeOK, Numbered, chain, memory, ghosts, SizeSplit, r, HandlerRecords,
           SentOrSoon, Handlers, Signers, Nonces
  <2>. QED BY <2>t, <2>n DEF TypeInv
<1>21. ASSUME NEW h \in Handlers, ReadPending(h) PROVE TypeInv'
  <2>. DEFINE r == [hs[h] EXCEPT !.pend = Pending]
  <2>1. hs[h] \in HandlerRecords /\ h \in Handlers
    BY <1>21 DEF TypeInv, TypeOK, Handlers, Signers
  <2>2. r \in HandlerRecords
    BY <1>21, PendingType, <2>1, LauncherAssumption
       DEF TypeInv, TypeOK, HandlerRecords, Acts, Counts, Unread
  <2>3. hs' = [hs EXCEPT ![h] = r]
    BY <1>21 DEF ReadPending
  <2>. HIDE DEF r
  <2>4. /\ hs' \in [Handlers -> HandlerRecords] /\ hs'[h] = r
        /\ \A g \in Handlers \ {h} : hs'[g] = hs[g]
    BY <2>1, <2>2, <2>3, HandlerChanges DEF TypeInv
  <2>t. TypeOK'
    BY <1>21, LauncherAssumption, <2>1, <2>4
       DEF TypeInv, TypeOK, Numbered, chain, memory, ghosts, ReadPending
  <2>n. Numbered'
    BY <1>21, LauncherAssumption, <2>1, <2>4
       DEF TypeInv, TypeOK, Numbered, chain, memory, ghosts, ReadPending, r,
           HandlerRecords, SentOrSoon, Handlers, Signers, Nonces
  <2>. QED BY <2>t, <2>n DEF TypeInv
<1>22. ASSUME NEW h \in Handlers, ReadLatest(h) PROVE TypeInv'
  <2>. DEFINE r == [hs[h] EXCEPT !.lat = count]
  <2>1. hs[h] \in HandlerRecords /\ h \in Handlers
    BY <1>22 DEF TypeInv, TypeOK, Handlers, Signers
  <2>2. r \in HandlerRecords
    BY <1>22, <2>1, LauncherAssumption
       DEF TypeInv, TypeOK, HandlerRecords, Acts, Counts, Unread
  <2>3. hs' = [hs EXCEPT ![h] = r]
    BY <1>22 DEF ReadLatest
  <2>. HIDE DEF r
  <2>4. /\ hs' \in [Handlers -> HandlerRecords] /\ hs'[h] = r
        /\ \A g \in Handlers \ {h} : hs'[g] = hs[g]
    BY <2>1, <2>2, <2>3, HandlerChanges DEF TypeInv
  <2>t. TypeOK'
    BY <1>22, LauncherAssumption, <2>1, <2>4
       DEF TypeInv, TypeOK, Numbered, chain, memory, ghosts, ReadLatest
  <2>n. Numbered'
    BY <1>22, LauncherAssumption, <2>1, <2>4
       DEF TypeInv, TypeOK, Numbered, chain, memory, ghosts, ReadLatest, r, HandlerRecords,
           SentOrSoon, Handlers, Signers, Nonces
  <2>. QED BY <2>t, <2>n DEF TypeInv
<1>23. ASSUME NEW h \in Signers, Sign(h) PROVE TypeInv'
  <2>. DEFINE nonce == IF hs[h].act = "cancel" THEN hs[h].lat ELSE hs[h].pend
              r == [hs[h] EXCEPT !.pc = "signed", !.nonce = nonce, !.pend = Unread, !.lat = Unread,
                                 !.held = Unread]
  <2>1. hs[h] \in HandlerRecords /\ h \in Handlers
    BY <1>23 DEF TypeInv, TypeOK, Handlers, Signers
  <2>2. nonce \in Nonces /\ nonce + (IF h = "bundle" THEN Batch ELSE 1) <= MaxNonce
    <3>1. nonce \in Counts
      <4>1. hs[h].act = "cancel" => h = "action"
        BY <2>1 DEF TypeInv, Numbered
      <4>2. /\ hs[h].pend \in Counts \cup {Unread} /\ hs[h].pend # Unread
            /\ h # "fund" => hs[h].lat \in Counts
        BY <1>23, <2>1 DEF Sign, HasRead, HandlerRecords
      <4>. QED BY <4>1, <4>2
    <3>. QED BY <1>23, <3>1, LauncherAssumption DEF Sign, Counts, Nonces
  <2>3. r \in HandlerRecords
    BY <2>1, <2>2 DEF HandlerRecords
  <2>4. hs' = [hs EXCEPT ![h] = r]
    BY <1>23 DEF Sign
  <2>5. r.pc = "signed" /\ r.nonce = nonce /\ r.sent = hs[h].sent
    BY <2>1 DEF HandlerRecords
  <2>. HIDE DEF r, nonce
  <2>6. /\ hs' \in [Handlers -> HandlerRecords] /\ hs'[h] = r
        /\ \A g \in Handlers \ {h} : hs'[g] = hs[g]
    BY <2>1, <2>3, <2>4, HandlerChanges DEF TypeInv
  <2>7. /\ signedAt' \in Seq(Nonces) /\ Len(signedAt') <= MaxLaunches /\ Len(signedAt') >= Len(signedAt)
        /\ h = "launch" => Len(signedAt') > 0
    BY <1>23, <2>2, LauncherAssumption DEF Sign, nonce, HasRead, TypeInv, TypeOK, Numbered
  <2>8. /\ hs[h].pc = "reading" /\ hs[h].sent = 0 /\ r.sent < Batch
        /\ r.act = hs[h].act /\ (h = "bundle" => r.nonce + Batch <= MaxNonce)
    BY <1>23, <2>1, <2>2, <2>5, LauncherAssumption
       DEF Sign, HasRead, TypeInv, Numbered, r, HandlerRecords
  <2>t. TypeOK'
    BY <1>23, <2>6, <2>7 DEF TypeInv, TypeOK, Sign, chain, ghosts
  <2>9. /\ \A n \in Nonces : pool[n].kind = "launch" => pool[n].id \in 1..Len(signedAt')
        /\ \A w \in wire : w.tx.kind = "launch" => w.tx.id \in 1..Len(signedAt')
    BY <2>7 DEF TypeInv, TypeOK, Numbered
  <2>n. Numbered'
    <3>1. /\ hs'["launch"].pc = "reading" => Len(signedAt') < MaxLaunches
          /\ hs'["launch"].pc \in SentOrSoon => Len(signedAt') > 0
      BY <1>23, <2>1, <2>5, <2>6, <2>7
         DEF TypeInv, TypeOK, Numbered, Sign, SentOrSoon, Handlers, Signers
    <3>2. r.nonce \in Nonces /\ (h # "bundle" => r.sent = 0) /\ (h # "action" => r.act # "cancel")
      BY <2>1, <2>2, <2>5, <2>8 DEF TypeInv, Numbered
    <3>. QED BY <1>23, <2>5, <2>6, <2>8, <2>9, <3>1, <3>2 DEF TypeInv, Numbered, Sign, chain
  <2>. QED BY <2>t, <2>n DEF TypeInv
<1>24. ASSUME NEW h \in Signers, Refuse(h) PROVE TypeInv'
  BY <1>24, LauncherAssumption
     DEF TypeInv, TypeOK, Numbered, Refuse, Counts, Nonces, Unread, SentOrSoon, chain,
         ghosts, HandlerRecords, Acts, Handlers, Signers, Fresh, Empty, NoMark, Marker,
         Txs, Leave
<1>25. ASSUME NEW h \in Signers, Fails(h) PROVE TypeInv'
  <2>. DEFINE r == Fresh
  <2>1. hs[h] \in HandlerRecords /\ h \in Handlers
    BY <1>25 DEF TypeInv, TypeOK, Handlers, Signers
  <2>2. r \in HandlerRecords
    BY FreshType DEF r
  <2>3. hs' = [hs EXCEPT ![h] = r]
    BY <1>25 DEF Fails, Leave
  <2>. HIDE DEF r
  <2>4. /\ hs' \in [Handlers -> HandlerRecords] /\ hs'[h] = r
        /\ \A g \in Handlers \ {h} : hs'[g] = hs[g]
    BY <2>1, <2>2, <2>3, HandlerChanges DEF TypeInv
  <2>5. faults' \in 0..MaxFaults
    BY <1>25, LauncherAssumption DEF Fails, Fault, TypeInv, TypeOK
  <2>t. TypeOK'
    BY <1>25, <2>4, <2>5 DEF TypeInv, TypeOK, Fails, Leave, chain
  <2>n. Numbered'
    BY <1>25, LauncherAssumption, <2>1, <2>4
       DEF TypeInv, TypeOK, Numbered, chain, Fails, r, HandlerRecords, SentOrSoon,
           Handlers, Signers, Nonces, Fresh, Leave
  <2>. QED BY <2>t, <2>n DEF TypeInv
<1>26. ASSUME NEW h \in Signers, Sent(h) PROVE TypeInv'
  <2>1. /\ h \in Handlers /\ hs[h].pc = "signed" /\ (Answered(h) \/ Threw(h))
        /\ hs[h].nonce \in Nonces /\ (h = "bundle" => hs[h].nonce + Batch <= MaxNonce)
        /\ (h # "action" => hs[h].act # "cancel")
    BY <1>26 DEF Sent, TypeInv, Numbered, Handlers, Signers
  <2>2. PICK r \in HandlerRecords :
          /\ hs' = [hs EXCEPT ![h] = r]
          /\ r.pc \in {"idle", "signed", "waiting", "unknown"} /\ r.act \in {"none", hs[h].act}
          /\ IF r.pc = "signed"
             THEN h = "bundle" /\ r.nonce = hs[h].nonce /\ r.sent < Batch
             ELSE r.sent = 0
          /\ h # "bundle" => r.sent = 0
    BY <2>1, AfterSend
  <2>3. /\ hs' \in [Handlers -> HandlerRecords] /\ hs'[h] = r
        /\ \A g \in Handlers \ {h} : hs'[g] = hs[g]
    BY <2>1, <2>2, HandlerChanges DEF TypeInv
  <2>4. job' \in {"none", "running", "ended"} /\ grace' \in BOOLEAN
    BY <2>1, AfterSend DEF TypeInv, TypeOK
  <2>5. /\ At(h) \in Nonces /\ Tx(h) \in Txs
        /\ Tx(h).kind = "launch" => Tx(h).id \in 1..Len(signedAt)
        /\ h = "launch" => Len(signedAt) \in 1..MaxLaunches
    BY <2>1, SendType DEF TypeInv, TypeOK
  <2>6. hs'["launch"].pc \in SentOrSoon => hs["launch"].pc \in SentOrSoon
    BY <2>1, <2>3 DEF SentOrSoon, Handlers, Signers
  <2>7. hs'["launch"].pc = "reading" => hs["launch"].pc = "reading"
    BY <2>2, <2>3, <2>1 DEF Handlers, Signers
  <2>t. TypeOK'
    BY <1>26, <2>3, <2>4, <2>5, LauncherAssumption
     DEF TypeInv, TypeOK, Sent, Takes, ghosts
  <2>n. Numbered'
    BY <1>26, <2>1, <2>2, <2>3, <2>5, <2>6, <2>7
     DEF TypeInv, TypeOK, Numbered, Sent, Takes, ghosts
  <2>. QED BY <2>t, <2>n DEF TypeInv
<1>27. ASSUME NEW h \in Signers, SendLost(h) PROVE TypeInv'
  <2>1. /\ h \in Handlers /\ hs[h].pc = "signed" /\ (Answered(h) \/ Threw(h))
        /\ hs[h].nonce \in Nonces /\ (h = "bundle" => hs[h].nonce + Batch <= MaxNonce)
        /\ (h # "action" => hs[h].act # "cancel")
    BY <1>27 DEF SendLost, TypeInv, Numbered, Handlers, Signers
  <2>2. PICK r \in HandlerRecords :
          /\ hs' = [hs EXCEPT ![h] = r]
          /\ r.pc \in {"idle", "signed", "waiting", "unknown"} /\ r.act \in {"none", hs[h].act}
          /\ IF r.pc = "signed"
             THEN h = "bundle" /\ r.nonce = hs[h].nonce /\ r.sent < Batch
             ELSE r.sent = 0
          /\ h # "bundle" => r.sent = 0
    BY <2>1, AfterSend
  <2>3. /\ hs' \in [Handlers -> HandlerRecords] /\ hs'[h] = r
        /\ \A g \in Handlers \ {h} : hs'[g] = hs[g]
    BY <2>1, <2>2, HandlerChanges DEF TypeInv
  <2>4. job' \in {"none", "running", "ended"} /\ grace' \in BOOLEAN
    BY <2>1, AfterSend DEF TypeInv, TypeOK
  <2>5. /\ At(h) \in Nonces /\ Tx(h) \in Txs
        /\ Tx(h).kind = "launch" => Tx(h).id \in 1..Len(signedAt)
        /\ h = "launch" => Len(signedAt) \in 1..MaxLaunches
    BY <2>1, SendType DEF TypeInv, TypeOK
  <2>6. hs'["launch"].pc \in SentOrSoon => hs["launch"].pc \in SentOrSoon
    BY <2>1, <2>3 DEF SentOrSoon, Handlers, Signers
  <2>7. hs'["launch"].pc = "reading" => hs["launch"].pc = "reading"
    BY <2>2, <2>3, <2>1 DEF Handlers, Signers
  <2>t. TypeOK'
    BY <1>27, <2>3, <2>4, <2>5, LauncherAssumption
     DEF TypeInv, TypeOK, SendLost, Takes, ghosts
  <2>n. Numbered'
    BY <1>27, <2>1, <2>2, <2>3, <2>5, <2>6, <2>7
     DEF TypeInv, TypeOK, Numbered, SendLost, Takes, ghosts
  <2>. QED BY <2>t, <2>n DEF TypeInv
<1>28. ASSUME NEW h \in Signers, SendLate(h) PROVE TypeInv'
  <2>1. /\ h \in Handlers /\ hs[h].pc = "signed" /\ (Answered(h) \/ Threw(h))
        /\ hs[h].nonce \in Nonces /\ (h = "bundle" => hs[h].nonce + Batch <= MaxNonce)
        /\ (h # "action" => hs[h].act # "cancel")
    BY <1>28 DEF SendLate, TypeInv, Numbered, Handlers, Signers
  <2>2. PICK r \in HandlerRecords :
          /\ hs' = [hs EXCEPT ![h] = r]
          /\ r.pc \in {"idle", "signed", "waiting", "unknown"} /\ r.act \in {"none", hs[h].act}
          /\ IF r.pc = "signed"
             THEN h = "bundle" /\ r.nonce = hs[h].nonce /\ r.sent < Batch
             ELSE r.sent = 0
          /\ h # "bundle" => r.sent = 0
    BY <2>1, AfterSend
  <2>3. /\ hs' \in [Handlers -> HandlerRecords] /\ hs'[h] = r
        /\ \A g \in Handlers \ {h} : hs'[g] = hs[g]
    BY <2>1, <2>2, HandlerChanges DEF TypeInv
  <2>4. job' \in {"none", "running", "ended"} /\ grace' \in BOOLEAN
    BY <2>1, AfterSend DEF TypeInv, TypeOK
  <2>5. /\ At(h) \in Nonces /\ Tx(h) \in Txs
        /\ Tx(h).kind = "launch" => Tx(h).id \in 1..Len(signedAt)
        /\ h = "launch" => Len(signedAt) \in 1..MaxLaunches
    BY <2>1, SendType DEF TypeInv, TypeOK
  <2>6. hs'["launch"].pc \in SentOrSoon => hs["launch"].pc \in SentOrSoon
    BY <2>1, <2>3 DEF SentOrSoon, Handlers, Signers
  <2>7. hs'["launch"].pc = "reading" => hs["launch"].pc = "reading"
    BY <2>2, <2>3, <2>1 DEF Handlers, Signers
  <2>8. faults' \in 0..MaxFaults /\ loose' \subseteq 1..MaxLaunches
    <3>1. faults \in 0..MaxFaults /\ loose \subseteq 1..MaxLaunches
      BY DEF TypeInv, TypeOK
    <3>2. faults' \in 0..MaxFaults
      BY <1>28, <3>1, LauncherAssumption DEF SendLate, Fault
    <3>3. loose' \subseteq 1..MaxLaunches
      BY <1>28, <2>5, <3>1 DEF SendLate
    <3>. QED BY <3>2, <3>3
  <2>9. wire' \subseteq [nonce : Nonces, tx : Txs]
    BY <1>28, <2>5 DEF SendLate, TypeInv, TypeOK
  <2>t. TypeOK'
    BY <1>28, <2>3, <2>4, <2>8, <2>9 DEF TypeInv, TypeOK, SendLate
  <2>n. Numbered'
    BY <1>28, <2>1, <2>2, <2>3, <2>5, <2>6, <2>7
     DEF TypeInv, TypeOK, Numbered, SendLate
  <2>. QED BY <2>t, <2>n DEF TypeInv
<1>29. ASSUME NEW h \in Signers, Ends(h) PROVE TypeInv'
  BY <1>29, LauncherAssumption
     DEF TypeInv, TypeOK, Numbered, Ends, Counts, Nonces, Unread, SentOrSoon, chain,
         ghosts, HandlerRecords, Acts, Handlers, Signers, Fresh, Empty, NoMark, Marker,
         Txs, Leave
<1>30. ASSUME UNCHANGED vars PROVE TypeInv'
  BY <1>30 DEF TypeInv, TypeOK, Numbered, vars
<1>. QED
  BY <1>1, <1>2, <1>3, <1>4, <1>5, <1>6, <1>7, <1>8, <1>9, <1>10, <1>11, <1>12, <1>13,
     <1>14, <1>15, <1>16, <1>17, <1>18, <1>19, <1>20, <1>21, <1>22, <1>23, <1>24, <1>25,
     <1>26, <1>27, <1>28, <1>29, <1>30
  DEF Next, Network, Requests, Timers, Reads, Steps

\* Every variable keeps its type, and every launch the pool or the wire holds is one
\* that was signed; nothing is assumed of the order the requests arrive in.
THEOREM Typing == Spec => []TypeInv
<1>1. TypeInv /\ [Next]_vars => TypeInv'
  BY StepTypes
<1>. QED BY InitTypes, <1>1, PTL DEF Spec
-----------------------------------------------------------------------------
(* Launches and their nonces                                               *)

\* Every launch was signed at a nonce the count has reached, and is nowhere else
\* than at its nonce; what is mined is out of the mempool.
Booked ==
  /\ \A i \in 1..Len(signedAt) : signedAt[i] <= count
  /\ \A h \in Handlers : hs[h].lat <= count
  /\ hs["launch"].pc = "signed" => hs["launch"].nonce = signedAt[Len(signedAt)]
  /\ \A n \in Nonces : pool[n].kind = "launch" => n = signedAt[pool[n].id]
  /\ \A x \in wire : x.tx.kind = "launch" => x.nonce = signedAt[x.tx.id]
  /\ \A n \in Nonces : n < count => pool[n] = Empty

LEMMA InitBooked == Init => Booked
BY LauncherAssumption DEF Init, Booked, Fresh, Empty, Unread, Handlers, Signers

\* A step keeps the book.
LEMMA StepBooked ==
  ASSUME TypeInv, TypeInv', Booked, [Next]_vars
  PROVE  Booked'
<1>1. ASSUME Mine PROVE Booked'
  <2>1. /\ count' = count + 1 /\ pool' = [pool EXCEPT ![count] = Empty] /\ count < MaxNonce
        /\ UNCHANGED <<wire, hs, signedAt>>
    BY <1>1 DEF Mine, memory
  <2>2. count \in Nat /\ pool \in [Nonces -> Txs \cup {Empty}]
    BY LauncherAssumption DEF TypeInv, TypeOK, Counts
  <2>3. \A n \in Nonces : pool'[n] = Empty \/ (pool'[n] = pool[n] /\ n # count)
    BY <2>1, <2>2
  <2>4. /\ \A i \in 1..Len(signedAt) : signedAt[i] \in Nat
        /\ \A h \in Handlers : hs[h].lat \in Int
    BY LauncherAssumption DEF TypeInv, TypeOK, HandlerRecords, Nonces, Counts, Unread
  <2>5. \A i \in 1..Len(signedAt) : signedAt[i] <= count
    BY DEF Booked
  <2>6. \A h \in Handlers : hs[h].lat <= count
    BY DEF Booked
  <2>7. \A i \in 1..Len(signedAt') : signedAt'[i] <= count'
    BY <2>1, <2>2, <2>4, <2>5
  <2>8. \A h \in Handlers : hs'[h].lat <= count'
    BY <2>1, <2>2, <2>4, <2>6
  <2>9. \A n \in Nonces : n < count' => pool'[n] = Empty
    BY <2>1, <2>2, <2>3 DEF Booked, Nonces
  <2>10. \A n \in Nonces : pool'[n].kind = "launch" => n = signedAt'[pool'[n].id]
    BY <2>1, <2>3 DEF Booked, Empty
  <2>. QED BY <2>1, <2>7, <2>8, <2>9, <2>10 DEF Booked
<1>2. ASSUME NEW n \in Nonces, Evict(n) PROVE Booked'
  BY <1>2 DEF TypeInv, TypeOK, Booked, Evict, Fault, Empty, memory
<1>3. ASSUME NEW w \in wire, Arrive(w) PROVE Booked'
  <2>1. /\ w.nonce \in Nonces /\ w.tx \in Txs /\ w.nonce \in Int
        /\ w.tx.kind = "launch" => w.nonce = signedAt[w.tx.id]
    BY LauncherAssumption DEF TypeInv, TypeOK, Booked, Nonces
  <2>2. \A n \in Nonces :
          pool'[n] = pool[n] \/ (n = w.nonce /\ n >= count /\ pool'[n] = w.tx)
    <3>1. CASE Takes(w.nonce, w.tx)
      BY <3>1, <2>1 DEF TypeInv, TypeOK, Takes
    <3>2. CASE UNCHANGED pool
      BY <3>2
    <3>. QED BY <1>3, <3>1, <3>2 DEF Arrive
  <2>3. /\ \A n \in Nonces : pool'[n].kind = "launch" => n = signedAt[pool'[n].id]
        /\ \A n \in Nonces : n < count => pool'[n] = Empty
    <3>1. \A n \in Nonces : pool'[n].kind = "launch" => n = signedAt[pool'[n].id]
      BY <2>1, <2>2 DEF Booked
    <3>2. \A n \in Nonces : n < count => pool'[n] = Empty
      BY <2>2, LauncherAssumption DEF TypeInv, TypeOK, Booked, Nonces, Counts
    <3>. QED BY <3>1, <3>2
  <2>. QED BY <1>3, <2>3 DEF Booked, Arrive, memory, ghosts
<1>4. ASSUME NEW act \in {"alone", "combo"}, Launch(act) PROVE Booked'
  BY <1>4
     DEF TypeInv, TypeOK, Booked, Launch, Fresh, Unread, chain, ghosts, Handlers, Signers,
         Begin, Counts
<1>5. ASSUME Bundle PROVE Booked'
  BY <1>5
     DEF TypeInv, TypeOK, Booked, Bundle, Fresh, Unread, chain, ghosts, Handlers, Signers,
         Begin, Counts
<1>6. ASSUME FundStart PROVE Booked'
  BY <1>6 DEF TypeInv, TypeOK, Booked, FundStart, Unread, chain, ghosts, Handlers, Signers
<1>7. ASSUME FundStop PROVE Booked'
  BY <1>7 DEF TypeInv, TypeOK, Booked, FundStop, Unread, chain, ghosts, Handlers, Signers
<1>8. ASSUME Resolve PROVE Booked'
  BY <1>8
     DEF TypeInv, TypeOK, Booked, Resolve, Fresh, Unread, chain, ghosts, Handlers, Signers,
         Begin, Counts
<1>9. ASSUME Crash PROVE Booked'
  BY <1>9, LauncherAssumption
     DEF TypeInv, TypeOK, Booked, Crash, Fresh, Unread, chain, Handlers, Signers, Counts,
         Fault
<1>10. ASSUME NEW act \in {"approve", "withdraw", "cancel"}, Action(act) PROVE Booked'
  BY <1>10
     DEF TypeInv, TypeOK, Booked, Action, Fresh, Unread, chain, ghosts, Handlers, Signers,
         Begin, Counts
<1>11. ASSUME NEW e \in Exits, Exit(e) PROVE Booked'
  BY <1>11 DEF TypeInv, TypeOK, Booked, Exit, Unread, chain, ghosts, Handlers, Signers
<1>12. ASSUME NEW e \in Exits, ExitEnds(e) PROVE Booked'
  BY <1>12 DEF TypeInv, TypeOK, Booked, ExitEnds, Unread, chain, ghosts, Handlers, Signers
<1>13. ASSUME FundTick PROVE Booked'
  BY <1>13
     DEF TypeInv, TypeOK, Booked, FundTick, Fresh, Unread, chain, ghosts, Handlers,
         Signers, Begin, Counts
<1>14. ASSUME GraceOver PROVE Booked'
  BY <1>14 DEF TypeInv, TypeOK, Booked, GraceOver, Unread, chain, ghosts, Handlers, Signers
<1>15. ASSUME Receipt PROVE Booked'
  BY <1>15
     DEF TypeInv, TypeOK, Booked, Receipt, Unread, chain, memory, ghosts, Handlers, Signers
<1>16. ASSUME LaunchEnds PROVE Booked'
  BY <1>16
     DEF TypeInv, TypeOK, Booked, LaunchEnds, Fresh, Unread, chain, ghosts, Handlers,
         Signers, Leave, Counts
<1>17. ASSUME ReadReceipt PROVE Booked'
  <2>1. \A g \in Handlers : hs'[g].lat \in {Unread, hs[g].lat}
    BY <1>17 DEF ReadReceipt, TypeInv, TypeOK, HandlerRecords, Fresh, Handlers, Signers
  <2>2. hs'["launch"] = hs["launch"]
    BY <1>17 DEF ReadReceipt, TypeInv, TypeOK, Handlers, Signers
  <2>. QED
   BY <1>17, <2>1, <2>2, LauncherAssumption
      DEF TypeInv, TypeOK, Booked, ReadReceipt, chain, ghosts, Counts, Unread
<1>18. ASSUME Verdict PROVE Booked'
  BY <1>18, LauncherAssumption
     DEF TypeInv, TypeOK, Booked, Verdict, Fresh, Unread, chain, ghosts, Handlers, Signers,
         Counts
<1>19. ASSUME ResolveFails PROVE Booked'
  BY <1>19, LauncherAssumption
     DEF TypeInv, TypeOK, Booked, ResolveFails, Fresh, Unread, chain, Handlers, Signers,
         Counts, Fault
<1>20. ASSUME SizeSplit PROVE Booked'
  BY <1>20
     DEF TypeInv, TypeOK, Booked, SizeSplit, Unread, chain, memory, ghosts, Handlers,
         Signers
<1>21. ASSUME NEW h \in Handlers, ReadPending(h) PROVE Booked'
  BY <1>21
     DEF TypeInv, TypeOK, Booked, ReadPending, Unread, chain, memory, ghosts, Handlers,
         Signers
<1>22. ASSUME NEW h \in Handlers, ReadLatest(h) PROVE Booked'
  BY <1>22, LauncherAssumption
     DEF TypeInv, TypeOK, Booked, ReadLatest, Unread, chain, memory, ghosts, Handlers,
         Signers, Counts
<1>23. ASSUME NEW h \in Signers, Sign(h) PROVE Booked'
  <2>1. h = "launch" => /\ hs[h].act # "cancel" /\ hs[h].pend <= hs[h].lat /\ hs[h].pend \in Nat /\ hs[h].lat \in Nat
                        /\ hs[h].lat <= count
    BY <1>23, LauncherAssumption
       DEF Sign, HasRead, Gate, TypeInv, TypeOK, Numbered, Booked, HandlerRecords,
           Handlers, Signers, Counts, Unread
  <2>2. \A i \in 1..Len(signedAt) : signedAt'[i] = signedAt[i]
    BY <1>23 DEF Sign, TypeInv, TypeOK
  <2>3. /\ Len(signedAt') \in Nat /\ Len(signedAt) \in Nat
        /\ IF h = "launch" THEN Len(signedAt') = Len(signedAt) + 1 /\ signedAt'[Len(signedAt')] = hs[h].pend
           ELSE signedAt' = signedAt
    BY <1>23, <2>1 DEF Sign, TypeInv, TypeOK
  <2>4. \A i \in 1..Len(signedAt') : signedAt'[i] <= count
    BY <2>1, <2>2, <2>3, LauncherAssumption DEF Booked, TypeInv, TypeOK, Counts
  <2>5. /\ \A g \in Handlers : hs'[g].lat <= count
        /\ hs'["launch"].pc = "signed" => hs'["launch"].nonce = signedAt'[Len(signedAt')]
    <3>1. hs \in [Handlers -> HandlerRecords] /\ h \in Handlers
      BY DEF TypeInv, TypeOK, Handlers
    <3>2. \A g \in Handlers : g # h => hs'[g] = hs[g]
      BY <1>23, <3>1 DEF Sign
    <3>3. /\ hs'[h].lat = Unread
          /\ hs'[h].nonce = IF hs[h].act = "cancel" THEN hs[h].lat ELSE hs[h].pend
      BY <1>23, <3>1 DEF Sign, HandlerRecords
    <3>4. Unread <= count
      BY LauncherAssumption DEF TypeInv, TypeOK, Counts, Unread
    <3>5. \A g \in Handlers : hs[g].lat <= count
      BY DEF Booked
    <3>6. \A g \in Handlers : hs'[g].lat <= count
      BY <3>2, <3>3, <3>4, <3>5
    <3>7. h = "launch" => hs'["launch"].nonce = signedAt'[Len(signedAt')]
      BY <2>1, <2>3, <3>3
    <3>8. h # "launch" /\ hs["launch"].pc = "signed"
          => hs'["launch"].nonce = signedAt'[Len(signedAt')]
      BY <2>3, <3>2 DEF Booked, Handlers, Signers
    <3>9. h # "launch" => hs'["launch"].pc = hs["launch"].pc
      BY <3>2 DEF Handlers, Signers
    <3>. QED BY <3>6, <3>7, <3>8, <3>9
  <2>6. /\ \A n \in Nonces : pool[n].kind = "launch" => n = signedAt'[pool[n].id]
        /\ \A x \in wire : x.tx.kind = "launch" => x.nonce = signedAt'[x.tx.id]
    BY <2>2 DEF TypeInv, Numbered, Booked
  <2>. QED BY <1>23, <2>4, <2>5, <2>6 DEF Booked, Sign, chain
<1>24. ASSUME NEW h \in Signers, Refuse(h) PROVE Booked'
  BY <1>24
     DEF TypeInv, TypeOK, Booked, Refuse, Fresh, Unread, chain, ghosts, Handlers, Signers,
         Leave, Counts
<1>25. ASSUME NEW h \in Signers, Fails(h) PROVE Booked'
  BY <1>25
     DEF TypeInv, TypeOK, Booked, Fails, Fresh, Unread, chain, Handlers, Signers, Leave,
         Counts
<1>26. ASSUME NEW h \in Signers, Sent(h) PROVE Booked'
  <2>1. /\ h \in Handlers /\ hs[h].pc = "signed" /\ (Answered(h) \/ Threw(h))
        /\ At(h) \in Nonces
        /\ Tx(h).kind = "launch" => h = "launch" /\ At(h) = hs[h].nonce /\ Tx(h).id = Len(signedAt)
    BY <1>26, SendType DEF Sent, Handlers
  <2>2. PICK r \in HandlerRecords :
          /\ hs' = [hs EXCEPT ![h] = r] /\ r.lat \in {Unread, hs[h].lat}
          /\ h = "launch" => r.pc \in {"waiting", "unknown"}
    BY <2>1, AfterSend
  <2>3. \A g \in Handlers : hs'[g].lat <= count
    BY <2>1, <2>2, LauncherAssumption DEF TypeInv, TypeOK, Booked, Counts, Unread
  <2>4. hs'["launch"].pc # "signed" \/ hs'["launch"] = hs["launch"]
    BY <2>1, <2>2 DEF TypeInv, TypeOK, Handlers, Signers
  <2>5. Tx(h).kind = "launch" => At(h) = signedAt[Tx(h).id]
    BY <2>1 DEF Booked
  <2>6. \A n \in Nonces :
          pool'[n] = pool[n] \/ (n = At(h) /\ n >= count /\ pool'[n] = Tx(h))
    BY <1>26, <2>1 DEF TypeInv, TypeOK, Sent, Takes
  <2>7. /\ \A n \in Nonces : pool'[n].kind = "launch" => n = signedAt[pool'[n].id]
        /\ \A n \in Nonces : n < count => pool'[n] = Empty
    BY <2>5, <2>6, LauncherAssumption DEF TypeInv, TypeOK, Booked, Nonces, Counts
  <2>. QED BY <1>26, <2>3, <2>4, <2>7 DEF Booked, Sent, ghosts
<1>27. ASSUME NEW h \in Signers, SendLost(h) PROVE Booked'
  <2>1. /\ h \in Handlers /\ hs[h].pc = "signed" /\ (Answered(h) \/ Threw(h))
        /\ At(h) \in Nonces
        /\ Tx(h).kind = "launch" => h = "launch" /\ At(h) = hs[h].nonce /\ Tx(h).id = Len(signedAt)
    BY <1>27, SendType DEF SendLost, Handlers
  <2>2. PICK r \in HandlerRecords :
          /\ hs' = [hs EXCEPT ![h] = r] /\ r.lat \in {Unread, hs[h].lat}
          /\ h = "launch" => r.pc \in {"waiting", "unknown"}
    BY <2>1, AfterSend
  <2>3. \A g \in Handlers : hs'[g].lat <= count
    BY <2>1, <2>2, LauncherAssumption DEF TypeInv, TypeOK, Booked, Counts, Unread
  <2>4. hs'["launch"].pc # "signed" \/ hs'["launch"] = hs["launch"]
    BY <2>1, <2>2 DEF TypeInv, TypeOK, Handlers, Signers
  <2>5. Tx(h).kind = "launch" => At(h) = signedAt[Tx(h).id]
    BY <2>1 DEF Booked
  <2>6. \A n \in Nonces :
          pool'[n] = pool[n] \/ (n = At(h) /\ n >= count /\ pool'[n] = Tx(h))
    <3>1. CASE Takes(At(h), Tx(h))
      BY <3>1, <2>1 DEF TypeInv, TypeOK, Takes
    <3>2. CASE UNCHANGED pool
      BY <3>2
    <3>. QED BY <1>27, <3>1, <3>2 DEF SendLost
  <2>7. /\ \A n \in Nonces : pool'[n].kind = "launch" => n = signedAt[pool'[n].id]
        /\ \A n \in Nonces : n < count => pool'[n] = Empty
    BY <2>5, <2>6, LauncherAssumption DEF TypeInv, TypeOK, Booked, Nonces, Counts
  <2>. QED BY <1>27, <2>3, <2>4, <2>7 DEF Booked, SendLost, ghosts
<1>28. ASSUME NEW h \in Signers, SendLate(h) PROVE Booked'
  <2>1. /\ h \in Handlers /\ hs[h].pc = "signed" /\ (Answered(h) \/ Threw(h))
        /\ At(h) \in Nonces
        /\ Tx(h).kind = "launch" => h = "launch" /\ At(h) = hs[h].nonce /\ Tx(h).id = Len(signedAt)
    BY <1>28, SendType DEF SendLate, Handlers
  <2>2. PICK r \in HandlerRecords :
          /\ hs' = [hs EXCEPT ![h] = r] /\ r.lat \in {Unread, hs[h].lat}
          /\ h = "launch" => r.pc \in {"waiting", "unknown"}
    BY <2>1, AfterSend
  <2>3. \A g \in Handlers : hs'[g].lat <= count
    BY <2>1, <2>2, LauncherAssumption DEF TypeInv, TypeOK, Booked, Counts, Unread
  <2>4. hs'["launch"].pc # "signed" \/ hs'["launch"] = hs["launch"]
    BY <2>1, <2>2 DEF TypeInv, TypeOK, Handlers, Signers
  <2>5. Tx(h).kind = "launch" => At(h) = signedAt[Tx(h).id]
    BY <2>1 DEF Booked
  <2>. QED BY <1>28, <2>1, <2>3, <2>4, <2>5 DEF TypeInv, TypeOK, Booked, SendLate
<1>29. ASSUME NEW h \in Signers, Ends(h) PROVE Booked'
  BY <1>29
     DEF TypeInv, TypeOK, Booked, Ends, Fresh, Unread, chain, ghosts, Handlers, Signers,
         Leave, Counts
<1>30. ASSUME UNCHANGED vars PROVE Booked'
  BY <1>30 DEF Booked, vars
<1>. QED
  BY <1>1, <1>2, <1>3, <1>4, <1>5, <1>6, <1>7, <1>8, <1>9, <1>10, <1>11, <1>12, <1>13,
     <1>14, <1>15, <1>16, <1>17, <1>18, <1>19, <1>20, <1>21, <1>22, <1>23, <1>24, <1>25,
     <1>26, <1>27, <1>28, <1>29, <1>30
  DEF Next, Network, Requests, Timers, Reads, Steps

\* Every launch that was signed has a nonce the mined count had reached, so that
\* all launches that may still be mined compete for one nonce (launch.js's nonce gate).
THEOREM Booking == Spec => [](TypeInv /\ Booked)
<1>1. Init => TypeInv /\ Booked
  BY InitTypes, InitBooked
<1>2. TypeInv /\ Booked /\ [Next]_vars => (TypeInv /\ Booked)'
  BY StepTypes, StepBooked
<1>. QED BY <1>1, <1>2, PTL DEF Spec

\* No two launches can both be mined, whatever was lost, sent late, evicted or
\* forgotten by restarts, and whatever hash /resolve was asked of.
THEOREM OneFee == Spec => []OneLaunchCanMine
<1>1. TypeInv /\ Booked => OneLaunchCanMine
  <2>. SUFFICES ASSUME TypeInv, Booked, NEW i \in 1..MaxLaunches, NEW n \in Nonces, Out(i, n)
                PROVE  n = count
    BY DEF OneLaunchCanMine
  <2>1. i \in 1..Len(signedAt) /\ n = signedAt[i]
    <3>1. CASE pool[n] = [kind |-> "launch", id |-> i]
      BY <3>1 DEF TypeInv, Numbered, Booked
    <3>2. CASE [nonce |-> n, tx |-> [kind |-> "launch", id |-> i]] \in wire
      BY <3>2 DEF TypeInv, Numbered, Booked
    <3>3. CASE hs["launch"].pc = "signed" /\ hs["launch"].nonce = n /\ Len(signedAt) = i
      BY <3>3 DEF TypeInv, Numbered, Booked
    <3>. QED BY <3>1, <3>2, <3>3 DEF Out
  <2>2. n <= count
    BY <2>1 DEF Booked
  <2>. QED BY <2>2, LauncherAssumption DEF Out, TypeInv, TypeOK, Counts, Nonces
<1>. QED BY Booking, <1>1, PTL
-----------------------------------------------------------------------------
(* The locks                                                               *)

\* A lock that is taken, or the funding job that will tick.
Using(h) == ~Idle(h) \/ (h = "fund" /\ job = "running")

Alone ==
  /\ \A g, h \in Signers : Using(g) /\ Using(h) => g = h
  /\ \A e \in exits : exits = {e} /\ ~bundling /\ hs["launch"].act # "combo"
  /\ ~launching => hs["launch"].act = "none"

LEMMA InitAlone == Init => Alone
BY DEF Init, Alone, Using, Idle, Fresh, Handlers, Signers, launching

LEMMA NoExits ==
  ASSUME TypeInv, ~selling, ~buying
  PROVE  exits = {} /\ hs["launch"].act # "combo"
BY LauncherAssumption DEF TypeInv, TypeOK, selling, buying

\* Reading, signing and sending change no lock but by letting it go.
LEMMA LocksStay ==
  ASSUME TypeInv, TypeInv', Alone, NEW h \in Signers, ~Idle(h), UNCHANGED exits,
         job' = "running" => job = "running",
         \A g \in Handlers \ {h} : hs'[g] = hs[g],
         hs'[h].act \in {"none", hs[h].act},
         h = "launch" => ~Idle(h)' \/ hs'[h].act = "none"
  PROVE  Alone'
<1>1. \A g \in Signers : Using(g)' => Using(g)
  BY DEF Using, Idle, Handlers, Signers
<1>2. hs'["launch"].act \in {"none", hs["launch"].act}
  BY DEF Handlers, Signers
<1>3. bundling' => bundling
  BY DEF bundling, Idle, Handlers, Signers
<1>4. ~launching' => hs'["launch"].act = "none"
  BY DEF launching, Alone, Idle, Handlers, Signers
<1>. QED BY <1>1, <1>2, <1>3, <1>4 DEF Alone

\* A step keeps the locks.
LEMMA StepAlone ==
  ASSUME TypeInv, TypeInv', Alone, [Next]_vars
  PROVE  Alone'
<1>1. ASSUME Mine PROVE Alone'
  BY <1>1
     DEF TypeInv, TypeOK, Alone, Using, Idle, launching, bundling, Handlers, Signers, Mine,
         memory, ghosts
<1>2. ASSUME NEW n \in Nonces, Evict(n) PROVE Alone'
  BY <1>2
     DEF TypeInv, TypeOK, Alone, Using, Idle, launching, bundling, Handlers, Signers,
         Evict, memory
<1>3. ASSUME NEW w \in wire, Arrive(w) PROVE Alone'
  BY <1>3
     DEF TypeInv, TypeOK, Alone, Using, Idle, launching, bundling, Handlers, Signers,
         Arrive, memory, ghosts
<1>4. ASSUME NEW act \in {"alone", "combo"}, Launch(act) PROVE Alone'
  BY <1>4, NoExits
     DEF TypeInv, TypeOK, Alone, Using, Idle, launching, bundling, launcherBusy, selling,
         buying, inFlight, relayFundingActive, Fresh, Handlers, Signers, Launch, Begin,
         withLaunchLock
<1>5. ASSUME Bundle PROVE Alone'
  BY <1>5, NoExits
     DEF TypeInv, TypeOK, Alone, Using, Idle, launching, bundling, launcherBusy, selling,
         buying, inFlight, relayFundingActive, Fresh, Handlers, Signers, Bundle, Begin,
         withBundleLock
<1>6. ASSUME FundStart PROVE Alone'
  BY <1>6
     DEF TypeInv, TypeOK, Alone, Using, Idle, launching, bundling, launcherBusy, inFlight,
         Handlers, Signers, FundStart, chain, ghosts
<1>7. ASSUME FundStop PROVE Alone'
  BY <1>7
     DEF TypeInv, TypeOK, Alone, Using, Idle, launching, bundling, Handlers, Signers,
         FundStop, chain, ghosts
<1>8. ASSUME Resolve PROVE Alone'
  BY <1>8
     DEF TypeInv, TypeOK, Alone, Using, Idle, launching, bundling, Fresh, Handlers,
         Signers, Resolve, Begin
<1>9. ASSUME Crash PROVE Alone'
  BY <1>9
     DEF TypeInv, TypeOK, Alone, Using, Idle, launching, bundling, Fresh, Handlers,
         Signers, Crash, chain
<1>10. ASSUME NEW act \in {"approve", "withdraw", "cancel"}, Action(act) PROVE Alone'
  BY <1>10
     DEF TypeInv, TypeOK, Alone, Using, Idle, launching, bundling, launcherBusy, selling,
         inFlight, relayFundingActive, Fresh, Handlers, Signers, Action, Begin,
         withLauncherLock
<1>11. ASSUME NEW e \in Exits, Exit(e) PROVE Alone'
  BY <1>11, NoExits
     DEF TypeInv, TypeOK, Alone, Using, Idle, launching, bundling, selling, buying,
         Handlers, Signers, Exit, chain, ghosts
<1>12. ASSUME NEW e \in Exits, ExitEnds(e) PROVE Alone'
  BY <1>12
     DEF TypeInv, TypeOK, Alone, Using, Idle, launching, bundling, Handlers, Signers,
         ExitEnds, chain, ghosts
<1>13. ASSUME FundTick PROVE Alone'
  BY <1>13
     DEF TypeInv, TypeOK, Alone, Using, Idle, launching, bundling, inFlight, Fresh,
         Handlers, Signers, FundTick, Begin
<1>14. ASSUME GraceOver PROVE Alone'
  BY <1>14
     DEF TypeInv, TypeOK, Alone, Using, Idle, launching, bundling, Handlers, Signers,
         GraceOver, chain, ghosts
<1>15. ASSUME Receipt PROVE Alone'
  BY <1>15
     DEF TypeInv, TypeOK, Alone, Using, Idle, launching, bundling, Handlers, Signers,
         Receipt, chain, memory, ghosts
<1>16. ASSUME LaunchEnds PROVE Alone'
  BY <1>16
     DEF TypeInv, TypeOK, Alone, Using, Idle, launching, bundling, Fresh, Handlers,
         Signers, LaunchEnds, Leave
<1>17. ASSUME ReadReceipt PROVE Alone'
  BY <1>17
     DEF TypeInv, TypeOK, Alone, Using, Idle, launching, bundling, Fresh, Handlers,
         Signers, ReadReceipt, chain, ghosts
<1>18. ASSUME Verdict PROVE Alone'
  BY <1>18
     DEF TypeInv, TypeOK, Alone, Using, Idle, launching, bundling, Fresh, Handlers,
         Signers, Verdict, chain, ghosts
<1>19. ASSUME ResolveFails PROVE Alone'
  BY <1>19
     DEF TypeInv, TypeOK, Alone, Using, Idle, launching, bundling, Fresh, Handlers,
         Signers, ResolveFails, chain
<1>20. ASSUME SizeSplit PROVE Alone'
  BY <1>20
     DEF TypeInv, TypeOK, Alone, Using, Idle, launching, bundling, Handlers, Signers,
         SizeSplit, chain, memory, ghosts
<1>21. ASSUME NEW h \in Handlers, ReadPending(h) PROVE Alone'
  BY <1>21
     DEF TypeInv, TypeOK, Alone, Using, Idle, launching, bundling, Handlers, Signers,
         ReadPending, chain, memory, ghosts
<1>22. ASSUME NEW h \in Handlers, ReadLatest(h) PROVE Alone'
  BY <1>22
     DEF TypeInv, TypeOK, Alone, Using, Idle, launching, bundling, Handlers, Signers,
         ReadLatest, chain, memory, ghosts
<1>23. ASSUME NEW h \in Signers, Sign(h) PROVE Alone'
  <2>1. /\ ~Idle(h) /\ hs'[h].act = hs[h].act /\ ~Idle(h)'
        /\ \A g \in Handlers \ {h} : hs'[g] = hs[g]
    BY <1>23 DEF Sign, HasRead, Idle, TypeInv, TypeOK, HandlerRecords, Handlers
  <2>. QED BY <1>23, <2>1, LocksStay DEF Sign
<1>24. ASSUME NEW h \in Signers, Refuse(h) PROVE Alone'
  BY <1>24
     DEF TypeInv, TypeOK, Alone, Using, Idle, launching, bundling, Fresh, Handlers,
         Signers, Refuse, Leave
<1>25. ASSUME NEW h \in Signers, Fails(h) PROVE Alone'
  BY <1>25
     DEF TypeInv, TypeOK, Alone, Using, Idle, launching, bundling, Fresh, Handlers,
         Signers, Fails, Leave
<1>26. ASSUME NEW h \in Signers, Sent(h) PROVE Alone'
  <2>1. ~Idle(h) /\ (Answered(h) \/ Threw(h)) /\ hs[h].pc = "signed"
    BY <1>26 DEF Sent, Idle
  <2>2. PICK r \in HandlerRecords :
          /\ hs' = [hs EXCEPT ![h] = r] /\ r.act \in {"none", hs[h].act}
          /\ h = "launch" => r.pc \in {"waiting", "unknown"}
    BY <2>1, AfterSend
  <2>3. job' = "running" => job = "running"
    BY <2>1, AfterSend
  <2>4. /\ hs'[h] = r /\ \A g \in Handlers \ {h} : hs'[g] = hs[g]
    BY <2>2 DEF TypeInv, TypeOK, Handlers
  <2>. QED BY <1>26, <2>1, <2>2, <2>3, <2>4, LocksStay DEF Sent, Idle
<1>27. ASSUME NEW h \in Signers, SendLost(h) PROVE Alone'
  <2>1. ~Idle(h) /\ (Answered(h) \/ Threw(h)) /\ hs[h].pc = "signed"
    BY <1>27 DEF SendLost, Idle
  <2>2. PICK r \in HandlerRecords :
          /\ hs' = [hs EXCEPT ![h] = r] /\ r.act \in {"none", hs[h].act}
          /\ h = "launch" => r.pc \in {"waiting", "unknown"}
    BY <2>1, AfterSend
  <2>3. job' = "running" => job = "running"
    BY <2>1, AfterSend
  <2>4. /\ hs'[h] = r /\ \A g \in Handlers \ {h} : hs'[g] = hs[g]
    BY <2>2 DEF TypeInv, TypeOK, Handlers
  <2>. QED BY <1>27, <2>1, <2>2, <2>3, <2>4, LocksStay DEF SendLost, Idle
<1>28. ASSUME NEW h \in Signers, SendLate(h) PROVE Alone'
  <2>1. ~Idle(h) /\ (Answered(h) \/ Threw(h)) /\ hs[h].pc = "signed"
    BY <1>28 DEF SendLate, Idle
  <2>2. PICK r \in HandlerRecords :
          /\ hs' = [hs EXCEPT ![h] = r] /\ r.act \in {"none", hs[h].act}
          /\ h = "launch" => r.pc \in {"waiting", "unknown"}
    BY <2>1, AfterSend
  <2>3. job' = "running" => job = "running"
    BY <2>1, AfterSend
  <2>4. /\ hs'[h] = r /\ \A g \in Handlers \ {h} : hs'[g] = hs[g]
    BY <2>2 DEF TypeInv, TypeOK, Handlers
  <2>. QED BY <1>28, <2>1, <2>2, <2>3, <2>4, LocksStay DEF SendLate, Idle
<1>29. ASSUME NEW h \in Signers, Ends(h) PROVE Alone'
  BY <1>29
     DEF TypeInv, TypeOK, Alone, Using, Idle, launching, bundling, Fresh, Handlers,
         Signers, Ends, Leave
<1>30. ASSUME UNCHANGED vars PROVE Alone'
  BY <1>30
     DEF TypeInv, TypeOK, Alone, Using, Idle, launching, bundling, Handlers, Signers, vars
<1>. QED
  BY <1>1, <1>2, <1>3, <1>4, <1>5, <1>6, <1>7, <1>8, <1>9, <1>10, <1>11, <1>12, <1>13,
     <1>14, <1>15, <1>16, <1>17, <1>18, <1>19, <1>20, <1>21, <1>22, <1>23, <1>24, <1>25,
     <1>26, <1>27, <1>28, <1>29, <1>30
  DEF Next, Network, Requests, Timers, Reads, Steps

\* One handler at a time is between its first read and its last request, and the
\* bundle wallets are spent by one at a time; no assumption on the faults.
THEOREM OneKey == Spec => []OneSpender
<1>1. Init => TypeInv /\ Alone
  BY InitTypes, InitAlone
<1>2. TypeInv /\ Alone /\ [Next]_vars => (TypeInv /\ Alone)'
  BY StepTypes, StepAlone
<1>3. TypeInv /\ Alone => OneSpender
  <2>. SUFFICES ASSUME TypeInv, Alone PROVE OneSpender
    OBVIOUS
  <2>1. \A h \in Signers : Signing(h) => Using(h)
    BY DEF Signing, Using, Idle
  <2>2. bundling => ~launching
    BY DEF Alone, Using, bundling, launching, Signers
  <2>. QED BY <2>1, <2>2 DEF Alone, OneSpender
<1>. QED BY <1>1, <1>2, <1>3, PTL DEF Spec
-----------------------------------------------------------------------------
(* The marker                                                              *)

\* A parked launch is signed and done with; /resolve is asked of it and of no other.
ParkedIsDone ==
  /\ parked # NoMark => /\ ~launching /\ parked.id \in 1..Len(signedAt)
                        /\ parked.nonce = signedAt[parked.id]
  /\ Idle("resolve") \/ (parked # NoMark /\ asked = parked)

\* A launch that is about to be sent is nowhere yet; what is on the wire is loose.
SignedIsNew ==
  /\ mined \subseteq 1..Len(signedAt) /\ loose \subseteq 1..Len(signedAt)
  /\ \A x \in wire : x.tx.kind = "launch" => x.tx.id \in loose
  /\ hs["launch"].pc = "signed" =>
       /\ Len(signedAt) \notin mined /\ Len(signedAt) \notin loose
       /\ \A n \in Nonces : pool[n].kind = "launch" => pool[n].id # Len(signedAt)

\* A live launch of this process is not mined, and is the parked one or the one
\* whose handler waits.
LiveIsKnown ==
  \A n \in Nonces :
    pool[n].kind = "launch" /\ pool[n].id \notin loose =>
      /\ pool[n].id \notin mined
      /\ \/ parked.id = pool[n].id
         \/ hs["launch"].pc \in {"waiting", "unknown"} /\ pool[n].id = Len(signedAt)

\* Once /resolve has read that nothing is pending at its nonce the launch is gone.
GoneIsGone ==
  /\ hs["resolve"].pc = "receipt" => hs["resolve"].pend = Unread
  /\ hs["resolve"].pc = "reading" /\ hs["resolve"].pend # Unread /\ hs["resolve"].pend <= asked.nonce =>
       \A n \in Nonces : pool[n].kind = "launch" /\ pool[n].id \notin loose => pool[n].id # asked.id

Guarded == ParkedIsDone /\ SignedIsNew /\ LiveIsKnown /\ GoneIsGone

LEMMA InitGuarded == Init => Guarded
BY DEF Init, Guarded, ParkedIsDone, SignedIsNew, LiveIsKnown, GoneIsGone, Idle, Fresh,
   Empty, Handlers, Signers

\* The mempool may lose anything and take what is no launch or a loose one.
LEMMA OthersMayAct ==
  ASSUME TypeInv, Guarded,
         UNCHANGED <<mined, signedAt, asked, parked, loose>>,
         \A x \in wire' : x \in wire \/ x.tx.kind # "launch",
         \A n \in Nonces : pool'[n] = pool[n] \/ (pool'[n].kind = "launch" => pool'[n].id \in loose),
         hs'["launch"] = hs["launch"], hs'["resolve"] = hs["resolve"]
  PROVE  Guarded'
<1>1. ParkedIsDone'
  BY DEF Guarded, ParkedIsDone, launching, Idle
<1>2. SignedIsNew'
  BY DEF Guarded, SignedIsNew
<1>3. LiveIsKnown'
  BY DEF Guarded, LiveIsKnown
<1>4. GoneIsGone'
  BY DEF Guarded, GoneIsGone
<1>. QED BY <1>1, <1>2, <1>3, <1>4 DEF Guarded

\* So may the launch's handler, as long as it has not signed.
LEMMA BeforeItSigns ==
  ASSUME TypeInv, Guarded, parked = NoMark \/ hs'["launch"].pc = "idle",
         UNCHANGED <<chain, signedAt, asked, parked, loose>>,
         hs["launch"].pc \in {"idle", "sizing", "reading", "signed"}, hs'["launch"].pc \in {"idle", "reading"},
         hs'["resolve"] = hs["resolve"]
  PROVE  Guarded'
<1>1. ParkedIsDone'
  BY DEF Guarded, ParkedIsDone, launching, Idle
<1>2. SignedIsNew'
  BY DEF Guarded, SignedIsNew, chain
<1>3. LiveIsKnown'
  BY DEF Guarded, LiveIsKnown, chain
<1>4. GoneIsGone'
  BY DEF Guarded, GoneIsGone, chain
<1>. QED BY <1>1, <1>2, <1>3, <1>4 DEF Guarded

\* When the parked launch is mined or gone, no live launch is left.
LEMMA MarkerGoes ==
  ASSUME TypeInv, Guarded, parked # NoMark, parked' = NoMark,
         \A n \in Nonces : pool[n].kind = "launch" /\ pool[n].id \notin loose => pool[n].id # parked.id,
         UNCHANGED <<chain, signedAt, loose>>,
         hs'["launch"] = hs["launch"], hs'["resolve"].pc = "idle"
  PROVE  Guarded'
<1>1. hs["launch"].pc = "idle"
  BY DEF Guarded, ParkedIsDone, launching, Idle
<1>2. \A n \in Nonces : pool[n].kind = "launch" => pool[n].id \in loose
  BY <1>1 DEF Guarded, LiveIsKnown
<1>3. ParkedIsDone' /\ GoneIsGone'
  BY DEF ParkedIsDone, GoneIsGone, Idle
<1>4. SignedIsNew' /\ LiveIsKnown'
  BY <1>1, <1>2 DEF Guarded, SignedIsNew, LiveIsKnown, chain
<1>. QED BY <1>3, <1>4 DEF Guarded

LEMMA MarkerStays ==
  ASSUME TypeInv, Guarded, UNCHANGED <<chain, signedAt, loose, parked>>,
         hs'["launch"] = hs["launch"],
         \/ hs'["resolve"].pc = "idle"
         \/ /\ hs["resolve"].pc \in {"receipt", "reading"} /\ hs'["resolve"].pc = "reading" /\ asked' = asked
            /\ \/ hs'["resolve"].pend = hs["resolve"].pend
               \/ hs'["resolve"].pend <= asked.nonce =>
                    \A n \in Nonces : pool[n].kind = "launch" /\ pool[n].id \notin loose => pool[n].id # asked.id
  PROVE  Guarded'
<1>1. ParkedIsDone' /\ GoneIsGone'
  BY DEF Guarded, ParkedIsDone, GoneIsGone, Idle, launching, chain
<1>2. SignedIsNew' /\ LiveIsKnown'
  BY DEF Guarded, SignedIsNew, LiveIsKnown, chain
<1>. QED BY <1>1, <1>2 DEF Guarded

\* A step keeps the marker.
LEMMA StepGuarded ==
  ASSUME AnyHash = FALSE, TypeInv, TypeInv', Booked, Booked', Guarded, [Next]_vars
  PROVE  Guarded'
<1>1. ASSUME Mine PROVE Guarded'
  <2>1. count \in Nonces
    BY <1>1, LauncherAssumption DEF Mine, TypeInv, TypeOK, Counts, Nonces
  <2>2. \A n \in Nonces : pool'[n].kind = "launch" => n # count /\ pool'[n] = pool[n]
    BY <1>1, <2>1 DEF Mine, TypeInv, TypeOK, Empty
  <2>3. \/ mined' = mined
        \/ /\ pool[count].kind = "launch" /\ mined' = mined \cup {pool[count].id}
           /\ pool[count].id \in 1..Len(signedAt)
           /\ \A n \in Nonces : pool[n].kind = "launch" /\ n # count => pool[n].id # pool[count].id
    BY <1>1, <2>1 DEF Mine, TypeInv, Numbered, Booked
  <2>4. ParkedIsDone' /\ GoneIsGone'
    BY <1>1, <2>2
       DEF Mine, Guarded, ParkedIsDone, GoneIsGone, launching, Idle, memory, ghosts
  <2>5. SignedIsNew'
    BY <1>1, <2>1, <2>2, <2>3 DEF Mine, Guarded, SignedIsNew, memory, ghosts
  <2>6. LiveIsKnown'
    BY <1>1, <2>2, <2>3 DEF Mine, Guarded, LiveIsKnown, memory, ghosts
  <2>. QED BY <2>4, <2>5, <2>6 DEF Guarded
<1>2. ASSUME NEW n \in Nonces, Evict(n) PROVE Guarded'
  <2>1. \A m \in Nonces : pool'[m] = pool[m] \/ pool'[m].kind # "launch"
    BY <1>2 DEF Evict, TypeInv, TypeOK, Empty
  <2>. QED BY <1>2, <2>1, OthersMayAct DEF Evict, memory
<1>3. ASSUME NEW w \in wire, Arrive(w) PROVE Guarded'
  <2>1. \A n \in Nonces : pool'[n] = pool[n] \/ (n = w.nonce /\ pool'[n] = w.tx)
    <3>1. CASE Takes(w.nonce, w.tx)
      BY <3>1 DEF TypeInv, TypeOK, Takes
    <3>2. CASE UNCHANGED pool
      BY <3>2
    <3>. QED BY <1>3, <3>1, <3>2 DEF Arrive
  <2>2. w.tx.kind = "launch" => w.tx.id \in loose
    BY DEF Guarded, SignedIsNew
  <2>. QED BY <1>3, <2>1, <2>2, OthersMayAct DEF Arrive, memory, ghosts
<1>4. ASSUME NEW act \in {"alone", "combo"}, Launch(act) PROVE Guarded'
  BY <1>4, BeforeItSigns
     DEF TypeInv, TypeOK, Launch, Begin, withLaunchLock, launching, Idle, Fresh, chain,
         ghosts, Handlers, Signers
<1>5. ASSUME Bundle PROVE Guarded'
  BY <1>5, OthersMayAct
     DEF TypeInv, TypeOK, Bundle, Begin, chain, ghosts, Handlers, Signers
<1>6. ASSUME FundStart PROVE Guarded'
  BY <1>6, OthersMayAct
     DEF TypeInv, TypeOK, FundStart, chain, ghosts, Handlers, Signers
<1>7. ASSUME FundStop PROVE Guarded'
  BY <1>7, OthersMayAct
     DEF TypeInv, TypeOK, FundStop, chain, ghosts, Handlers, Signers
<1>8. ASSUME Resolve PROVE Guarded'
  BY <1>8, LauncherAssumption
     DEF TypeInv, TypeOK, Guarded, ParkedIsDone, SignedIsNew, LiveIsKnown, GoneIsGone,
         Numbered, Booked, Resolve, chain, ghosts, Begin, Idle, launching, Fresh, Unread,
         Handlers, Signers
<1>9. ASSUME Crash PROVE Guarded'
  BY <1>9, LauncherAssumption
     DEF TypeInv, TypeOK, Guarded, ParkedIsDone, SignedIsNew, LiveIsKnown, GoneIsGone,
         Numbered, Booked, Crash, chain, Fault, Idle, launching, Fresh, Unread, Handlers,
         Signers
<1>10. ASSUME NEW act \in {"approve", "withdraw", "cancel"}, Action(act) PROVE Guarded'
  BY <1>10, OthersMayAct
     DEF TypeInv, TypeOK, Action, Begin, chain, ghosts, Handlers, Signers
<1>11. ASSUME NEW e \in Exits, Exit(e) PROVE Guarded'
  BY <1>11, OthersMayAct
     DEF TypeInv, TypeOK, Exit, chain, ghosts, Handlers, Signers
<1>12. ASSUME NEW e \in Exits, ExitEnds(e) PROVE Guarded'
  BY <1>12, OthersMayAct
     DEF TypeInv, TypeOK, ExitEnds, chain, ghosts, Handlers, Signers
<1>13. ASSUME FundTick PROVE Guarded'
  BY <1>13, OthersMayAct
     DEF TypeInv, TypeOK, FundTick, Begin, chain, ghosts, Handlers, Signers
<1>14. ASSUME GraceOver PROVE Guarded'
  BY <1>14, OthersMayAct
     DEF TypeInv, TypeOK, GraceOver, chain, ghosts, Handlers, Signers
<1>15. ASSUME Receipt PROVE Guarded'
  BY <1>15, LauncherAssumption
     DEF TypeInv, TypeOK, Guarded, ParkedIsDone, SignedIsNew, LiveIsKnown, GoneIsGone,
         Numbered, Booked, Receipt, chain, memory, ghosts, Idle, launching, Unread,
         Handlers, Signers
<1>16. ASSUME LaunchEnds PROVE Guarded'
  <2>1. /\ hs["launch"].pc \in {"tail", "unknown"} /\ hs'["launch"] = Fresh
        /\ hs'["resolve"] = hs["resolve"] /\ Fresh.pc = "idle"
    BY <1>16 DEF LaunchEnds, Leave, TypeInv, TypeOK, Handlers, Signers, Fresh
  <2>2. parked = NoMark /\ Idle("resolve")
    BY <2>1 DEF Guarded, ParkedIsDone, launching, Idle
  <2>3. Len(signedAt) \in 1..Len(signedAt) /\ NoMark.id \notin 1..Len(signedAt)
    BY <2>1 DEF TypeInv, TypeOK, Numbered, SentOrSoon, NoMark
  <2>4. ParkedIsDone'
    BY <1>16, <2>1, <2>2, <2>3 DEF LaunchEnds, ParkedIsDone, launching, Idle, chain, ghosts
  <2>5. SignedIsNew'
    BY <1>16, <2>1 DEF LaunchEnds, Guarded, SignedIsNew, chain, ghosts
  <2>6. LiveIsKnown'
    <3>1. \A n \in Nonces : pool[n].kind = "launch" /\ pool[n].id \notin loose =>
            /\ hs["launch"].pc = "unknown" /\ pool[n].id = Len(signedAt) /\ pool[n].id \notin mined
      BY <2>1, <2>2, <2>3 DEF Guarded, LiveIsKnown, TypeInv, Numbered
    <3>. QED BY <1>16, <3>1 DEF LaunchEnds, LiveIsKnown, chain, ghosts
  <2>7. GoneIsGone'
    BY <2>1, <2>2 DEF GoneIsGone, Idle
  <2>. QED BY <2>4, <2>5, <2>6, <2>7 DEF Guarded
<1>17. ASSUME ReadReceipt PROVE Guarded'
  <2>1. hs["resolve"].pc = "receipt" /\ asked = parked /\ parked # NoMark
    BY <1>17 DEF ReadReceipt, Guarded, ParkedIsDone, Idle
  <2>2. CASE asked.id \in mined
    <3>1. \A n \in Nonces : pool[n].kind = "launch" /\ pool[n].id \notin loose => pool[n].id # parked.id
      BY <2>1, <2>2 DEF Guarded, LiveIsKnown
    <3>2. hs'["launch"] = hs["launch"] /\ hs'["resolve"].pc = "idle" /\ parked' = NoMark
      BY <1>17, <2>2 DEF ReadReceipt, TypeInv, TypeOK, Handlers, Signers, Fresh
    <3>. QED BY <1>17, <2>1, <3>1, <3>2, MarkerGoes DEF ReadReceipt, ghosts
  <2>3. CASE asked.id \notin mined
    <3>1. /\ hs'["launch"] = hs["launch"] /\ hs'["resolve"].pc = "reading" /\ UNCHANGED <<parked, asked>>
          /\ hs'["resolve"].pend = hs["resolve"].pend
      BY <1>17, <2>3 DEF ReadReceipt, TypeInv, TypeOK, HandlerRecords, Handlers, Signers
    <3>. QED BY <1>17, <2>1, <3>1, MarkerStays DEF ReadReceipt, ghosts
  <2>. QED BY <2>2, <2>3
<1>18. ASSUME Verdict PROVE Guarded'
  <2>1. hs["resolve"].pc = "reading" /\ hs["resolve"].pend # Unread /\ asked = parked /\ parked # NoMark
    BY <1>18 DEF Verdict, HasRead, Guarded, ParkedIsDone, Idle
  <2>2. hs'["launch"] = hs["launch"] /\ hs'["resolve"].pc = "idle"
    BY <1>18 DEF Verdict, TypeInv, TypeOK, Handlers, Signers, Fresh
  <2>3. CASE hs["resolve"].lat > asked.nonce
    <3>1. asked.nonce \in Nonces /\ asked.nonce < count
      <4>1. asked.nonce \in Nonces /\ asked.nonce \in Int
        BY <2>1, LauncherAssumption DEF TypeInv, TypeOK, Marker, Nonces
      <4>2. /\ hs["resolve"].lat <= count /\ count \in Int /\ hs["resolve"].lat \in Int
        BY LauncherAssumption
           DEF TypeInv, TypeOK, Booked, HandlerRecords, Handlers, Counts, Unread
      <4>. QED BY <2>3, <4>1, <4>2
    <3>2. \A n \in Nonces : pool[n].kind = "launch" => pool[n].id # parked.id
      BY <2>1, <3>1 DEF Guarded, ParkedIsDone, Booked, Empty
    <3>3. parked' = NoMark
      BY <1>18, <2>3 DEF Verdict, IsGone
    <3>. QED BY <1>18, <2>1, <2>2, <3>2, <3>3, MarkerGoes DEF Verdict, ghosts
  <2>4. CASE hs["resolve"].pend <= asked.nonce
    <3>1. \A n \in Nonces : pool[n].kind = "launch" /\ pool[n].id \notin loose => pool[n].id # parked.id
      BY <2>1, <2>4 DEF Guarded, GoneIsGone
    <3>3. parked' = NoMark
      BY <1>18, <2>4 DEF Verdict, IsGone
    <3>. QED BY <1>18, <2>1, <2>2, <3>1, <3>3, MarkerGoes DEF Verdict, ghosts
  <2>5. CASE ~IsGone(hs["resolve"].pend, hs["resolve"].lat, asked.nonce)
    BY <1>18, <2>2, <2>5, MarkerStays DEF Verdict, ghosts
  <2>. QED BY <2>3, <2>4, <2>5 DEF IsGone
<1>19. ASSUME ResolveFails PROVE Guarded'
  BY <1>19, LauncherAssumption
     DEF TypeInv, TypeOK, Guarded, ParkedIsDone, SignedIsNew, LiveIsKnown, GoneIsGone,
         Numbered, Booked, ResolveFails, chain, Fault, Idle, launching, Fresh, Unread,
         Handlers, Signers
<1>20. ASSUME SizeSplit PROVE Guarded'
  BY <1>20, OthersMayAct
     DEF TypeInv, TypeOK, SizeSplit, chain, memory, ghosts, Handlers, Signers
<1>21. ASSUME NEW h \in Handlers, ReadPending(h) PROVE Guarded'
  <2>1. h = "launch" => parked = NoMark \/ hs[h].pc = "idle"
    BY DEF Guarded, ParkedIsDone, launching, Idle
  <2>2. CASE h = "launch"
    BY <1>21, <2>1, <2>2, BeforeItSigns
       DEF ReadPending, TypeInv, TypeOK, Handlers, Signers, HandlerRecords, chain, memory,
           ghosts
  <2>3. CASE h = "resolve"
    <3>1. asked = parked /\ parked # NoMark /\ asked.id \in 1..Len(signedAt) /\ asked.nonce = signedAt[asked.id]
      BY <1>21, <2>3 DEF ReadPending, Guarded, ParkedIsDone, Idle
    <3>2. asked.nonce <= count /\ asked.nonce \in Nonces
      BY <3>1 DEF Booked, TypeInv, TypeOK, Marker
    <3>3. ASSUME Pending <= asked.nonce, NEW n \in Nonces, pool[n].kind = "launch"
          PROVE  pool[n].id # asked.id
      <4>1. Pending = count /\ asked.nonce = count /\ count < MaxNonce
        BY <3>2, <3>3, PendingType, LauncherAssumption DEF TypeInv, TypeOK, Counts, Nonces
      <4>2. pool[count].kind # "launch"
        BY <4>1, PendingType DEF TypeInv, Empty
      <4>. QED BY <3>1, <3>3, <4>1, <4>2 DEF Booked
    <3>4. /\ hs'["launch"] = hs["launch"] /\ hs'["resolve"].pc = "reading" /\ hs["resolve"].pc = "reading"
          /\ hs'["resolve"].pend = Pending
      BY <1>21, <2>3 DEF ReadPending, TypeInv, TypeOK, HandlerRecords, Handlers, Signers
    <3>. QED BY <1>21, <3>3, <3>4, MarkerStays DEF ReadPending, memory, ghosts
  <2>4. CASE h \notin {"launch", "resolve"}
    BY <1>21, <2>4, OthersMayAct
       DEF ReadPending, TypeInv, TypeOK, Handlers, Signers, chain, memory, ghosts
  <2>. QED BY <2>2, <2>3, <2>4
<1>22. ASSUME NEW h \in Handlers, ReadLatest(h) PROVE Guarded'
  <2>1. h = "launch" => parked = NoMark \/ hs[h].pc = "idle"
    BY DEF Guarded, ParkedIsDone, launching, Idle
  <2>2. CASE h = "launch"
    BY <1>22, <2>1, <2>2, BeforeItSigns
       DEF ReadLatest, TypeInv, TypeOK, Handlers, Signers, HandlerRecords, chain, memory,
           ghosts
  <2>3. CASE h = "resolve"
    BY <1>22, <2>3, MarkerStays
       DEF ReadLatest, TypeInv, TypeOK, Handlers, Signers, HandlerRecords, chain, memory,
           ghosts
  <2>4. CASE h \notin {"launch", "resolve"}
    BY <1>22, <2>4, OthersMayAct
       DEF ReadLatest, TypeInv, TypeOK, Handlers, Signers, chain, memory, ghosts
  <2>. QED BY <2>2, <2>3, <2>4
<1>23. ASSUME NEW h \in Signers, Sign(h) PROVE Guarded'
  <2>1. h # "resolve" /\ hs[h].pc = "reading" /\ h \in Handlers
    BY <1>23 DEF Sign, HasRead, Handlers, Signers
  <2>2. CASE h # "launch"
    BY <1>23, <2>1, <2>2, OthersMayAct
       DEF Sign, TypeInv, TypeOK, Handlers, Signers, chain, ghosts
  <2>3. CASE h = "launch"
    <3>1. parked = NoMark /\ Idle("resolve") /\ parked' = NoMark /\ hs'["resolve"] = hs["resolve"]
      BY <1>23, <2>1, <2>3
         DEF Sign, Guarded, ParkedIsDone, launching, Idle, TypeInv, TypeOK, Handlers,
             Signers
    <3>2. Len(signedAt') = Len(signedAt) + 1 /\ Len(signedAt) \in Nat
      BY <1>23, <2>3 DEF Sign, TypeInv, TypeOK
    <3>3. \A n \in Nonces : pool[n].kind = "launch" => pool[n].id \in loose
      BY <2>1, <2>3, <3>1, <3>2 DEF Guarded, LiveIsKnown, TypeInv, Numbered, NoMark
    <3>4. ParkedIsDone' /\ GoneIsGone'
      BY <3>1 DEF ParkedIsDone, GoneIsGone, Idle
    <3>5. SignedIsNew'
      BY <1>23, <3>2 DEF Sign, Guarded, SignedIsNew, TypeInv, Numbered, chain, ghosts
    <3>6. LiveIsKnown'
      BY <1>23, <3>3 DEF Sign, LiveIsKnown, chain, ghosts
    <3>. QED BY <3>4, <3>5, <3>6 DEF Guarded
  <2>. QED BY <2>2, <2>3
<1>24. ASSUME NEW h \in Signers, Refuse(h) PROVE Guarded'
  <2>1. CASE h = "launch"
    BY <1>24, <2>1, BeforeItSigns
       DEF Refuse, HasRead, Leave, Fresh, chain, ghosts, TypeInv, TypeOK, Handlers, Signers
  <2>2. CASE h # "launch"
    BY <1>24, <2>2, OthersMayAct
       DEF Refuse, Leave, chain, ghosts, TypeInv, TypeOK, Handlers, Signers
  <2>. QED BY <2>1, <2>2
<1>25. ASSUME NEW h \in Signers, Fails(h) PROVE Guarded'
  <2>1. CASE h = "launch"
    BY <1>25, <2>1, BeforeItSigns
       DEF Fails, Leave, Fresh, chain, TypeInv, TypeOK, Handlers, Signers
  <2>2. CASE h # "launch"
    BY <1>25, <2>2, OthersMayAct DEF Fails, Leave, chain, TypeInv, TypeOK, Handlers, Signers
  <2>. QED BY <2>1, <2>2
<1>26. ASSUME NEW h \in Signers, Sent(h) PROVE Guarded'
  <2>1. /\ h \in Handlers /\ h # "resolve" /\ hs[h].pc = "signed" /\ (Answered(h) \/ Threw(h))
    BY <1>26 DEF Sent, Handlers, Signers
  <2>2. PICK r \in HandlerRecords :
          /\ hs' = [hs EXCEPT ![h] = r]
          /\ h = "launch" => r.pc \in {"waiting", "unknown"}
    BY <2>1, AfterSend
  <2>3. hs'["resolve"] = hs["resolve"] /\ hs'["launch"] = IF h = "launch" THEN r ELSE hs["launch"]
    BY <2>1, <2>2 DEF TypeInv, TypeOK, Handlers, Signers
  <2>4. /\ At(h) \in Nonces /\ (Tx(h).kind = "launch" <=> h = "launch")
        /\ Tx(h).kind = "launch" => Tx(h).id = Len(signedAt)
    BY <2>1, SendType
  <2>5. \A n \in Nonces : pool'[n] = pool[n] \/ pool'[n] = Tx(h)
    BY <1>26, <2>4 DEF TypeInv, TypeOK, Sent, Takes
  <2>6. CASE h # "launch"
    BY <1>26, <2>3, <2>4, <2>5, <2>6, OthersMayAct DEF Sent, ghosts
  <2>7. CASE h = "launch"
    <3>1. parked = NoMark /\ Idle("resolve") /\ parked' = NoMark
      BY <1>26, <2>1, <2>7 DEF Sent, Guarded, ParkedIsDone, launching, Idle
    <3>2. /\ hs'["launch"].pc \in {"waiting", "unknown"}
          /\ Len(signedAt) \in 1..Len(signedAt) /\ Len(signedAt) \notin mined
      BY <1>26, <2>1, <2>2, <2>3, <2>7
         DEF Sent, Guarded, SignedIsNew, TypeInv, TypeOK, Numbered, SentOrSoon
    <3>3. \A n \in Nonces : pool[n].kind = "launch" => pool[n].id \in loose
      BY <2>1, <2>7, <3>1 DEF Guarded, LiveIsKnown, TypeInv, Numbered, NoMark
    <3>4. ParkedIsDone' /\ GoneIsGone'
      BY <2>3, <3>1 DEF ParkedIsDone, GoneIsGone, Idle
    <3>5. SignedIsNew'
      BY <1>26, <2>4, <3>2 DEF Sent, Guarded, SignedIsNew, ghosts
    <3>6. LiveIsKnown'
      BY <1>26, <2>4, <2>5, <3>2, <3>3 DEF Sent, LiveIsKnown, ghosts
    <3>. QED BY <3>4, <3>5, <3>6 DEF Guarded
  <2>. QED BY <2>6, <2>7
<1>27. ASSUME NEW h \in Signers, SendLost(h) PROVE Guarded'
  <2>1. /\ h \in Handlers /\ h # "resolve" /\ hs[h].pc = "signed" /\ (Answered(h) \/ Threw(h))
    BY <1>27 DEF SendLost, Handlers, Signers
  <2>2. PICK r \in HandlerRecords :
          /\ hs' = [hs EXCEPT ![h] = r]
          /\ h = "launch" => r.pc \in {"waiting", "unknown"}
    BY <2>1, AfterSend
  <2>3. hs'["resolve"] = hs["resolve"] /\ hs'["launch"] = IF h = "launch" THEN r ELSE hs["launch"]
    BY <2>1, <2>2 DEF TypeInv, TypeOK, Handlers, Signers
  <2>4. /\ At(h) \in Nonces /\ (Tx(h).kind = "launch" <=> h = "launch")
        /\ Tx(h).kind = "launch" => Tx(h).id = Len(signedAt)
    BY <2>1, SendType
  <2>5. \A n \in Nonces : pool'[n] = pool[n] \/ pool'[n] = Tx(h)
    <3>1. CASE Takes(At(h), Tx(h))
      BY <3>1, <2>4 DEF TypeInv, TypeOK, Takes
    <3>2. CASE UNCHANGED pool
      BY <3>2
    <3>. QED BY <1>27, <3>1, <3>2 DEF SendLost
  <2>6. CASE h # "launch"
    BY <1>27, <2>3, <2>4, <2>5, <2>6, OthersMayAct DEF SendLost, ghosts
  <2>7. CASE h = "launch"
    <3>1. parked = NoMark /\ Idle("resolve") /\ parked' = NoMark
      BY <1>27, <2>1, <2>7 DEF SendLost, Guarded, ParkedIsDone, launching, Idle
    <3>2. /\ hs'["launch"].pc \in {"waiting", "unknown"}
          /\ Len(signedAt) \in 1..Len(signedAt) /\ Len(signedAt) \notin mined
      BY <1>27, <2>1, <2>2, <2>3, <2>7
         DEF SendLost, Guarded, SignedIsNew, TypeInv, TypeOK, Numbered, SentOrSoon
    <3>3. \A n \in Nonces : pool[n].kind = "launch" => pool[n].id \in loose
      BY <2>1, <2>7, <3>1 DEF Guarded, LiveIsKnown, TypeInv, Numbered, NoMark
    <3>4. ParkedIsDone' /\ GoneIsGone'
      BY <2>3, <3>1 DEF ParkedIsDone, GoneIsGone, Idle
    <3>5. SignedIsNew'
      BY <1>27, <2>4, <3>2 DEF SendLost, Guarded, SignedIsNew, ghosts
    <3>6. LiveIsKnown'
      BY <1>27, <2>4, <2>5, <3>2, <3>3 DEF SendLost, LiveIsKnown, ghosts
    <3>. QED BY <3>4, <3>5, <3>6 DEF Guarded
  <2>. QED BY <2>6, <2>7
<1>28. ASSUME NEW h \in Signers, SendLate(h) PROVE Guarded'
  <2>1. /\ h \in Handlers /\ h # "resolve" /\ hs[h].pc = "signed" /\ (Answered(h) \/ Threw(h))
    BY <1>28 DEF SendLate, Handlers, Signers
  <2>2. PICK r \in HandlerRecords :
          /\ hs' = [hs EXCEPT ![h] = r]
          /\ h = "launch" => r.pc \in {"waiting", "unknown"}
    BY <2>1, AfterSend
  <2>3. hs'["resolve"] = hs["resolve"] /\ hs'["launch"] = IF h = "launch" THEN r ELSE hs["launch"]
    BY <2>1, <2>2 DEF TypeInv, TypeOK, Handlers, Signers
  <2>4. /\ At(h) \in Nonces /\ (Tx(h).kind = "launch" <=> h = "launch")
        /\ Tx(h).kind = "launch" => Tx(h).id = Len(signedAt)
    BY <2>1, SendType
  <2>6. CASE h # "launch"
    BY <1>28, <2>3, <2>4, <2>6, OthersMayAct DEF SendLate
  <2>7. CASE h = "launch"
    <3>1. parked = NoMark /\ Idle("resolve") /\ parked' = NoMark
      BY <1>28, <2>1, <2>7 DEF SendLate, Guarded, ParkedIsDone, launching, Idle
    <3>2. /\ hs'["launch"].pc \in {"waiting", "unknown"}
          /\ Len(signedAt) \in 1..Len(signedAt) /\ Len(signedAt) \notin mined
      BY <1>28, <2>1, <2>2, <2>3, <2>7
         DEF SendLate, Guarded, SignedIsNew, TypeInv, TypeOK, Numbered, SentOrSoon
    <3>3. \A n \in Nonces : pool[n].kind = "launch" => pool[n].id \in loose
      BY <2>1, <2>7, <3>1 DEF Guarded, LiveIsKnown, TypeInv, Numbered, NoMark
    <3>4. ParkedIsDone' /\ GoneIsGone'
      BY <2>3, <3>1 DEF ParkedIsDone, GoneIsGone, Idle
    <3>5. SignedIsNew'
      <4>1. loose' = loose \cup {Len(signedAt)} /\ \A x \in wire' : x \in wire \/ x.tx = Tx(h)
        BY <1>28, <2>7 DEF SendLate
      <4>2. UNCHANGED <<mined, signedAt>>
        BY <1>28 DEF SendLate
      <4>. QED BY <2>4, <3>2, <4>1, <4>2 DEF Guarded, SignedIsNew
    <3>6. LiveIsKnown'
      BY <1>28, <2>4, <3>2, <3>3 DEF SendLate, LiveIsKnown
    <3>. QED BY <3>4, <3>5, <3>6 DEF Guarded
  <2>. QED BY <2>6, <2>7
<1>29. ASSUME NEW h \in Signers, Ends(h) PROVE Guarded'
  BY <1>29, OthersMayAct
     DEF TypeInv, TypeOK, Ends, Leave, chain, ghosts, Handlers, Signers
<1>30. ASSUME UNCHANGED vars PROVE Guarded'
  BY <1>30
     DEF Guarded, ParkedIsDone, SignedIsNew, LiveIsKnown, GoneIsGone, vars, launching, Idle
<1>. QED
  BY <1>1, <1>2, <1>3, <1>4, <1>5, <1>6, <1>7, <1>8, <1>9, <1>10, <1>11, <1>12, <1>13,
     <1>14, <1>15, <1>16, <1>17, <1>18, <1>19, <1>20, <1>21, <1>22, <1>23, <1>24, <1>25,
     <1>26, <1>27, <1>28, <1>29, <1>30
  DEF Next, Network, Requests, Timers, Reads, Steps

\* A launch this process has sent keeps its marker as long as it may still be mined,
\* if /resolve is asked of the parked launch; asked of another it may clear it.
THEOREM MarkerKept ==
  ASSUME AnyHash = FALSE
  PROVE  Spec => []LiveLaunchIsGuarded
<1>1. Init => TypeInv /\ Booked /\ Guarded
  BY InitTypes, InitBooked, InitGuarded
<1>2. TypeInv /\ Booked /\ Guarded /\ [Next]_vars => (TypeInv /\ Booked /\ Guarded)'
  BY StepTypes, StepBooked, StepGuarded
<1>3. Guarded => LiveLaunchIsGuarded
  BY DEF Guarded, LiveIsKnown, LiveLaunchIsGuarded, launching, Idle
<1>. QED BY <1>1, <1>2, <1>3, PTL DEF Spec

-----------------------------------------------------------------------------
(* No holes                                                                *)

\* Every nonce that is not mined and is before `n' has a transaction, or had one that
\* the node forgot.
Behind(n) == \A m \in count..(n - 1) : pool[m] # Empty \/ m \in evicted

\* So it is with every nonce a handler has read as pending, signs at, or whose
\* request may still arrive.
InFront ==
  /\ \A h \in Handlers : hs[h].pend # Unread => Behind(hs[h].pend)
  /\ \A h \in Signers : hs[h].pc = "signed" => Behind(At(h))
  /\ \A w \in wire : Behind(w.nonce)

\* The node's side of a step: a nonce that has a transaction is mined, keeps one, or
\* is forgotten.
Grows ==
  /\ count' >= count /\ evicted \subseteq evicted'
  /\ \A m \in Nonces : m >= count' /\ pool[m] # Empty => pool'[m] # Empty \/ m \in evicted'

\* A handler's side, of most steps: nothing is read and nothing more is to be sent.
SendsNoMore ==
  /\ wire' \subseteq wire
  /\ \A h \in Handlers :
       /\ hs'[h].pend \in {Unread, hs[h].pend}
       /\ hs'[h].pc = "signed" => hs'[h].pc = hs[h].pc /\ hs'[h].nonce = hs[h].nonce
                                  /\ hs'[h].sent = hs[h].sent

LEMMA InitInFront == Init => InFront
BY DEF Init, InFront, Fresh, Handlers, Signers

\* What is behind a nonce stays behind it.
LEMMA BehindStays ==
  ASSUME TypeOK, TypeOK', Grows, NEW n \in Counts, Behind(n)
  PROVE  \A m \in count'..(n - 1) : pool'[m] # Empty \/ m \in evicted'
<1>. SUFFICES ASSUME NEW m \in count'..(n - 1) PROVE pool'[m] # Empty \/ m \in evicted'
  OBVIOUS
<1>1. /\ count \in Nat /\ count' \in Nat /\ count' >= count /\ n \in Nat /\ n <= MaxNonce
      /\ MaxNonce \in Nat
  BY LauncherAssumption DEF TypeOK, Counts, Grows
<1>2. m \in count..(n - 1) /\ m \in Nonces /\ m >= count'
  BY <1>1 DEF Nonces
<1>. QED BY <1>2 DEF Behind, Grows

\* The pending count is past a run of transactions.
LEMMA BehindPending ==
  ASSUME TypeOK
  PROVE  Behind(Pending)
<1>. SUFFICES ASSUME NEW m \in count..(Pending - 1), pool[m] = Empty PROVE FALSE
  BY DEF Behind
<1>. DEFINE S == {n \in count..(MaxNonce - 1) : \A k \in count..n : pool[k] # Empty}
<1>1. /\ count \in Nat /\ MaxNonce \in Nat /\ count <= MaxNonce /\ Pending \in Nat
      /\ Pending <= MaxNonce /\ m \in Nat /\ count <= m /\ m < Pending
  BY PendingType, LauncherAssumption DEF TypeOK, Counts
<1>2. S \subseteq count..(m - 1)
  <2>. SUFFICES ASSUME NEW n \in count..(MaxNonce - 1), n >= m,
                       \A k \in count..n : pool[k] # Empty
                PROVE  FALSE
    BY <1>1
  <2>. QED BY <1>1
<1>3. /\ IsFiniteSet(count..(m - 1)) /\ Cardinality(count..(m - 1)) = m - count
  <2>1. count \in Int /\ m - 1 \in Int
    BY <1>1
  <2>2. /\ IsFiniteSet(count..(m - 1))
        /\ Cardinality(count..(m - 1)) = IF count > m - 1 THEN 0 ELSE (m - 1) - count + 1
    BY <2>1, FS_Interval, Zenon
  <2>. QED BY <1>1, <2>2
<1>4. IsFiniteSet(S) /\ Cardinality(S) <= m - count /\ Cardinality(S) \in Nat
  BY <1>2, <1>3, FS_Subset, FS_CardinalityType
<1>5. Pending = count + Cardinality(S)
  BY DEF Pending
<1>. QED BY <1>1, <1>4, <1>5

\* A mined count has nothing behind it.
LEMMA BehindLatest ==
  ASSUME TypeInv, Booked, NEW h \in Handlers, hs[h].lat # Unread
  PROVE  Behind(hs[h].lat)
BY LauncherAssumption DEF TypeInv, TypeOK, Booked, Behind, Counts, HandlerRecords, Unread

\* What is read, signed or late keeps its place.
LEMMA ReadStays ==
  ASSUME TypeInv, TypeInv', InFront, Grows, NEW h \in Handlers,
         hs'[h].pend \in {Unread, hs[h].pend}, hs'[h].pend # Unread
  PROVE  Behind(hs[h].pend)'
<1>. DEFINE n == hs[h].pend
<1>1. hs'[h].pend = n /\ n \in Counts /\ Behind(n)
  BY DEF InFront, TypeInv, TypeOK, HandlerRecords
<1>. HIDE DEF n
<1>2. \A m \in count'..(n - 1) : pool'[m] # Empty \/ m \in evicted'
  BY <1>1, BehindStays DEF TypeInv
<1>. QED BY <1>1, <1>2 DEF Behind

LEMMA SignedStays ==
  ASSUME TypeInv, TypeInv', InFront, Grows, NEW h \in Signers, hs[h].pc = "signed",
         hs'[h].nonce = hs[h].nonce, hs'[h].sent = hs[h].sent
  PROVE  Behind(At(h))'
<1>. DEFINE n == At(h)
<1>1. n \in Counts /\ Behind(n)
  BY SendType, LauncherAssumption DEF InFront, Nonces, Counts
<1>2. At(h)' = n
  BY DEF At
<1>. HIDE DEF n
<1>3. \A m \in count'..(n - 1) : pool'[m] # Empty \/ m \in evicted'
  BY <1>1, BehindStays DEF TypeInv
<1>. QED BY <1>2, <1>3 DEF Behind

LEMMA LateStays ==
  ASSUME TypeInv, TypeInv', InFront, Grows, NEW w \in wire
  PROVE  Behind(w.nonce)'
<1>. DEFINE n == w.nonce
<1>1. n \in Counts /\ Behind(n)
  BY LauncherAssumption DEF InFront, TypeInv, TypeOK, Nonces, Counts
<1>. HIDE DEF n
<1>2. \A m \in count'..(n - 1) : pool'[m] # Empty \/ m \in evicted'
  BY <1>1, BehindStays DEF TypeInv
<1>. QED BY <1>2 DEF Behind, n

LEMMA InFrontStays ==
  ASSUME TypeInv, TypeInv', InFront, Grows, SendsNoMore
  PROVE  InFront'
<1>1. \A h \in Handlers : hs'[h].pend # Unread => Behind(hs[h].pend)'
  BY ReadStays DEF SendsNoMore
<1>2. \A h \in Signers : hs'[h].pc = "signed" => Behind(At(h))'
  BY SignedStays DEF SendsNoMore, Handlers
<1>3. \A w \in wire' : Behind(w.nonce)'
  BY LateStays DEF SendsNoMore
<1>. QED BY <1>1, <1>2, <1>3 DEF InFront

\* What enters the mempool has every earlier nonce in front of it.
Entered ==
  \A n \in Nonces : pool'[n] # Empty /\ pool[n] = Empty =>
    \A m \in count'..(n - 1) : pool'[m] # Empty \/ m \in evicted

LEMMA TakenBehind ==
  ASSUME TypeInv, NEW n \in Nonces, NEW tx \in Txs, Behind(n),
         Takes(n, tx) \/ UNCHANGED pool, UNCHANGED <<count, evicted>>
  PROVE  Grows /\ Entered
<1>1. CASE UNCHANGED pool
  BY <1>1, LauncherAssumption DEF TypeInv, TypeOK, Grows, Entered, Counts
<1>2. CASE Takes(n, tx)
  <2>1. tx # Empty
    BY DEF Txs, Empty
  <2>2. \A m \in Nonces : pool'[m] = IF m = n THEN tx ELSE pool[m]
    BY <1>2 DEF Takes, TypeInv, TypeOK
  <2>3. Grows
    BY <2>1, <2>2, LauncherAssumption DEF TypeInv, TypeOK, Grows, Counts
  <2>4. ASSUME NEW k \in Nonces, pool'[k] # Empty, pool[k] = Empty,
               NEW m \in count'..(k - 1)
        PROVE  pool'[m] # Empty \/ m \in evicted
    <3>1. k = n /\ m \in count..(n - 1) /\ m \in Nonces
      BY <2>2, <2>4, LauncherAssumption DEF TypeInv, TypeOK, Counts, Nonces
    <3>. QED BY <2>1, <2>2, <3>1 DEF Behind
  <2>. QED BY <2>3, <2>4 DEF Entered
<1>. QED BY <1>1, <1>2

\* The node's side of a step.
LEMMA StepGrows ==
  ASSUME TypeInv, InFront, [Next]_vars
  PROVE  Grows /\ Entered
<1>1. CASE UNCHANGED <<count, pool, evicted>>
  BY <1>1, LauncherAssumption DEF TypeInv, TypeOK, Grows, Entered, Counts
<1>2. CASE Mine
  <2>1. /\ count' = count + 1 /\ count \in Nat /\ evicted' = evicted
        /\ \A m \in Nonces : pool'[m] = IF m = count THEN Empty ELSE pool[m]
    BY <1>2, LauncherAssumption DEF Mine, TypeInv, TypeOK, Counts
  <2>. QED BY <2>1 DEF Grows, Entered, Nonces
<1>3. ASSUME NEW n \in Nonces, Evict(n) PROVE Grows /\ Entered
  <2>1. /\ count' = count /\ count \in Nat /\ evicted' = evicted \cup {n}
        /\ \A m \in Nonces : pool'[m] = IF m = n THEN Empty ELSE pool[m]
    BY <1>3, LauncherAssumption DEF Evict, TypeInv, TypeOK, Counts
  <2>. QED BY <2>1 DEF Grows, Entered
<1>4. ASSUME NEW w \in wire, Arrive(w) PROVE Grows /\ Entered
  <2>1. w.nonce \in Nonces /\ w.tx \in Txs /\ Behind(w.nonce)
    BY DEF TypeInv, TypeOK, InFront
  <2>. QED BY <1>4, <2>1, TakenBehind DEF Arrive
<1>5. ASSUME NEW h \in Signers, Sent(h) \/ SendLost(h) PROVE Grows /\ Entered
  <2>1. /\ hs[h].pc = "signed"
        /\ Takes(At(h), Tx(h)) \/ UNCHANGED pool
        /\ UNCHANGED <<count, evicted>>
    BY <1>5 DEF Sent, SendLost
  <2>2. At(h) \in Nonces /\ Tx(h) \in Txs /\ Behind(At(h))
    BY <2>1, SendType DEF InFront
  <2>. QED BY <2>1, <2>2, TakenBehind
<1>6. CASE UNCHANGED vars
  BY <1>1, <1>6 DEF vars
<1>7. ASSUME NEW act \in Acts, Launch(act) \/ Action(act) PROVE Grows /\ Entered
  BY <1>1, <1>7 DEF Launch, Action, Begin, chain
<1>8. CASE Bundle \/ FundStart \/ FundStop \/ Resolve \/ Crash
  BY <1>1, <1>8 DEF Bundle, FundStart, FundStop, Resolve, Crash, Begin, chain
<1>9. ASSUME NEW e \in Exits, Exit(e) \/ ExitEnds(e) PROVE Grows /\ Entered
  BY <1>1, <1>9 DEF Exit, ExitEnds, chain
<1>10. CASE FundTick \/ GraceOver \/ Receipt \/ LaunchEnds
  BY <1>1, <1>10 DEF FundTick, GraceOver, Receipt, LaunchEnds, Begin, chain
<1>11. CASE ReadReceipt \/ Verdict \/ ResolveFails \/ SizeSplit
  BY <1>1, <1>11 DEF ReadReceipt, Verdict, ResolveFails, SizeSplit, chain
<1>12. ASSUME NEW h \in Handlers, Reads(h) PROVE Grows /\ Entered
  BY <1>1, <1>12 DEF Reads, ReadPending, ReadLatest, chain
<1>13. ASSUME NEW h \in Signers, Sign(h) \/ Refuse(h) \/ Fails(h) \/ SendLate(h) \/ Ends(h)
       PROVE  Grows /\ Entered
  BY <1>1, <1>13 DEF Sign, Refuse, Fails, SendLate, Ends, chain
<1>. QED
  BY <1>2, <1>3, <1>4, <1>5, <1>6, <1>7, <1>8, <1>9, <1>10, <1>11, <1>12, <1>13
  DEF Next, Network, Requests, Timers, Steps, Acts

\* What is left in a handler's record once its request was answered, or threw.
LEMMA AnsweredDoes ==
  ASSUME TypeInv, NEW h \in Signers, Answered(h)
  PROVE  /\ \A g \in Handlers \ {h} : hs'[g] = hs[g]
         /\ \/ hs'[h].pc # "signed" /\ hs'[h].pend = Unread
            \/ /\ hs'[h].pc = hs[h].pc /\ hs'[h].pend = hs[h].pend
               /\ hs'[h].nonce = hs[h].nonce /\ hs'[h].sent = hs[h].sent + 1
<1>1. hs \in [Handlers -> HandlerRecords] /\ h \in Handlers /\ hs[h] \in HandlerRecords
  BY DEF TypeInv, TypeOK, Handlers
<1>2. CASE h = "fund"
  BY <1>1, <1>2 DEF Answered, Leave, Fresh
<1>3. CASE h = "bundle" /\ hs[h].sent + 1 < Batch
  <2>1. hs' = [hs EXCEPT ![h].sent = @ + 1]
    BY <1>3 DEF Answered
  <2>. QED BY <1>1, <2>1 DEF HandlerRecords
<1>4. CASE h # "fund" /\ ~(h = "bundle" /\ hs[h].sent + 1 < Batch)
  <2>1. hs' = [hs EXCEPT ![h] = [Fresh EXCEPT !.pc = "waiting", !.act = hs[h].act]]
    BY <1>4 DEF Answered, Await
  <2>. QED BY <1>1, <2>1 DEF Fresh
<1>. QED BY <1>2, <1>3, <1>4

LEMMA ThrewDoes ==
  ASSUME TypeInv, NEW h \in Signers, Threw(h)
  PROVE  /\ \A g \in Handlers \ {h} : hs'[g] = hs[g]
         /\ hs'[h].pc # "signed" /\ hs'[h].pend = Unread
<1>1. hs \in [Handlers -> HandlerRecords] /\ h \in Handlers
  BY DEF TypeInv, TypeOK, Handlers
<1>2. CASE h = "launch"
  BY <1>1, <1>2 DEF Threw, Await, Fresh
<1>3. CASE h = "bundle"
  BY <1>1, <1>3 DEF Threw, Await, Fresh
<1>4. CASE h # "launch" /\ h # "bundle"
  BY <1>1, <1>4 DEF Threw, Leave, Fresh
<1>. QED BY <1>2, <1>3, <1>4

\* A handler whose next request is one nonce on has just filled the one before.
LEMMA NextTransfer ==
  ASSUME TypeInv, TypeInv', InFront, Grows, NEW h \in Signers, Sent(h),
         hs'[h].pc = "signed"
  PROVE  Behind(At(h))'
<1>1. /\ hs[h].pc = "signed" /\ Takes(At(h), Tx(h)) /\ Answered(h)
      /\ UNCHANGED <<count, evicted>> /\ hs[h] \in HandlerRecords /\ h \in Handlers
  BY DEF Sent, TypeInv, TypeOK, Handlers
<1>2. /\ hs'[h].nonce = hs[h].nonce /\ hs'[h].sent = hs[h].sent + 1
  BY <1>1, AnsweredDoes
<1>. DEFINE n == At(h)
<1>3. /\ n \in Nonces /\ Tx(h) \in Txs /\ At(h)' = n + 1 /\ n \in Nat /\ Behind(n)
      /\ count \in Nat
  <2>1. n \in Nonces /\ Tx(h) \in Txs
    BY <1>1, SendType
  <2>2. Behind(n)
    BY <1>1 DEF InFront
  <2>3. hs[h].nonce \in Nonces /\ hs[h].sent \in 0..Batch
    BY <1>1 DEF TypeInv, TypeOK, Numbered, Handlers, Signers, HandlerRecords
  <2>4. n \in Nat /\ At(h)' = n + 1
    BY <1>2, <2>3, LauncherAssumption DEF At, Nonces
  <2>5. count \in Nat
    BY LauncherAssumption DEF TypeInv, TypeOK, Counts
  <2>. QED BY <2>1, <2>2, <2>4, <2>5
<1>. HIDE DEF n
<1>4. Tx(h) # Empty
  BY <1>3 DEF Txs, Empty
<1>5. \A m \in Nonces : pool'[m] = IF m = n THEN Tx(h) ELSE pool[m]
  BY <1>1 DEF Takes, TypeInv, TypeOK, n
<1>6. ASSUME NEW m \in count'..n PROVE pool'[m] # Empty \/ m \in evicted'
  <2>1. m \in Nonces /\ (m = n \/ m \in count..(n - 1))
    BY <1>1, <1>3, LauncherAssumption DEF Nonces
  <2>. QED BY <1>1, <1>3, <1>4, <1>5, <2>1 DEF Behind
<1>. QED BY <1>1, <1>3, <1>6 DEF Behind

LEMMA SignsBehind ==
  ASSUME TypeInv, TypeInv', Booked, InFront, NEW h \in Signers, Sign(h)
  PROVE  InFront'
<1>1. /\ hs[h].pend # Unread /\ h \in Handlers /\ hs[h] \in HandlerRecords
      /\ h # "fund" => hs[h].lat # Unread
      /\ hs[h].act = "cancel" => h = "action"
      /\ UNCHANGED <<count, pool, evicted, wire>>
  BY DEF Sign, HasRead, chain, TypeInv, TypeOK, Numbered, Handlers, Signers
<1>2. Behind(hs[h].pend) /\ (h # "fund" => Behind(hs[h].lat))
  BY <1>1, BehindLatest DEF InFront
<1>3. /\ hs'[h].pend = Unread /\ hs'[h].sent = hs[h].sent
      /\ hs'[h].nonce = IF hs[h].act = "cancel" THEN hs[h].lat ELSE hs[h].pend
      /\ \A g \in Handlers \ {h} : hs'[g] = hs[g]
      /\ hs[h].sent = 0
  BY <1>1 DEF Sign, HasRead, TypeInv, TypeOK, Numbered, HandlerRecords
<1>4. \A n : Behind(n)' <=> Behind(n)
  BY <1>1 DEF Behind
<1>5. At(h)' = IF hs[h].act = "cancel" THEN hs[h].lat ELSE hs[h].pend
  BY <1>1, <1>3, LauncherAssumption DEF At, HandlerRecords, Counts, Unread
<1>6. Behind(At(h))'
  <2>1. \A m \in count..(At(h)' - 1) : pool[m] # Empty \/ m \in evicted
    BY <1>1, <1>2, <1>5 DEF Behind
  <2>. QED BY <1>1, <2>1 DEF Behind
<1>7. \A g \in Signers : hs'[g].pc = "signed" => Behind(At(g))'
  BY <1>1, <1>3, <1>6 DEF InFront, Behind, At, Handlers
<1>8. \A g \in Handlers : hs'[g].pend # Unread => Behind(hs[g].pend)'
  BY <1>1, <1>3 DEF InFront, Behind
<1>9. \A w \in wire' : Behind(w.nonce)'
  BY <1>1 DEF InFront, Behind
<1>. QED BY <1>7, <1>8, <1>9 DEF InFront

\* The handlers' side of a step.
LEMMA StepInFront ==
  ASSUME TypeInv, TypeInv', Booked, InFront, [Next]_vars
  PROVE  InFront'
<1>1. Grows
  BY StepGrows
<1>2. CASE SendsNoMore
  BY <1>1, <1>2, InFrontStays
<1>3. hs \in [Handlers -> HandlerRecords] /\ \A h \in Handlers : hs[h] \in HandlerRecords
  BY DEF TypeInv, TypeOK
<1>4. CASE UNCHANGED <<hs, wire>>
  BY <1>2, <1>4 DEF SendsNoMore
<1>5. ASSUME NEW g \in Handlers, NEW r \in HandlerRecords, hs' = [hs EXCEPT ![g] = r],
             r.pc # "signed", r.pend \in {Unread, hs[g].pend}, wire' \subseteq wire
      PROVE  InFront'
  <2>1. hs'[g] = r /\ \A h \in Handlers \ {g} : hs'[h] = hs[h]
    BY <1>3, <1>5
  <2>2. SendsNoMore
    BY <1>5, <2>1 DEF SendsNoMore
  <2>. QED BY <1>2, <2>2
<1>6. ASSUME NEW g \in Handlers, NEW pc \in {"receipt", "sizing", "reading"}, NEW act \in Acts,
             Begin(g, pc, act)
      PROVE  InFront'
  <2>. DEFINE r == [Fresh EXCEPT !.pc = pc, !.act = act]
  <2>1. r \in HandlerRecords /\ r.pc # "signed" /\ r.pend = Unread
    BY FreshType DEF Fresh, HandlerRecords
  <2>2. hs' = [hs EXCEPT ![g] = r] /\ wire' = wire
    BY <1>6 DEF Begin, chain
  <2>. QED BY <1>5, <2>1, <2>2
<1>7. ASSUME NEW g \in Handlers, hs' = [hs EXCEPT ![g] = Fresh], wire' = wire PROVE InFront'
  BY <1>5, <1>7, FreshType DEF Fresh
<1>8. CASE Mine \/ FundStart \/ FundStop \/ GraceOver \/ UNCHANGED vars
  BY <1>4, <1>8 DEF Mine, FundStart, FundStop, GraceOver, chain, vars
<1>9. ASSUME NEW n \in Nonces, Evict(n) PROVE InFront'
  BY <1>4, <1>9 DEF Evict
<1>10. ASSUME NEW w \in wire, Arrive(w) PROVE InFront'
  BY <1>2, <1>10 DEF Arrive, SendsNoMore
<1>11. ASSUME NEW act \in {"alone", "combo"}, Launch(act) PROVE InFront'
  BY <1>6, <1>11 DEF Launch, Handlers, Signers, Acts
<1>12. ASSUME NEW act \in {"approve", "withdraw", "cancel"}, Action(act) PROVE InFront'
  BY <1>6, <1>12 DEF Action, Handlers, Signers, Acts
<1>13. CASE Bundle \/ FundTick \/ Resolve
  BY <1>6, <1>13 DEF Bundle, FundTick, Resolve, Handlers, Signers, Acts
<1>14. ASSUME NEW e \in Exits, Exit(e) \/ ExitEnds(e) PROVE InFront'
  BY <1>4, <1>14 DEF Exit, ExitEnds, chain
<1>15. CASE Crash
  <2>1. SendsNoMore
    BY <1>15 DEF Crash, SendsNoMore, Fresh, chain
  <2>. QED BY <1>2, <2>1
<1>16. ASSUME NEW g \in Handlers, NEW pc \in {"tail", "unknown", "reading"},
              NEW held \in Counts \cup {Unread},
              hs' = [hs EXCEPT ![g].pc = pc] \/ hs' = [hs EXCEPT ![g].pc = pc, ![g].held = held],
              wire' = wire
       PROVE  InFront'
  <2>. DEFINE r == [hs[g] EXCEPT !.pc = pc]
              q == [hs[g] EXCEPT !.pc = pc, !.held = held]
  <2>1. /\ r \in HandlerRecords /\ r.pc # "signed" /\ r.pend = hs[g].pend
        /\ q \in HandlerRecords /\ q.pc # "signed" /\ q.pend = hs[g].pend
    BY <1>3 DEF HandlerRecords
  <2>2. hs' = [hs EXCEPT ![g] = r] \/ hs' = [hs EXCEPT ![g] = q]
    BY <1>3, <1>16
  <2>. QED BY <1>5, <1>16, <2>1, <2>2
<1>17. CASE Receipt \/ SizeSplit
  BY <1>3, <1>16, <1>17 DEF Receipt, SizeSplit, chain, Handlers, Signers, TypeInv, TypeOK
<1>18. CASE LaunchEnds \/ Verdict \/ ResolveFails
  BY <1>7, <1>18 DEF LaunchEnds, Verdict, ResolveFails, Leave, chain, Handlers, Signers
<1>19. CASE ReadReceipt
  BY <1>7, <1>16, <1>19 DEF ReadReceipt, chain, Handlers, Signers, Counts, Unread
<1>20. ASSUME NEW h \in Handlers, ReadPending(h) PROVE InFront'
  <2>1. /\ UNCHANGED <<count, pool, evicted, wire>> /\ hs[h].pc = "reading"
        /\ hs'[h].pend = Pending /\ hs'[h].pc = hs[h].pc
        /\ \A g \in Handlers \ {h} : hs'[g] = hs[g]
    BY <1>3, <1>20 DEF ReadPending, chain, HandlerRecords
  <2>2. Behind(hs'[h].pend)
    BY <2>1, BehindPending DEF TypeInv
  <2>. QED BY <2>1, <2>2 DEF InFront, Behind, At, Handlers
<1>21. ASSUME NEW h \in Handlers, ReadLatest(h) PROVE InFront'
  <2>1. hs[h].pc = "reading" /\ hs'[h].pend = hs[h].pend /\ hs'[h].pc = hs[h].pc
        /\ wire' = wire /\ \A g \in Handlers \ {h} : hs'[g] = hs[g]
    BY <1>3, <1>21 DEF ReadLatest, chain, HandlerRecords
  <2>2. SendsNoMore
    BY <2>1 DEF SendsNoMore
  <2>. QED BY <1>2, <2>2
<1>22. ASSUME NEW h \in Signers, Sign(h) PROVE InFront'
  BY <1>22, SignsBehind
<1>23. ASSUME NEW h \in Signers, Refuse(h) \/ Fails(h) \/ Ends(h) PROVE InFront'
  BY <1>7, <1>23 DEF Refuse, Fails, Ends, Leave, chain, Handlers
<1>24. ASSUME NEW h \in Signers, Threw(h),
              wire' = wire \/ (hs[h].pc = "signed" /\ wire' = wire \cup {[nonce |-> At(h), tx |-> Tx(h)]})
       PROVE  InFront'
  <2>1. /\ hs'[h].pc # "signed" /\ hs'[h].pend = Unread
        /\ \A g \in Handlers \ {h} : hs'[g] = hs[g]
    BY <1>24, ThrewDoes
  <2>2. \A g \in Handlers : hs'[g].pend # Unread => Behind(hs[g].pend)'
    BY <1>1, <2>1, ReadStays
  <2>3. \A g \in Signers : hs'[g].pc = "signed" => Behind(At(g))'
    BY <1>1, <2>1, SignedStays DEF Handlers
  <2>4. ASSUME NEW w \in wire' PROVE Behind(w.nonce)'
    <3>1. CASE w \in wire
      BY <1>1, <3>1, LateStays
    <3>2. CASE hs[h].pc = "signed" /\ w.nonce = At(h)
      <4>. DEFINE n == At(h)
      <4>1. n \in Counts /\ Behind(n)
        BY <3>2, SendType, LauncherAssumption DEF InFront, Nonces, Counts
      <4>. HIDE DEF n
      <4>2. \A m \in count'..(n - 1) : pool'[m] # Empty \/ m \in evicted'
        BY <1>1, <4>1, BehindStays DEF TypeInv
      <4>. QED BY <3>2, <4>2 DEF Behind, n
    <3>. QED BY <1>24, <3>1, <3>2
  <2>. QED BY <2>2, <2>3, <2>4 DEF InFront
<1>25. ASSUME NEW h \in Signers, SendLost(h) \/ SendLate(h) PROVE InFront'
  BY <1>24, <1>25 DEF SendLost, SendLate
<1>26. ASSUME NEW h \in Signers, Sent(h) PROVE InFront'
  <2>1. /\ hs[h].pc = "signed" /\ Answered(h) /\ wire' = wire
    BY <1>26 DEF Sent
  <2>2. /\ hs'[h].pend \in {Unread, hs[h].pend}
        /\ \A g \in Handlers \ {h} : hs'[g] = hs[g]
    BY <2>1, AnsweredDoes
  <2>3. \A g \in Handlers : hs'[g].pend # Unread => Behind(hs[g].pend)'
    BY <1>1, <2>2, ReadStays
  <2>4. \A g \in Signers : hs'[g].pc = "signed" => Behind(At(g))'
    BY <1>1, <1>26, <2>2, SignedStays, NextTransfer DEF Handlers
  <2>5. \A w \in wire' : Behind(w.nonce)'
    BY <1>1, <2>1, LateStays
  <2>. QED BY <2>3, <2>4, <2>5 DEF InFront
<1>. QED
  BY <1>8, <1>9, <1>10, <1>11, <1>12, <1>13, <1>14, <1>15, <1>17, <1>18, <1>19, <1>20, <1>21,
     <1>22, <1>23, <1>25, <1>26
  DEF Next, Network, Requests, Timers, Steps, Reads

\* The launcher's own sends leave no hole: whatever is lost, late or forgotten, what
\* enters the mempool has every earlier nonce in front of it, but for those the node
\* forgot; a fan-out stops at its first failure (v5/bundle.js).
THEOREM NoHoles == Spec => Gapless
<1>1. Init => TypeInv /\ Booked /\ InFront
  BY InitTypes, InitBooked, InitInFront
<1>2. TypeInv /\ Booked /\ InFront /\ [Next]_vars => (TypeInv /\ Booked /\ InFront)'
  BY StepTypes, StepBooked, StepInFront
<1>3. TypeInv /\ InFront /\ [Next]_vars =>
        [\A n \in Nonces : pool'[n] # Empty /\ pool[n] = Empty =>
           \A m \in count'..(n - 1) : pool'[m] # Empty \/ m \in evicted]_vars
  BY StepGrows DEF Entered
<1>. QED BY <1>1, <1>2, <1>3, PTL DEF Spec, Gapless
=============================================================================
