------------------------------ MODULE Launcher ------------------------------
(***************************************************************************)
(* The v5 launcher wallet, v5dev (backend/src/routes/v5.js and v5/): one   *)
(* key that the launch, the token fan-out, the approval, the withdrawal,   *)
(* the cancel and the timed Relay deposits all sign with, each at a nonce  *)
(* it has read from the node.  Locks in memory keep them apart, a launch   *)
(* whose fate is unknown is parked, and POST /v5/launch/resolve takes the  *)
(* marker away.  A restart forgets all of it: what remains is the node.    *)
(*                                                                         *)
(* One account.  The node is modelled by what the code reads of it: the    *)
(* mined count, the mempool by nonce, the receipts of launches.  A request *)
(* may be taken and its answer lost, refused, or arrive after the caller   *)
(* gave up.  Amounts, gas, quotes and what a transaction does are left     *)
(* out; the funding job is the coarse one of relayFundJob.js (its own      *)
(* steps are in TimedFunder); a sell or a buy is a lock held for a while,  *)
(* for its nonces are those of other wallets.                              *)
(***************************************************************************)
EXTENDS Integers, Sequences, FiniteSets

CONSTANTS
  MaxNonce,      \* bound on the launcher's transactions
  MaxLaunches,   \* bound on launches signed
  Batch,         \* transfers of a fan-out
  Exits,         \* what is done with the bundle wallets: "sell", "buy"
  AnyHash,       \* /resolve is asked of other launches than the parked one
  MaxFaults      \* bound on transactions the node forgets, requests that arrive after
                 \* their caller gave up, reads that throw, and crashes, taken together

ASSUME LauncherAssumption ==
  /\ MaxNonce \in Nat /\ MaxLaunches \in Nat /\ Batch \in Nat \ {0}
  /\ Exits \subseteq {"sell", "buy"} /\ AnyHash \in BOOLEAN /\ MaxFaults \in Nat

Signers  == {"launch", "bundle", "action", "fund"}
Handlers == Signers \cup {"resolve"}
Nonces   == 0..(MaxNonce - 1)
Counts   == 0..MaxNonce
Unread   == -1

Empty  == [kind |-> "empty", id |-> 0]
Txs    == [kind : {"launch", "cancel", "other"}, id : 0..MaxLaunches]
Marker == [id : 1..MaxLaunches, nonce : Nonces]
NoMark == [id |-> 0, nonce |-> Unread]

VARIABLES
  count,     \* getTransactionCount(v5dev, 'latest')
  pool,      \* the mempool: the transaction at each nonce
  mined,     \* launches that have a receipt
  wire,      \* requests whose caller gave up and that may still arrive
  hs,        \* the handlers in progress
  asked,     \* the launch /resolve is re-checking
  parked,    \* pendingLaunches
  job,       \* the timed funding job
  grace,     \* RELAY_DRAIN_GRACE_MS has not passed since the job ended
  exits,     \* selling and buying, but for a combined launch's
  signedAt,  \* the nonce of each launch, in the order they were signed
  evicted,   \* history: nonces at which the node forgot a transaction
  loose,     \* history: launches in no handler's hands: sent late, or before a restart
  faults

chain == <<count, pool, mined, wire, evicted>>
memory == <<asked, parked, job, grace, exits>>
ghosts == <<loose, faults>>
vars == <<count, pool, mined, wire, hs, asked, parked, job, grace, exits, signedAt,
          evicted, loose, faults>>

Fresh == [pc |-> "idle", act |-> "none", pend |-> Unread, lat |-> Unread,
          held |-> Unread, nonce |-> Unread, sent |-> 0]

Acts == {"none", "alone", "combo", "approve", "withdraw", "cancel"}
HandlerRecords ==
  [pc : {"idle", "receipt", "sizing", "reading", "signed", "waiting", "tail", "unknown"},
   act : Acts, pend : Counts \cup {Unread}, lat : Counts \cup {Unread},
   held : Counts \cup {Unread}, nonce : Nonces \cup {Unread}, sent : 0..Batch]

TypeOK ==
  /\ count \in Counts /\ pool \in [Nonces -> Txs \cup {Empty}]
  /\ mined \subseteq 1..MaxLaunches
  /\ wire \subseteq [nonce : Nonces, tx : Txs]
  /\ hs \in [Handlers -> HandlerRecords]
  /\ asked \in Marker \cup {NoMark} /\ parked \in Marker \cup {NoMark}
  /\ job \in {"none", "running", "ended"} /\ grace \in BOOLEAN
  /\ exits \subseteq Exits
  /\ signedAt \in Seq(Nonces) /\ Len(signedAt) <= MaxLaunches
  /\ evicted \subseteq Nonces /\ loose \subseteq 1..MaxLaunches
  /\ faults \in 0..MaxFaults

Init ==
  /\ count = 0 /\ pool = [n \in Nonces |-> Empty] /\ mined = {} /\ wire = {}
  /\ hs = [h \in Handlers |-> Fresh] /\ asked = NoMark /\ parked = NoMark
  /\ job = "none" /\ grace = FALSE /\ exits = {} /\ signedAt = <<>>
  /\ evicted = {} /\ loose = {} /\ faults = 0
-----------------------------------------------------------------------------
(* The node.                                                               *)

Fault == faults < MaxFaults /\ faults' = faults + 1

\* getTransactionCount(v5dev, 'pending'): past the run of transactions that can mine.
Pending == count + Cardinality({n \in count..(MaxNonce - 1) : \A m \in count..n : pool[m] # Empty})

\* A nonce that is not mined yet is taken, in place of another transaction also.
Takes(n, tx) == n >= count /\ pool' = [pool EXCEPT ![n] = tx]

\* The transaction at the head of the queue is mined.
Mine ==
  /\ count < MaxNonce /\ pool[count] # Empty
  /\ count' = count + 1 /\ pool' = [pool EXCEPT ![count] = Empty]
  /\ mined' = IF pool[count].kind = "launch" THEN mined \cup {pool[count].id} ELSE mined
  /\ UNCHANGED <<wire, hs, memory, signedAt, evicted, ghosts>>

Evict(n) ==
  /\ pool[n] # Empty /\ Fault
  /\ pool' = [pool EXCEPT ![n] = Empty] /\ evicted' = evicted \cup {n}
  /\ UNCHANGED <<count, mined, wire, hs, memory, signedAt, loose>>

\* A request nobody waits for arrives, and is taken or refused.
Arrive(w) ==
  /\ wire' = wire \ {w}
  /\ Takes(w.nonce, w.tx) \/ UNCHANGED pool
  /\ UNCHANGED <<count, mined, hs, memory, signedAt, evicted, ghosts>>
-----------------------------------------------------------------------------
(* The locks.                                                              *)

Idle(h) == hs[h].pc = "idle"
launching == ~Idle("launch")
bundling == ~Idle("bundle")
launcherBusy == ~Idle("action")
selling == "sell" \in exits
buying == "buy" \in exits \/ hs["launch"].act = "combo"
inFlight == ~Idle("fund")
relayFundingActive == job = "running" \/ inFlight \/ grace

Begin(h, pc, act) ==
  /\ hs' = [hs EXCEPT ![h] = [Fresh EXCEPT !.pc = pc, !.act = act]]
  /\ UNCHANGED <<chain, parked, job, grace, exits, signedAt, ghosts>>

\* POST /v5/launch, and /v5/launch-bundle, which buys with the bundle wallets.
withLaunchLock == ~launching /\ ~bundling /\ parked = NoMark /\ ~launcherBusy /\ ~relayFundingActive
Launch(act) ==
  /\ withLaunchLock /\ Len(signedAt) < MaxLaunches
  /\ act = "combo" => ~selling /\ ~buying
  /\ Begin("launch", "reading", act) /\ UNCHANGED asked

\* POST /v5/bundle
withBundleLock ==
  /\ ~bundling /\ ~launching /\ parked = NoMark /\ ~launcherBusy /\ ~relayFundingActive
  /\ ~selling /\ ~buying
Bundle == withBundleLock /\ Begin("bundle", "sizing", "none") /\ UNCHANGED asked

\* POST /v5/launch/approve, /v5/launcher/withdraw and /v5/launcher/cancel
withLauncherLock == ~launcherBusy /\ ~relayFundingActive
Action(act) ==
  /\ withLauncherLock /\ ~launching /\ ~bundling
  /\ act # "cancel" => parked = NoMark
  /\ act # "approve" => ~selling
  /\ Begin("action", "reading", act) /\ UNCHANGED asked

\* POST /v5/sell and /v5/bundle-buy
Exit(e) ==
  /\ ~selling /\ ~buying /\ ~bundling
  /\ exits' = exits \cup {e}
  /\ UNCHANGED <<chain, hs, asked, parked, job, grace, signedAt, ghosts>>
ExitEnds(e) ==
  /\ e \in exits /\ exits' = exits \ {e}
  /\ UNCHANGED <<chain, hs, asked, parked, job, grace, signedAt, ghosts>>

\* Mutation: the launcher's own actions are not asked about.
FundStartAnyway ==
  /\ ~launching /\ ~bundling /\ parked = NoMark
  /\ job # "running" /\ ~inFlight
  /\ job' = "running" /\ grace' = FALSE
  /\ UNCHANGED <<chain, hs, asked, parked, exits, signedAt, ghosts>>

\* POST /v5/fund/relay; a new job has no end to count the grace from.
FundStart ==
  /\ ~launching /\ ~bundling /\ ~launcherBusy /\ parked = NoMark
  /\ job # "running" /\ ~inFlight
  /\ job' = "running" /\ grace' = FALSE
  /\ UNCHANGED <<chain, hs, asked, parked, exits, signedAt, ghosts>>
FundTick == job = "running" /\ ~inFlight /\ Begin("fund", "reading", "none") /\ UNCHANGED asked
FundStop ==
  /\ job = "running" /\ job' = "ended" /\ grace' = TRUE
  /\ UNCHANGED <<chain, hs, asked, parked, exits, signedAt, ghosts>>
GraceOver ==
  /\ grace /\ grace' = FALSE
  /\ UNCHANGED <<chain, hs, asked, parked, job, exits, signedAt, ghosts>>
-----------------------------------------------------------------------------
(* A handler reads its nonces, signs, and sends.                           *)

\* The finally of a lock.  After a deposit the job goes on, or it was the last one.
Leave(h) ==
  /\ hs' = [hs EXCEPT ![h] = Fresh]
  /\ \/ UNCHANGED <<job, grace>>
     \/ h = "fund" /\ job = "running" /\ job' = "ended" /\ grace' = TRUE

\* A fan-out splits the balance there is now, which is the one after `held'
\* transactions of the launcher.
SizeSplit ==
  /\ hs["bundle"].pc = "sizing"
  /\ hs' = [hs EXCEPT !["bundle"].pc = "reading", !["bundle"].held = count]
  /\ UNCHANGED <<chain, memory, signedAt, ghosts>>

\* The two counts are two requests of one Promise.all, answered in either order.
ReadPending(h) ==
  /\ hs[h].pc = "reading" /\ hs[h].pend = Unread
  /\ hs' = [hs EXCEPT ![h].pend = Pending]
  /\ UNCHANGED <<chain, memory, signedAt, ghosts>>
ReadLatest(h) ==
  /\ hs[h].pc = "reading" /\ h # "fund" /\ hs[h].lat = Unread
  /\ hs' = [hs EXCEPT ![h].lat = count]
  /\ UNCHANGED <<chain, memory, signedAt, ghosts>>

HasRead(h) == /\ hs[h].pc = "reading" /\ hs[h].pend # Unread
              /\ h = "fund" \/ hs[h].lat # Unread

\* Mutation: only the marker keeps a second launch out.
GateMarkerOnly(h) ==
  hs[h].act = "cancel" => hs[h].pend > hs[h].lat

\* The settled-nonce gate; a deposit has none, and a cancel is for what is not settled.
Gate(h) == CASE h = "fund" -> TRUE
             [] hs[h].act = "cancel" -> hs[h].pend > hs[h].lat
             [] OTHER -> hs[h].pend <= hs[h].lat

Sign(h) ==
  LET nonce == IF hs[h].act = "cancel" THEN hs[h].lat ELSE hs[h].pend IN
  /\ HasRead(h) /\ Gate(h)
  /\ nonce + (IF h = "bundle" THEN Batch ELSE 1) <= MaxNonce
  /\ hs' = [hs EXCEPT ![h] = [@ EXCEPT !.pc = "signed", !.nonce = nonce, !.pend = Unread, !.lat = Unread,
                                      !.held = Unread]]
  /\ signedAt' = IF h = "launch" THEN Append(signedAt, nonce) ELSE signedAt
  /\ UNCHANGED <<chain, asked, parked, job, grace, exits, ghosts>>

Refuse(h) ==
  /\ HasRead(h) /\ ~Gate(h)
  /\ Leave(h)
  /\ UNCHANGED <<chain, asked, parked, exits, signedAt, ghosts>>

\* Anything before the first request throws.
Fails(h) ==
  /\ hs[h].pc \in {"sizing", "reading", "signed"} /\ hs[h].sent = 0 /\ Fault
  /\ Leave(h)
  /\ UNCHANGED <<chain, asked, parked, exits, signedAt, loose>>

Tx(h) == [kind |-> IF h = "launch" THEN "launch" ELSE IF hs[h].act = "cancel" THEN "cancel" ELSE "other",
          id |-> IF h = "launch" THEN Len(signedAt) ELSE 0]
At(h) == hs[h].nonce + hs[h].sent

\* What is left of a handler once its last request is answered: its lock.
Await(h, pc) ==
  /\ hs' = [hs EXCEPT ![h] = [Fresh EXCEPT !.pc = pc, !.act = hs[h].act]]
  /\ UNCHANGED <<job, grace>>

\* The node took it and said so: a fan-out goes on with the next transfer.
Answered(h) ==
  CASE h = "fund" -> Leave(h)
    [] h = "bundle" /\ hs[h].sent + 1 < Batch ->
         hs' = [hs EXCEPT ![h].sent = @ + 1] /\ UNCHANGED <<job, grace>>
    [] OTHER -> Await(h, "waiting")

\* Mutation: the transfers behind a failed one are sent all the same.
ThrewGoesOn(h) == IF h = "launch" THEN Await(h, "unknown") ELSE Answered(h)

\* broadcastTransaction threw: a launch may be out, a fan-out stops, the rest report it.
Threw(h) ==
  CASE h = "launch" -> Await(h, "unknown")
    [] h = "bundle" -> Await(h, "waiting")
    [] OTHER -> Leave(h)

Sent(h) ==
  /\ hs[h].pc = "signed" /\ Takes(At(h), Tx(h)) /\ Answered(h)
  /\ UNCHANGED <<count, mined, wire, evicted, asked, parked, exits, signedAt, ghosts>>
SendLost(h) ==
  /\ hs[h].pc = "signed"
  /\ Takes(At(h), Tx(h)) \/ UNCHANGED pool
  /\ Threw(h)
  /\ UNCHANGED <<count, mined, wire, evicted, asked, parked, exits, signedAt, ghosts>>
SendLate(h) ==
  /\ hs[h].pc = "signed" /\ Fault
  /\ wire' = wire \cup {[nonce |-> At(h), tx |-> Tx(h)]}
  /\ loose' = IF h = "launch" THEN loose \cup {Len(signedAt)} ELSE loose
  /\ Threw(h)
  /\ UNCHANGED <<count, pool, mined, evicted, asked, parked, exits, signedAt>>

\* waitForReceipt, and what a combined launch does when it has the receipt.
Receipt ==
  /\ hs["launch"].pc = "waiting"
  /\ \E pc \in {"tail", "unknown"} :
       /\ pc = "tail" => Len(signedAt) \in mined
       /\ hs' = [hs EXCEPT !["launch"].pc = pc]
  /\ UNCHANGED <<chain, memory, signedAt, ghosts>>

\* A launch without a receipt is parked before its lock goes.
LaunchEnds ==
  /\ hs["launch"].pc \in {"tail", "unknown"}
  /\ parked' = IF hs["launch"].pc = "unknown"
               THEN [id |-> Len(signedAt), nonce |-> signedAt[Len(signedAt)]] ELSE parked
  /\ Leave("launch")
  /\ UNCHANGED <<chain, asked, exits, signedAt, ghosts>>

\* The other handlers only report the receipts they waited for.
Ends(h) ==
  /\ h \in {"bundle", "action"} /\ hs[h].pc = "waiting"
  /\ Leave(h)
  /\ UNCHANGED <<chain, asked, parked, exits, signedAt, ghosts>>
-----------------------------------------------------------------------------
(* POST /v5/launch/resolve                                                 *)

\* The launches whose hash the operator was told, or can find.
Told == IF hs["launch"].pc \in {"idle", "reading"} THEN Len(signedAt) ELSE Len(signedAt) - 1

\* The parked launch or, when none is, the one whose hash the operator gives.
Resolve ==
  /\ Idle("resolve")
  /\ \E i \in 1..Told :
       /\ asked' = [id |-> i, nonce |-> signedAt[i]]
       /\ IF parked = NoMark THEN AnyHash ELSE asked' = parked
  /\ Begin("resolve", "receipt", "none")

\* A receipt settles it; without one both counts are read.
ReadReceipt ==
  /\ hs["resolve"].pc = "receipt"
  /\ \/ /\ asked.id \in mined
        /\ parked' = NoMark /\ asked' = NoMark
        /\ hs' = [hs EXCEPT !["resolve"] = Fresh]
     \/ /\ asked.id \notin mined
        /\ hs' = [hs EXCEPT !["resolve"].pc = "reading"]
        /\ UNCHANGED <<parked, asked>>
  /\ UNCHANGED <<chain, job, grace, exits, signedAt, ghosts>>

\* Mutations: the nonce it would take next counts as past; only 'pending' is read.
IsGoneEarly(pend, lat, nonce) == lat >= nonce \/ pend <= nonce
IsGonePendingOnly(pend, lat, nonce) == pend <= nonce

\* reconcileLaunch: its nonce is past, or nothing is pending at it.
IsGone(pend, lat, nonce) == lat > nonce \/ pend <= nonce
Verdict ==
  LET r == hs["resolve"] IN
  /\ HasRead("resolve")
  /\ parked' = IF IsGone(r.pend, r.lat, asked.nonce) THEN NoMark ELSE parked
  /\ asked' = NoMark /\ hs' = [hs EXCEPT !["resolve"] = Fresh]
  /\ UNCHANGED <<chain, job, grace, exits, signedAt, ghosts>>

\* A read of the node throws: nothing is decided.
ResolveFails ==
  /\ hs["resolve"].pc \in {"receipt", "reading"} /\ Fault
  /\ hs' = [hs EXCEPT !["resolve"] = Fresh] /\ asked' = NoMark
  /\ UNCHANGED <<chain, parked, job, grace, exits, signedAt, loose>>

\* Locks, marker and job are memory.
Crash ==
  /\ Fault
  /\ hs' = [h \in Handlers |-> Fresh] /\ asked' = NoMark /\ parked' = NoMark
  /\ job' = "none" /\ grace' = FALSE /\ exits' = {}
  /\ loose' = 1..Len(signedAt)
  /\ UNCHANGED <<chain, signedAt>>
-----------------------------------------------------------------------------
Network == Mine \/ (\E n \in Nonces : Evict(n)) \/ (\E w \in wire : Arrive(w))
Requests ==
  \/ \E act \in {"alone", "combo"} : Launch(act)
  \/ Bundle \/ FundStart \/ FundStop \/ Resolve \/ Crash
  \/ \E act \in {"approve", "withdraw", "cancel"} : Action(act)
  \/ \E e \in Exits : Exit(e)
Steps(h) ==
  \/ Sign(h) \/ Refuse(h) \/ Fails(h) \/ Sent(h) \/ SendLost(h) \/ SendLate(h) \/ Ends(h)
Reads(h) == ReadPending(h) \/ ReadLatest(h)
Timers == FundTick \/ GraceOver \/ \E e \in Exits : ExitEnds(e)
Next ==
  \/ Network \/ Requests \/ Timers \/ Receipt \/ LaunchEnds
  \/ ReadReceipt \/ Verdict \/ ResolveFails \/ SizeSplit
  \/ \E h \in Handlers : Reads(h)
  \/ \E h \in Signers : Steps(h)

Spec == Init /\ [][Next]_vars

\* Awaits end, and an operator who is told the launcher is stuck does what the
\* answers tell him: he cancels and resolves again and again, and now and then the
\* node takes what outbids the stuck transaction, and mines it.
Resolving == Resolve \/ ReadReceipt \/ Reads("resolve") \/ Verdict
MineCancel == count < MaxNonce /\ pool[count].kind = "cancel" /\ Mine
FairSpec ==
  /\ Spec
  /\ WF_vars(Resolving) /\ WF_vars(Reads("action") \/ Steps("action"))
  /\ SF_vars(Action("cancel")) /\ SF_vars(Sent("action")) /\ WF_vars(MineCancel)
  /\ \A e \in Exits : WF_vars(ExitEnds(e))
-----------------------------------------------------------------------------
(* Properties.                                                             *)

\* No two launches can both be mined from here: whatever was lost, sent late or
\* forgotten in a restart, those that are still out hold one and the same nonce, so
\* one fee and one first buy are spent.  This is what the settled-nonce gate is for
\* (v5/launch.js:459-480), after the marker of routes/v5.js:73-87 is gone.
Out(id, n) ==
  /\ n >= count
  /\ \/ n \in Nonces /\ pool[n] = [kind |-> "launch", id |-> id]
     \/ [nonce |-> n, tx |-> [kind |-> "launch", id |-> id]] \in wire
     \/ hs["launch"].pc = "signed" /\ hs["launch"].nonce = n /\ Len(signedAt) = id
OneLaunchCanMine ==
  \A i, j \in 1..MaxLaunches : \A m, n \in Nonces : Out(i, m) /\ Out(j, n) => m = n

\* From the first nonce it reads to its last request a handler is alone with the
\* launcher's key, and the bundle wallets are spent by one sell, buy, combined
\* launch or fan-out at a time: each lock checks a different set of the others
\* (routes/v5.js:90-308, 623, 777, 858, 1166-1241).
Signing(h) ==
  \/ hs[h].pc = "signed"
  \/ hs[h].pc = "reading" /\ (hs[h].pend # Unread \/ hs[h].lat # Unread)
OneSpender ==
  /\ \A g, h \in Signers : Signing(g) /\ Signing(h) => g = h
  /\ \A e \in exits : exits = {e} /\ ~bundling /\ hs["launch"].act # "combo"
  /\ bundling => ~launching

\* A launch this process has sent and that is still in the mempool has its handler
\* running or is the one that is parked; nothing clears the marker of a launch that
\* may still be mined (routes/v5.js:73-87, 695-758).
LiveLaunchIsGuarded ==
  \A n \in Nonces :
    pool[n].kind = "launch" /\ pool[n].id \notin loose => launching \/ parked.id = pool[n].id

\* The launcher's own sends leave no hole: what enters the mempool has every earlier
\* nonce in front of it, but for those the node forgot (v5/bundle.js:332-356).
Gapless ==
  [][\A n \in Nonces : pool'[n] # Empty /\ pool[n] = Empty =>
       \A m \in count'..(n - 1) : pool'[m] # Empty \/ m \in evicted]_vars

\* A parked launch does not brick the launcher: cancelling and resolving brings the
\* marker down, for launches that are mined, replaced or forgotten alike
\* (v5/launch.js:829-848, routes/v5.js:1227-1230).
Unbricked == parked # NoMark ~> parked = NoMark

\* A fan-out is sized on a settled balance (v5/bundle.js:228-245): no transaction of
\* the launcher is mined between the balance it splits and the gate.  Not so: the
\* balance is read first (166-170), and what was in flight then may be mined since.
SplitIsSettled ==
  [][hs["bundle"].pc = "reading" /\ hs'["bundle"].pc = "signed" =>
       hs["bundle"].held = hs["bundle"].lat]_vars

\* A launch reported dropped was not mined (v5/launch.js:857, 'it never mined').
\* Not so: it may be mined between the receipt's read and the counts'.
DroppedNeverMined ==
  [][asked # NoMark /\ asked' = NoMark /\ parked # NoMark /\ parked' = NoMark
       /\ hs["resolve"].pc = "reading" => asked.id \notin mined]_vars
=============================================================================
