--------------------------- MODULE CampaignProofs ---------------------------
(***************************************************************************)
(* Proofs about the campaigns of Campaign, for any plan, any number of     *)
(* campaigns, requests, failed writes and crashes: a campaign pays no seed *)
(* twice, running campaigns share no funding wallet, a campaign that runs  *)
(* is armed, and its sends never leave in a burst.                         *)
(*                                                                         *)
(* Paid once (IInv): a seed is in the plan of one campaign, a campaign has *)
(* one send out and it is to a seed whose transfer is pending in memory,   *)
(* and a payment not forgotten is on record as sent: in memory while the   *)
(* process runs, on disk when it does not.  Whatever write fails, what is  *)
(* in memory afterwards still has the record.                              *)
(*                                                                         *)
(* Wallets and timers (ShareInv, ArmInv): each stretch of code about a     *)
(* campaign is taken whole.  Either all its writes went down, and the last *)
(* of them left the campaign stopped or with something to pay and nothing  *)
(* overdue (Ready), so that the timer arm() sets is set and not past; or a *)
(* write failed, and the campaign is halted or on the list of those that   *)
(* failed.  During boot the wallets of what is behind the loop are claimed.*)
(***************************************************************************)
EXTENDS Campaign, FiniteSetTheorems, SequenceTheorems, WellFoundedInduction, TLAPS

Types ==
  /\ cache \in Store /\ file \in Store
  /\ job = [c \in Ids |-> [timer |-> job[c].timer, inFlight |-> job[c].inFlight]]
  /\ flight = [c \in Ids |-> flight[c]]
  /\ post \in [Ids -> [master: Masters, seeds: SUBSET Seeds] \cup {NoPost}]
  /\ edges \in [Seeds -> Nat]

\* A send that is out is the campaign's only one, and its transfer is pending.
OneSendOut ==
  \A c \in Ids :
    \/ flight[c] = <<>>
    \/ \E s \in Seeds : /\ flight[c] = <<s>> /\ job[c].inFlight /\ Exists(cache, c)
                       /\ cache[c].tr[s].st = "pending"

\* What the process works with, or will when it is started again.
Record == IF up THEN cache ELSE file

IInv ==
  /\ Types
  /\ ClaimedOnce(cache) /\ ClaimedOnce(file)
  /\ OneSendOut
  /\ \A c \in Ids : post[c] # NoPost => ~Exists(cache, c)
  /\ boot.left \subseteq Running(cache)
  /\ ~up => boot.left = {} /\ \A c \in Ids : ~Exists(cache, c) /\ flight[c] = <<>> /\ post[c] = NoPost
  /\ \A s \in Seeds : edges[s] = 0 \/ (edges[s] = 1 /\ Sent(Record, s))
-----------------------------------------------------------------------------
(* What a write of the store changes *)

St == {"none", "pending", "sent", "abandoned"}

\* k2 is k but for campaign c, whose transfers to the seeds in X end up in T and
\* whose other transfers stay what they were.
Follows(k, k2, c, X, T) ==
  /\ k2 \in Store /\ Exists(k2, c)
  /\ \A d \in Ids \ {c} : k2[d] = k[d]
  /\ \A s \in Seeds \ X : k2[c].tr[s].st = k[c].tr[s].st
  /\ \A s \in X : k2[c].tr[s].st \in T

LEMMA StoreFields ==
  ASSUME NEW k \in Store, NEW c \in Ids, Exists(k, c)
  PROVE  /\ k[c] \in CampaignRec
         /\ \A s \in Seeds : /\ k[c].tr[s] \in Transfer /\ k[c].tr[s].st \in St
                             /\ k[c].tr[s].att \in 0..MaxAttempts
                             /\ k[c].tr[s].due \in 0..Horizon
<1>1. k[c] \in CampaignRec
  BY DEF Store, Exists
<1>2. \A s \in Seeds : k[c].tr[s] \in Transfer
  BY <1>1 DEF CampaignRec
<1> QED
  BY <1>1, <1>2 DEF Transfer, St

\* The campaign's record replaced by another.
LEMMA PutIsStore ==
  ASSUME NEW k \in Store, NEW c \in Ids, NEW r \in CampaignRec
  PROVE  /\ Put(k, c, r) \in Store /\ Exists(Put(k, c, r), c) /\ Put(k, c, r)[c] = r
         /\ \A d \in Ids \ {c} : Put(k, c, r)[d] = k[d]
BY FileAssumption DEF Put, Store, Exists

\* A record with other transfers, or another status or counter.
LEMMA RecordParts ==
  ASSUME NEW r \in CampaignRec
  PROVE  /\ \A st \in Statuses : [r EXCEPT !.status = st] \in CampaignRec
         /\ \A n \in Nat : [r EXCEPT !.fails = n] \in CampaignRec
         /\ \A t \in [Seeds -> Transfer] : [r EXCEPT !.tr = t] \in CampaignRec
BY DEF CampaignRec

LEMMA SetStatusFollows ==
  ASSUME NEW k, NEW k2, NEW c \in Ids, NEW X \in SUBSET Seeds, NEW T,
         Follows(k, k2, c, X, T), NEW st \in Statuses
  PROVE  Follows(k, SetStatus(k2, c, st), c, X, T)
<1> DEFINE r == [k2[c] EXCEPT !.status = st]
<1>1. k2 \in Store /\ Exists(k2, c) /\ k2[c] \in CampaignRec
  BY StoreFields DEF Follows
<1>2. SetStatus(k2, c, st) = Put(k2, c, r)
  BY DEF SetStatus, Put
<1>3. r \in CampaignRec /\ r.tr = k2[c].tr
  BY <1>1, RecordParts DEF CampaignRec
<1> HIDE DEF r
<1> QED
  BY <1>1, <1>2, <1>3, PutIsStore DEF Follows

\* Moving the backlog touches no status.
LEMMA MovedFollows ==
  ASSUME NEW k, NEW k2, NEW c \in Ids, NEW X \in SUBSET Seeds, NEW T,
         Follows(k, k2, c, X, T), NEW g \in Spreads(k2[c]), NEW n
  PROVE  Follows(k, Put(k2, c, Moved(k2[c], g, n)), c, X, T)
<1> DEFINE r == k2[c]
           m(s) == /\ s \in Overdue(r)
                   /\ Cardinality({u \in Overdue(r) : g[u] <= g[s]}) <= n
           t == [s \in Seeds |-> IF m(s) THEN [r.tr[s] EXCEPT !.due = g[s]] ELSE r.tr[s]]
<1>1. k2 \in Store /\ Exists(k2, c) /\ r \in CampaignRec
  BY StoreFields DEF Follows
<1>2. \A s \in Overdue(r) : g[s] \in 0..Horizon
  BY DEF Spreads, FreeSlots
<1>3. \A s \in Seeds : r.tr[s] \in Transfer
  BY <1>1 DEF CampaignRec
<1>4. \A s \in Seeds, d \in 0..Horizon :
        /\ [r.tr[s] EXCEPT !.due = d] \in Transfer
        /\ [r.tr[s] EXCEPT !.due = d].st = r.tr[s].st
  BY <1>3 DEF Transfer
<1>5. Moved(k2[c], g, n) = [r EXCEPT !.tr = t]
  BY DEF Moved
<1>6. \A s \in Seeds : m(s) => g[s] \in 0..Horizon
  BY <1>2
<1> HIDE DEF m
<1>7. t \in [Seeds -> Transfer] /\ \A s \in Seeds : t[s].st = r.tr[s].st
  BY <1>3, <1>4, <1>6
<1> HIDE DEF t
<1> DEFINE r2 == Moved(k2[c], g, n)
<1>8. r2 \in CampaignRec /\ r2.tr = t
  BY <1>1, <1>5, <1>7, RecordParts DEF CampaignRec
<1>9. \A s \in Seeds : r2.tr[s].st = k2[c].tr[s].st
  BY <1>7, <1>8
<1> HIDE DEF r2
<1>10. /\ Put(k2, c, r2) \in Store /\ Exists(Put(k2, c, r2), c) /\ Put(k2, c, r2)[c] = r2
       /\ \A d \in Ids \ {c} : Put(k2, c, r2)[d] = k2[d]
  BY <1>1, <1>8, PutIsStore
<1>11. Follows(k, Put(k2, c, r2), c, X, T)
  BY <1>9, <1>10 DEF Follows
<1> QED
  BY <1>11 DEF r2

\* A sequence of writes, each of which follows k.
AllFollow(k, ks, c, X, T) ==
  /\ ks \in Seq(Store)
  /\ \A i \in 1..Len(ks) : Follows(k, ks[i], c, X, T)

LEMMA BothFollow ==
  ASSUME NEW k, NEW c, NEW X, NEW T, NEW s1, NEW s2,
         AllFollow(k, s1, c, X, T), AllFollow(k, s2, c, X, T)
  PROVE  AllFollow(k, s1 \o s2, c, X, T)
<1> DEFINE S == Store
<1>0. s1 \in Seq(S) /\ s2 \in Seq(S)
  BY DEF AllFollow
<1> HIDE DEF S
<1>1. s1 \o s2 \in Seq(S) /\ Len(s1 \o s2) = Len(s1) + Len(s2)
  BY <1>0, ConcatProperties
<1>2. \A i \in 1..(Len(s1) + Len(s2)) :
        (s1 \o s2)[i] = IF i <= Len(s1) THEN s1[i] ELSE s2[i - Len(s1)]
  BY <1>0, ConcatProperties
<1>3. Len(s1) \in Nat /\ Len(s2) \in Nat
  BY <1>0, LenProperties
<1>4. ASSUME NEW i \in 1..(Len(s1) + Len(s2)) PROVE Follows(k, (s1 \o s2)[i], c, X, T)
  <2>1. CASE i <= Len(s1)
    <3>1. i \in 1..Len(s1)
      BY <1>3, <2>1
    <3> QED
      BY <1>2, <2>1, <3>1 DEF AllFollow
  <2>2. CASE ~(i <= Len(s1))
    <3>1. i - Len(s1) \in 1..Len(s2)
      BY <1>3, <2>2
    <3> QED
      BY <1>2, <2>2, <3>1 DEF AllFollow
  <2> QED
    BY <2>1, <2>2
<1> QED
  BY <1>1, <1>4 DEF AllFollow, S

LEMMA OverdueFinite ==
  ASSUME NEW r PROVE Cardinality(Overdue(r)) \in Nat
<1>1. Overdue(r) \subseteq Seeds
  BY DEF Overdue, Pending
<1> QED
  BY <1>1, FS_Subset, FS_CardinalityType, BoundAssumption

\* arm() touches no status of a transfer.
LEMMA ArmFollows ==
  ASSUME NEW k, NEW k2, NEW c \in Ids, NEW X \in SUBSET Seeds, NEW T,
         Follows(k, k2, c, X, T), NEW g \in Spreads(k2[c])
  PROVE  AllFollow(k, ArmWrites(k2, c, g), c, X, T)
<1>1. CASE Pending(k2[c]) = {}
  <2> DEFINE k3 == SetStatus(k2, c, "complete")
  <2>1. Follows(k, k3, c, X, T)
    BY SetStatusFollows DEF Statuses
  <2>2. k3 \in Store
    BY <2>1 DEF Follows
  <2> HIDE DEF k3
  <2>3. ArmWrites(k2, c, g) = <<k3>>
    BY <1>1 DEF ArmWrites, k3
  <2> QED
    BY <2>1, <2>2, <2>3 DEF AllFollow
<1>2. CASE Pending(k2[c]) # {}
  <2> DEFINE n == Cardinality(Overdue(k2[c]))
             w(i) == Put(k2, c, Moved(k2[c], g, i))
  <2>1. n \in Nat
    BY OverdueFinite
  <2>2. \A i \in 1..n : Follows(k, w(i), c, X, T)
    BY MovedFollows
  <2>3. \A i \in 1..n : w(i) \in Store
    BY <2>2 DEF Follows
  <2>4. ArmWrites(k2, c, g) = [i \in 1..n |-> w(i)]
    BY <1>2 DEF ArmWrites, ReslotWrites
  <2> HIDE DEF n, w
  <2>5. [i \in 1..n |-> w(i)] \in Seq(Store) /\ Len([i \in 1..n |-> w(i)]) = n
    BY <2>1, <2>3
  <2> QED
    BY <2>1, <2>2, <2>4, <2>5 DEF AllFollow
<1> QED
  BY <1>1, <1>2

-----------------------------------------------------------------------------
(* Writes that succeed and writes that fail *)

\* What a stretch of code that changed campaign c leaves: in memory a store that
\* follows the one before; on disk that, an earlier one of the stretch, or what
\* was there.
Outcome(c, X, T) ==
  /\ Follows(cache, cache', c, X, T)
  /\ file' = file \/ Follows(cache, file', c, X, T)

LEMMA SelfFollows ==
  ASSUME NEW k \in Store, NEW c \in Ids, Exists(k, c), NEW T
  PROVE  Follows(k, k, c, {}, T)
BY DEF Follows

LEMMA LastFollows ==
  ASSUME NEW ks, NEW c \in Ids, NEW X, NEW T, AllFollow(cache, ks, c, X, T),
         ks # <<>> \/ Follows(cache, cache, c, X, T)
  PROVE  Follows(cache, After(ks), c, X, T)
<1>1. CASE ks = <<>>
  BY <1>1 DEF After
<1>2. CASE ks # <<>>
  <2>1. Len(ks) \in 1..Len(ks)
    BY <1>2 DEF AllFollow
  <2> QED
    BY <1>2, <2>1 DEF After, AllFollow
<1> QED
  BY <1>1, <1>2

LEMMA BeforeFollows ==
  ASSUME NEW ks, NEW c, NEW X, NEW T, AllFollow(cache, ks, c, X, T), NEW i \in DOMAIN ks
  PROVE  /\ Follows(cache, ks[i], c, X, T)
         /\ FileBefore(ks, i) = file \/ Follows(cache, FileBefore(ks, i), c, X, T)
<1>1. i \in 1..Len(ks) /\ Len(ks) \in Nat
  BY DEF AllFollow
<1>2. CASE i = 1
  BY <1>1, <1>2 DEF AllFollow, FileBefore
<1>3. CASE i # 1
  <2>1. i - 1 \in 1..Len(ks)
    BY <1>1, <1>3
  <2> QED
    BY <1>1, <1>3, <2>1 DEF AllFollow, FileBefore
<1> QED
  BY <1>2, <1>3

LEMMA AllDownOutcome ==
  ASSUME NEW ks, NEW c \in Ids, NEW X, NEW T, AllFollow(cache, ks, c, X, T),
         ks # <<>> \/ Follows(cache, cache, c, X, T), AllDown(ks)
  PROVE  Outcome(c, X, T)
<1>1. Follows(cache, After(ks), c, X, T)
  BY LastFollows
<1> QED
  BY <1>1 DEF AllDown, Outcome

\* Of a request, and of one campaign of the boot.
LEMMA RequestOutcome ==
  ASSUME NEW ks, NEW c \in Ids, NEW X, NEW T, AllFollow(cache, ks, c, X, T),
         ks # <<>> \/ Follows(cache, cache, c, X, T), InRequest(c, ks), Types
  PROVE  /\ Outcome(c, X, T)
         /\ job' = [d \in Ids |-> [timer |-> job'[d].timer, inFlight |-> job'[d].inFlight]]
         /\ \A d \in Ids : job'[d].inFlight = job[d].inFlight
<1>1. Outcome(c, X, T)
  <2>1. CASE AllDown(ks)
    BY <2>1, AllDownOutcome
  <2>2. CASE \E i \in DOMAIN ks : cache' = ks[i] /\ file' = FileBefore(ks, i)
    BY <2>2, BeforeFollows DEF Outcome
  <2> QED
    BY <2>1, <2>2 DEF InRequest
<1>2. \E t : job' = [job EXCEPT ![c] = [job[c] EXCEPT !.timer = t]]
  BY DEF InRequest, Armed, Forget
<1>3. PICK t : job' = [job EXCEPT ![c] = [job[c] EXCEPT !.timer = t]]
  BY <1>2
<1> QED
  BY <1>1, <1>3 DEF Types

\* Of a send's bookkeeping: a failed write halts the campaign.
LEMMA CallbackOutcome ==
  ASSUME NEW ks, NEW c \in Ids, NEW X \in SUBSET Seeds, NEW T,
         AllFollow(cache, ks, c, X, T), ks # <<>>, InCallback(c, ks), Types
  PROVE  /\ Outcome(c, X, T)
         /\ job' = [d \in Ids |-> [timer |-> job'[d].timer, inFlight |-> job'[d].inFlight]]
         /\ \A d \in Ids \ {c} : job'[d].inFlight = job[d].inFlight
<1>1. Outcome(c, X, T)
  <2>1. CASE AllDown(ks)
    BY <2>1, AllDownOutcome
  <2>2. CASE \E i \in DOMAIN ks, again \in BOOLEAN :
               LET h == SetStatus(ks[i], c, "halted")
               IN cache' = h /\ file' = IF again THEN FileBefore(ks, i) ELSE h
    <3>1. PICK i \in DOMAIN ks : /\ cache' = SetStatus(ks[i], c, "halted")
                                 /\ file' \in {FileBefore(ks, i), cache'}
      BY <2>2
    <3>2. /\ Follows(cache, ks[i], c, X, T)
          /\ FileBefore(ks, i) = file \/ Follows(cache, FileBefore(ks, i), c, X, T)
      BY BeforeFollows
    <3>3. Follows(cache, cache', c, X, T)
      BY <3>1, <3>2, SetStatusFollows DEF Statuses
    <3> QED
      BY <3>1, <3>2, <3>3 DEF Outcome
  <2> QED
    BY <2>1, <2>2 DEF InCallback
<1>2. \E t : job' = [job EXCEPT ![c] = [timer |-> t, inFlight |-> FALSE]]
  BY DEF InCallback, Armed, Forget, NoJob
<1>3. PICK t : job' = [job EXCEPT ![c] = [timer |-> t, inFlight |-> FALSE]]
  BY <1>2
<1> QED
  BY <1>1, <1>3 DEF Types
-----------------------------------------------------------------------------
(* The writes of a send's bookkeeping *)

LEMMA TransferFollows ==
  ASSUME NEW k \in Store, NEW c \in Ids, Exists(k, c), NEW s \in Seeds, NEW t \in Transfer
  PROVE  Follows(k, [k EXCEPT ![c].tr[s] = t], c, {s}, {t.st})
<1> DEFINE q == [k[c].tr EXCEPT ![s] = t]
           r == [k[c] EXCEPT !.tr = q]
<1>1. k[c] \in CampaignRec
  BY StoreFields
<1>2. k[c].tr \in [Seeds -> Transfer]
  BY <1>1 DEF CampaignRec
<1>3. q \in [Seeds -> Transfer] /\ q[s] = t /\ \A u \in Seeds \ {s} : q[u] = k[c].tr[u]
  BY <1>2
<1> HIDE DEF q
<1>4. r \in CampaignRec /\ r.tr = q
  BY <1>1, <1>3, RecordParts DEF CampaignRec
<1>5. [k EXCEPT ![c].tr[s] = t] = Put(k, c, r)
  BY DEF Put, q
<1> HIDE DEF r
<1> DEFINE k2 == Put(k, c, r)
<1>6. k2 \in Store /\ Exists(k2, c) /\ k2[c] = r /\ \A d \in Ids \ {c} : k2[d] = k[d]
  BY <1>4, PutIsStore
<1> HIDE DEF k2
<1>7. Follows(k, k2, c, {s}, {t.st})
  BY <1>3, <1>4, <1>6 DEF Follows
<1> QED
  BY <1>5, <1>7 DEF k2

LEMMA FailsFollows ==
  ASSUME NEW k, NEW k2, NEW c \in Ids, NEW X \in SUBSET Seeds, NEW T,
         Follows(k, k2, c, X, T), NEW n \in Nat
  PROVE  Follows(k, [k2 EXCEPT ![c].fails = n], c, X, T)
<1> DEFINE r == [k2[c] EXCEPT !.fails = n]
<1>1. k2 \in Store /\ Exists(k2, c) /\ k2[c] \in CampaignRec
  BY StoreFields DEF Follows
<1>2. r \in CampaignRec /\ r.tr = k2[c].tr
  BY <1>1, RecordParts DEF CampaignRec
<1>3. [k2 EXCEPT ![c].fails = n] = Put(k2, c, r)
  BY DEF Put
<1> HIDE DEF r
<1> DEFINE k3 == Put(k2, c, r)
<1>4. k3 \in Store /\ Exists(k3, c) /\ k3[c] = r /\ \A d \in Ids \ {c} : k3[d] = k2[d]
  BY <1>1, <1>2, PutIsStore
<1> HIDE DEF k3
<1>5. Follows(k, k3, c, X, T)
  BY <1>2, <1>4 DEF Follows
<1> QED
  BY <1>3, <1>5 DEF k3

\* A book of writes that says what became of one transfer.
Books(k, ks, c, s, T) == AllFollow(k, ks, c, {s}, T) /\ ks # <<>>

LEMMA SentBooks ==
  ASSUME NEW k \in Store, NEW c \in Ids, Exists(k, c), NEW s \in Pending(k[c])
  PROVE  Books(k, SentWrites(k, c, s), c, s, {"sent"})
<1> DEFINE t == [st |-> "sent", att |-> k[c].tr[s].att, due |-> 0]
           k1 == [k EXCEPT ![c].tr[s] = t]
           k2 == [k1 EXCEPT ![c].fails = 0]
<1>0. s \in Seeds
  BY DEF Pending
<1>1. k[c].tr[s] \in Transfer
  BY <1>0, StoreFields
<1>2. t \in Transfer /\ t.st = "sent"
  <2>1. k[c].tr[s].att \in 0..MaxAttempts
    BY <1>1 DEF Transfer
  <2> QED
    BY <2>1, BoundAssumption DEF Transfer
<1>3. SentWrites(k, c, s) = <<k1, k2>>
  BY DEF SentWrites
<1> HIDE DEF t
<1>4. Follows(k, k1, c, {s}, {"sent"})
  BY <1>0, <1>2, TransferFollows
<1> HIDE DEF k1
<1>5. Follows(k, k2, c, {s}, {"sent"})
  BY <1>0, <1>4, FailsFollows
<1> HIDE DEF k2
<1>6. k1 \in Store /\ k2 \in Store
  BY <1>4, <1>5 DEF Follows
<1> QED
  BY <1>4, <1>3, <1>5, <1>6 DEF AllFollow, Books

LEMMA FailedBooks ==
  ASSUME NEW k \in Store, NEW c \in Ids, Exists(k, c), NEW s \in Pending(k[c]),
         NEW slot \in 1..Horizon
  PROVE  Books(k, FailedWrites(k, c, s, slot), c, s, {"pending", "abandoned"})
<1> DEFINE att == k[c].tr[s].att + 1
           given == att >= MaxAttempts
           t == [st |-> IF given THEN "abandoned" ELSE "pending", att |-> att,
                 due |-> IF given THEN 0 ELSE slot]
           T == {"pending", "abandoned"}
           k1 == [k EXCEPT ![c].tr[s] = t]
           k2 == [k1 EXCEPT ![c].fails = @ + 1]
           rest == IF k2[c].fails >= HaltAfter THEN <<SetStatus(k2, c, "halted")>> ELSE <<>>
<1>0. s \in Seeds /\ k[c].tr[s].st = "pending"
  BY DEF Pending
<1>1. k[c].tr[s] \in Transfer
  BY <1>0, StoreFields
<1>2. k[c].tr[s].att \in Nat /\ k[c].tr[s].att < MaxAttempts
  BY <1>0, <1>1, BoundAssumption DEF Transfer
<1>3. att \in 0..MaxAttempts /\ (~given => att < MaxAttempts)
  BY <1>2, BoundAssumption
<1>4. t \in Transfer /\ t.st \in T
  BY <1>3, BoundAssumption DEF Transfer
<1>5. FailedWrites(k, c, s, slot) = <<k1, k2>> \o rest
  BY DEF FailedWrites
<1> HIDE DEF t
<1>6. Follows(k, k1, c, {s}, T)
  BY <1>0, <1>4, TransferFollows DEF Follows
<1> HIDE DEF k1, T
<1>7. k1[c].fails + 1 \in Nat
  <2>1. k1[c] \in CampaignRec
    BY <1>6, StoreFields DEF Follows
  <2> QED
    BY <2>1 DEF CampaignRec
<1>8. Follows(k, k2, c, {s}, T)
  <2>1. k2 = [k1 EXCEPT ![c].fails = k1[c].fails + 1]
    BY <1>6 DEF Follows, Store
  <2> QED
    BY <1>0, <1>6, <1>7, <2>1, FailsFollows
<1> HIDE DEF k2
<1>9. AllFollow(k, <<k1, k2>>, c, {s}, T)
  BY <1>6, <1>8 DEF AllFollow, Follows
<1>10. AllFollow(k, rest, c, {s}, T)
  <2>1. Follows(k, SetStatus(k2, c, "halted"), c, {s}, T)
    BY <1>0, <1>8, SetStatusFollows DEF Statuses
  <2>2. SetStatus(k2, c, "halted") \in Store
    BY <2>1 DEF Follows
  <2> QED
    BY <2>1, <2>2 DEF AllFollow
<1>11. AllFollow(k, <<k1, k2>> \o rest, c, {s}, T)
  BY <1>9, <1>10, BothFollow
<1> HIDE DEF rest
<1>12. <<k1, k2>> \o rest # <<>>
  <2>1. rest \in Seq(Store) /\ <<k1, k2>> \in Seq(Store) /\ Len(<<k1, k2>>) = 2
    BY <1>9, <1>10 DEF AllFollow
  <2>2. Len(<<k1, k2>> \o rest) = 2 + Len(rest) /\ Len(rest) \in Nat
    BY <2>1, ConcatProperties, LenProperties
  <2> QED
    BY <2>2
<1> QED
  BY <1>5, <1>11, <1>12 DEF Books, T
-----------------------------------------------------------------------------
(* What an outcome keeps *)

\* A stretch of code about a campaign that was there, and that says only of what
\* it planned what became of it.
LEMMA OutcomeKeeps ==
  ASSUME IInv, NEW c \in Ids, Exists(cache, c), NEW X \in SUBSET Pending(cache[c]),
         NEW T \in SUBSET St, "none" \notin T, Outcome(c, X, T)
  PROVE  /\ cache' \in Store /\ file' \in Store
         /\ ClaimedOnce(cache)' /\ ClaimedOnce(file)'
         /\ \A d \in Ids : Exists(cache, d)' = Exists(cache, d)
         /\ \A d \in Ids \ {c} : cache'[d] = cache[d]
         /\ \A s \in Seeds \ X : cache'[c].tr[s].st = cache[c].tr[s].st
         /\ \A s \in X : cache'[c].tr[s].st \in T
         /\ \A s \in Seeds : Sent(cache, s) => Sent(cache, s)'
<1>1. cache \in Store /\ file \in Store /\ ClaimedOnce(cache) /\ ClaimedOnce(file)
  BY DEF IInv, Types
<1>2. ASSUME NEW k2, Follows(cache, k2, c, X, T)
      PROVE  k2 \in Store /\ ClaimedOnce(k2)
  <2>1. \A d \in Ids, s \in Seeds :
          Exists(k2, d) /\ s \in Planned(k2[d]) => Exists(cache, d) /\ s \in Planned(cache[d])
    <3>1. \A d \in Ids \ {c} : k2[d] = cache[d]
      BY <1>2 DEF Follows
    <3>2. \A s \in Seeds : s \in Planned(k2[c]) => s \in Planned(cache[c])
      BY <1>2 DEF Follows, Planned, Pending
    <3> QED
      BY <3>1, <3>2 DEF Exists
  <2> QED
    BY <1>1, <1>2, <2>1 DEF ClaimedOnce, Follows
<1>3. cache' \in Store /\ file' \in Store /\ ClaimedOnce(cache)' /\ ClaimedOnce(file)'
  <2>1. cache' \in Store /\ ClaimedOnce(cache')
    BY <1>2 DEF Outcome
  <2>2. file' \in Store /\ ClaimedOnce(file')
    BY <1>1, <1>2 DEF Outcome
  <2> QED
    BY <2>1, <2>2 DEF ClaimedOnce, Exists, Planned
<1>4. Follows(cache, cache', c, X, T)
  BY DEF Outcome
<1>5. \A s \in Seeds : Sent(cache, s) => Sent(cache, s)'
  <2>1. \A s \in Seeds : cache[c].tr[s].st = "sent" => s \notin X
    BY DEF Pending
  <2> QED
    BY <1>4, <2>1 DEF Follows, Sent, Exists
<1> QED
  BY <1>3, <1>4, <1>5 DEF Follows, Exists

\* A request, or one campaign of the boot, that touches no transfer's status.
LEMMA NoNewsKeeps ==
  ASSUME IInv, up, NEW c \in Ids, Exists(cache, c), Outcome(c, {}, {}),
         job' = [d \in Ids |-> [timer |-> job'[d].timer, inFlight |-> job'[d].inFlight]],
         \A d \in Ids : job'[d].inFlight = job[d].inFlight,
         boot'.left \subseteq boot.left \ {c}, UNCHANGED <<flight, post, up, edges>>
  PROVE  IInv'
<1>1. /\ cache' \in Store /\ file' \in Store
      /\ ClaimedOnce(cache)' /\ ClaimedOnce(file)'
      /\ \A d \in Ids : Exists(cache, d)' = Exists(cache, d)
      /\ \A d \in Ids \ {c} : cache'[d] = cache[d]
      /\ \A s \in Seeds : cache'[c].tr[s].st = cache[c].tr[s].st
      /\ \A s \in Seeds : Sent(cache, s) => Sent(cache, s)'
  <2> DEFINE N == {}
  <2>1. N \in SUBSET Pending(cache[c]) /\ N \in SUBSET St /\ "none" \notin N /\ Outcome(c, N, N)
    OBVIOUS
  <2>2. \A s \in Seeds : s \in Seeds \ N
    OBVIOUS
  <2> HIDE DEF N
  <2> QED
    BY <2>1, <2>2, OutcomeKeeps
<1>2. \A d \in Ids, s \in Seeds : cache'[d].tr[s].st = cache[d].tr[s].st
  BY <1>1
<1>3. Types'
  BY <1>1 DEF IInv, Types
<1>4. OneSendOut'
  BY <1>1, <1>2 DEF IInv, OneSendOut
<1>5. \A d \in Ids : post'[d] # NoPost => ~Exists(cache, d)'
  BY <1>1 DEF IInv
<1>6. boot'.left \subseteq Running(cache)'
  BY <1>1 DEF IInv, Running, Exists
<1>7. \A s \in Seeds : edges'[s] = 0 \/ (edges'[s] = 1 /\ Sent(Record, s)')
  BY <1>1 DEF IInv, Record, Sent, Exists
<1> QED
  BY <1>1, <1>3, <1>4, <1>5, <1>6, <1>7 DEF IInv

LEMMA RequestKeeps ==
  ASSUME IInv, Idle, NEW c \in Ids, Exists(cache, c), NEW ks,
         AllFollow(cache, ks, c, {}, {}), InRequest(c, ks),
         UNCHANGED <<flight, post, up, boot, edges>>
  PROVE  IInv'
<1>1. Types /\ up /\ boot.left = {}
  BY DEF IInv, Idle
<1>2. Follows(cache, cache, c, {}, {})
  BY <1>1, SelfFollows DEF Types
<1>3. /\ Outcome(c, {}, {})
      /\ job' = [d \in Ids |-> [timer |-> job'[d].timer, inFlight |-> job'[d].inFlight]]
      /\ \A d \in Ids : job'[d].inFlight = job[d].inFlight
  BY <1>1, <1>2, RequestOutcome
<1> QED
  BY <1>1, <1>3, NoNewsKeeps

\* What a send's answer writes about its transfer.
LEMMA CallbackKeeps ==
  ASSUME IInv, Idle, NEW c \in Ids, NEW s \in Seeds, flight[c] = <<s>>,
         Exists(cache, c), s \in Pending(cache[c]),
         NEW T \in SUBSET St, "none" \notin T, NEW ks,
         AllFollow(cache, ks, c, {s}, T), ks # <<>>, InCallback(c, ks),
         flight' = [flight EXCEPT ![c] = <<>>], UNCHANGED <<post, up, boot>>,
         \/ edges' = edges
         \/ T = {"sent"} /\ edges' = [edges EXCEPT ![s] = @ + 1]
  PROVE  IInv'
<1>1. Types /\ up /\ boot.left = {}
  BY DEF IInv, Idle
<1>2. /\ Outcome(c, {s}, T)
      /\ job' = [d \in Ids |-> [timer |-> job'[d].timer, inFlight |-> job'[d].inFlight]]
      /\ \A d \in Ids \ {c} : job'[d].inFlight = job[d].inFlight
  BY <1>1, CallbackOutcome
<1>3. /\ cache' \in Store /\ file' \in Store
      /\ ClaimedOnce(cache)' /\ ClaimedOnce(file)'
      /\ \A d \in Ids : Exists(cache, d)' = Exists(cache, d)
      /\ \A d \in Ids \ {c} : cache'[d] = cache[d]
      /\ \A u \in {s} : cache'[c].tr[u].st \in T
      /\ \A u \in Seeds : Sent(cache, u) => Sent(cache, u)'
  BY <1>2, OutcomeKeeps
<1>4. Types'
  <2>1. flight' = [d \in Ids |-> flight'[d]]
    BY <1>1 DEF Types
  <2>2. edges' \in [Seeds -> Nat]
    BY <1>1 DEF Types
  <2> QED
    BY <1>1, <1>2, <1>3, <2>1, <2>2 DEF Types
<1>5. OneSendOut'
  <2>1. ASSUME NEW d \in Ids, d # c, flight'[d] # <<>>
        PROVE  \E u \in Seeds : /\ flight'[d] = <<u>> /\ job'[d].inFlight
                                /\ Exists(cache, d)' /\ cache'[d].tr[u].st = "pending"
    <3>1. flight'[d] = flight[d]
      BY <1>1, <2>1 DEF Types
    <3> QED
      BY <1>2, <1>3, <2>1, <3>1 DEF IInv, OneSendOut
  <2>2. flight'[c] = <<>>
    BY <1>1 DEF Types
  <2> QED
    BY <2>1, <2>2 DEF OneSendOut
<1>6. \A u \in Seeds : edges'[u] = 0 \/ (edges'[u] = 1 /\ Sent(cache, u)')
  <2>1. \A u \in Seeds : edges[u] = 0 \/ (edges[u] = 1 /\ Sent(cache, u))
    BY <1>1 DEF IInv, Record
  <2>2. CASE edges' = edges
    BY <1>3, <2>1, <2>2
  <2>3. CASE T = {"sent"} /\ edges' = [edges EXCEPT ![s] = @ + 1]
    <3>1. ~Sent(cache, s)
      <4>1. s \in Planned(cache[c])
        BY DEF Pending, Planned
      <4>2. \A d \in Ids : Exists(cache, d) /\ cache[d].tr[s].st = "sent" => d = c
        BY <4>1 DEF IInv, ClaimedOnce, Planned
      <4> QED
        BY <4>2 DEF Sent, Pending
    <3>2. edges'[s] = 1 /\ \A u \in Seeds \ {s} : edges'[u] = edges[u]
      BY <1>1, <2>1, <2>3, <3>1 DEF Types
    <3>3. Sent(cache, s)'
      BY <1>3, <2>3 DEF Sent
    <3> QED
      BY <1>3, <2>1, <3>2, <3>3
  <2> QED
    BY <2>2, <2>3
<1>8. \A u \in Seeds : edges'[u] = 0 \/ (edges'[u] = 1 /\ Sent(Record, u)')
  BY <1>1, <1>6 DEF Record, Sent, Exists
<1>9. \A d \in Ids : post'[d] # NoPost => ~Exists(cache, d)'
  BY <1>3 DEF IInv
<1> QED
  BY <1>1, <1>3, <1>4, <1>5, <1>8, <1>9 DEF IInv
-----------------------------------------------------------------------------
(* What arm() leaves *)

\* The earliest of some times is one of them.
LEMMA MinIsOne ==
  ASSUME NEW D \in SUBSET Nat, D # {}
  PROVE  Min(D) \in D
<1>1. PICK k \in D : \A m \in D : <<m, k>> \notin OpToRel(<, Nat)
  BY NatLessThanWellFounded, WFMin, Zenon
<1>2. \A m \in D : ~ (m < k)
  BY <1>1, Zenon DEF OpToRel
<1>3. \A m \in D : k <= m
  BY <1>2
<1>4. (CHOOSE x \in D : \A y \in D : x <= y) \in D
  BY <1>3
<1> QED
  BY <1>4 DEF Min

\* A running campaign owes something, and nothing it owes is overdue.
Ready(r) == r.status = "running" => Pending(r) # {} /\ Overdue(r) = {}

LEMMA ArmedTimer ==
  ASSUME NEW r \in CampaignRec, Ready(r), NEW j \in Job
  PROVE  /\ Armed(j, r) \in Job /\ Armed(j, r).inFlight = j.inFlight
         /\ Armed(j, r).timer # 0
         /\ r.status = "running" => Armed(j, r).timer # NoTimer
<1> DEFINE D == {r.tr[s].due : s \in Pending(r)}
<1>1. \A s \in Seeds : r.tr[s].due \in 0..Horizon
  BY DEF CampaignRec, Transfer
<1>2. CASE r.status = "running"
  <2>1. D \subseteq 1..Horizon /\ D # {}
    <3>1. \A s \in Pending(r) : r.tr[s].due \in 0..Horizon /\ r.tr[s].due # 0
      BY <1>1, <1>2 DEF Ready, Pending, Overdue
    <3>2. Pending(r) # {}
      BY <1>2 DEF Ready
    <3> QED
      BY <3>1, <3>2, BoundAssumption
  <2>2. D \in SUBSET Nat
    BY <2>1, BoundAssumption
  <2>3. Armed(j, r) = [j EXCEPT !.timer = Min(D)]
    BY <1>2 DEF Armed
  <2> HIDE DEF D
  <2>4. Min(D) \in 1..Horizon
    BY <2>1, <2>2, MinIsOne
  <2>5. Min(D) \in Int /\ Min(D) # 0 /\ Min(D) \in 0..Horizon
    BY <2>4, BoundAssumption
  <2> QED
    BY <2>3, <2>5, FileAssumption DEF Job
<1>3. CASE r.status # "running"
  <2>1. Armed(j, r) = [j EXCEPT !.timer = NoTimer]
    BY <1>3 DEF Armed, Forget
  <2> QED
    BY <1>3, <2>1, FileAssumption DEF Job
<1> QED
  BY <1>2, <1>3

\* What the last of some writes leaves, if there was one.
Last2(k, ks) == IF ks = <<>> THEN k ELSE ks[Len(ks)]

LEMMA LastOfTwo ==
  ASSUME NEW s1 \in Seq(Store), NEW s2 \in Seq(Store), s1 # <<>>, NEW k
  PROVE  Last2(k, s1 \o s2) = Last2(s1[Len(s1)], s2)
<1> DEFINE S == Store
<1>0. s1 \in Seq(S) /\ s2 \in Seq(S)
  OBVIOUS
<1> HIDE DEF S
<1>1. s1 \o s2 \in Seq(S) /\ Len(s1 \o s2) = Len(s1) + Len(s2)
  BY <1>0, ConcatProperties
<1>2. \A i \in 1..(Len(s1) + Len(s2)) :
        (s1 \o s2)[i] = IF i <= Len(s1) THEN s1[i] ELSE s2[i - Len(s1)]
  BY <1>0, ConcatProperties
<1>3. Len(s1) \in Nat /\ Len(s2) \in Nat /\ Len(s1) # 0
  BY <1>0, LenProperties, EmptySeq
<1>4. s1 \o s2 # <<>>
  BY <1>1, <1>3
<1>5. CASE s2 = <<>>
  <2>1. Len(s2) = 0
    BY <1>5
  <2> QED
    BY <1>1, <1>2, <1>3, <1>4, <1>5, <2>1 DEF Last2
<1>6. CASE s2 # <<>>
  <2>1. Len(s2) # 0
    BY <1>0, <1>6, LenProperties, EmptySeq
  <2>2. Len(s1) + Len(s2) \in 1..(Len(s1) + Len(s2)) /\ ~(Len(s1) + Len(s2) <= Len(s1))
        /\ (Len(s1) + Len(s2)) - Len(s1) = Len(s2)
    BY <1>3, <2>1
  <2> QED
    BY <1>1, <1>2, <1>4, <1>6, <2>2 DEF Last2
<1> QED
  BY <1>5, <1>6

\* The last write of arm(): the backlog is off every instant that is past.
LEMMA ArmLast ==
  ASSUME NEW k \in Store, NEW c \in Ids, Exists(k, c), NEW g \in Spreads(k[c]),
         NEW k2, k2 = Last2(k, ArmWrites(k, c, g))
  PROVE  /\ k2 \in Store /\ Exists(k2, c)
         /\ k2[c].master = k[c].master /\ Ready(k2[c])
         /\ k2[c].status = "running" => k[c].status = "running"
<1> DEFINE r == k[c]
           n == Cardinality(Overdue(r))
<1>0. r \in CampaignRec /\ \A s \in Seeds : r.tr[s].due \in 0..Horizon
  BY StoreFields
<1>1. CASE Pending(r) = {}
  <2> DEFINE r2 == [r EXCEPT !.status = "complete"]
  <2>1. ArmWrites(k, c, g) = <<SetStatus(k, c, "complete")>>
    BY <1>1 DEF ArmWrites
  <2>2. k2 = SetStatus(k, c, "complete")
    BY <2>1 DEF Last2
  <2>3. k2 = Put(k, c, r2)
    BY <2>2 DEF SetStatus, Put
  <2>4. r2 \in CampaignRec /\ r2.status = "complete" /\ r2.master = r.master
    BY <1>0, RecordParts DEF CampaignRec, Statuses
  <2> HIDE DEF r2
  <2>5. k2 \in Store /\ Exists(k2, c) /\ k2[c] = r2
    BY <2>3, <2>4, PutIsStore
  <2> QED
    BY <2>4, <2>5 DEF Ready
<1>2. CASE Pending(r) # {} /\ n = 0
  <2>1. Overdue(r) = {}
    <3>1. IsFiniteSet(Overdue(r))
      BY BoundAssumption, FS_Subset DEF Overdue, Pending
    <3> QED
      BY <1>2, <3>1, FS_EmptySet
  <2>2. ArmWrites(k, c, g) = <<>>
    BY <1>2 DEF ArmWrites, ReslotWrites
  <2>3. k2 = k
    BY <2>2 DEF Last2
  <2> QED
    BY <1>2, <2>1, <2>3 DEF Ready
<1>3. CASE Pending(r) # {} /\ n # 0
  <2> DEFINE w(i) == Put(k, c, Moved(r, g, i))
             m(s) == s \in Overdue(r) /\ Cardinality({u \in Overdue(r) : g[u] <= g[s]}) <= n
             t == [s \in Seeds |-> IF m(s) THEN [r.tr[s] EXCEPT !.due = g[s]] ELSE r.tr[s]]
             r2 == Moved(r, g, n)
  <2>1. n \in Nat
    BY OverdueFinite
  <2>2. ArmWrites(k, c, g) = [i \in 1..n |-> w(i)]
    BY <1>3 DEF ArmWrites, ReslotWrites
  <2>3. k2 = w(n)
    <3> HIDE DEF w, n
    <3>1. Len([i \in 1..n |-> w(i)]) = n /\ n \in 1..n
      BY <1>3, <2>1
    <3>2. [i \in 1..n |-> w(i)] # <<>>
      BY <1>3, <2>1
    <3> QED
      BY <2>2, <3>1, <3>2 DEF Last2
  <2>4. \A s \in Overdue(r) : m(s)
    <3>1. IsFiniteSet(Overdue(r))
      BY BoundAssumption, FS_Subset DEF Overdue, Pending
    <3>2. ASSUME NEW s \in Overdue(r)
          PROVE  Cardinality({u \in Overdue(r) : g[u] <= g[s]}) <= Cardinality(Overdue(r))
      BY <3>1, FS_Subset
    <3> QED
      BY <3>2
  <2>5. \A s \in Overdue(r) : g[s] \in 1..Horizon
    BY DEF Spreads, FreeSlots
  <2>6. \A s \in Seeds : r.tr[s] \in Transfer
    BY <1>0 DEF CampaignRec
  <2>7. \A s \in Seeds, d \in 0..Horizon :
          /\ [r.tr[s] EXCEPT !.due = d] \in Transfer
          /\ [r.tr[s] EXCEPT !.due = d].st = r.tr[s].st
          /\ [r.tr[s] EXCEPT !.due = d].due = d
    BY <2>6 DEF Transfer
  <2>8. \A s \in Seeds : m(s) => s \in Overdue(r)
    OBVIOUS
  <2>9. r2 = [r EXCEPT !.tr = t]
    BY DEF Moved
  <2> HIDE DEF m, n
  <2>10. \A s \in Overdue(r) : g[s] \in 0..Horizon /\ g[s] # 0
    BY <2>5, BoundAssumption
  <2>11. /\ t \in [Seeds -> Transfer]
         /\ \A s \in Seeds : t[s].st = r.tr[s].st
         /\ \A s \in Overdue(r) : t[s].due # 0
         /\ \A s \in Seeds \ Overdue(r) : t[s] = r.tr[s]
    <3>1. \A s \in Overdue(r) : s \in Seeds
      BY DEF Overdue, Pending
    <3> QED
      BY <2>4, <2>6, <2>7, <2>8, <2>10, <3>1
  <2> HIDE DEF t
  <2>12. /\ r2 \in CampaignRec /\ r2.tr = t /\ r2.status = r.status /\ r2.master = r.master
    BY <1>0, <2>9, <2>11, RecordParts DEF CampaignRec
  <2> HIDE DEF r2
  <2>13. k2 = Put(k, c, r2)
    BY <2>3 DEF r2
  <2>14. k2 \in Store /\ Exists(k2, c) /\ k2[c] = r2
    BY <2>12, <2>13, PutIsStore
  <2>15. Pending(r2) = Pending(r) /\ Overdue(r2) = {}
    BY <2>11, <2>12 DEF Pending, Overdue
  <2> QED
    BY <1>3, <2>12, <2>14, <2>15 DEF Ready
<1> QED
  BY <1>1, <1>2, <1>3

\* The last write of a send's bookkeeping: the wallet is the campaign's, and a
\* campaign that was stopped meanwhile stays stopped.
Steered(k, k2, c) ==
  /\ k2 \in Store /\ Exists(k2, c) /\ k2[c].master = k[c].master
  /\ k2[c].status = "running" => k[c].status = "running"

LEMMA StoppedIsSteered ==
  ASSUME NEW k, NEW k2 \in Store, NEW c \in Ids, Steered(k, k2, c),
         NEW st \in Statuses, st # "running"
  PROVE  /\ Steered(k, SetStatus(k2, c, st), c)
         /\ SetStatus(k2, c, st)[c].status = st
<1> DEFINE r == [k2[c] EXCEPT !.status = st]
<1>1. Exists(k2, c) /\ k2[c] \in CampaignRec
  BY StoreFields DEF Steered
<1>2. SetStatus(k2, c, st) = Put(k2, c, r)
  BY DEF SetStatus, Put
<1>3. r \in CampaignRec /\ r.master = k2[c].master /\ r.status = st
  BY <1>1, RecordParts DEF CampaignRec
<1> HIDE DEF r
<1>4. Put(k2, c, r) \in Store /\ Exists(Put(k2, c, r), c) /\ Put(k2, c, r)[c] = r
  BY <1>3, PutIsStore
<1> QED
  BY <1>2, <1>3, <1>4 DEF Steered

LEMMA FailsIsSteered ==
  ASSUME NEW k, NEW k2 \in Store, NEW c \in Ids, Steered(k, k2, c), NEW n \in Nat
  PROVE  Steered(k, [k2 EXCEPT ![c].fails = n], c)
<1> DEFINE r == [k2[c] EXCEPT !.fails = n]
<1>1. Exists(k2, c) /\ k2[c] \in CampaignRec
  BY StoreFields DEF Steered
<1>2. [k2 EXCEPT ![c].fails = n] = Put(k2, c, r)
  BY DEF Put
<1>3. r \in CampaignRec /\ r.master = k2[c].master /\ r.status = k2[c].status
  BY <1>1, RecordParts DEF CampaignRec
<1> HIDE DEF r
<1>4. Put(k2, c, r) \in Store /\ Exists(Put(k2, c, r), c) /\ Put(k2, c, r)[c] = r
  BY <1>3, PutIsStore
<1> QED
  BY <1>2, <1>3, <1>4 DEF Steered

LEMMA TransferIsSteered ==
  ASSUME NEW k \in Store, NEW c \in Ids, Exists(k, c), NEW s \in Seeds, NEW t \in Transfer
  PROVE  Steered(k, [k EXCEPT ![c].tr[s] = t], c)
<1> DEFINE q == [k[c].tr EXCEPT ![s] = t]
           r == [k[c] EXCEPT !.tr = q]
<1>1. k[c] \in CampaignRec
  BY StoreFields
<1>2. q \in [Seeds -> Transfer]
  BY <1>1 DEF CampaignRec
<1> HIDE DEF q
<1>3. r \in CampaignRec /\ r.master = k[c].master /\ r.status = k[c].status
  BY <1>1, <1>2, RecordParts DEF CampaignRec
<1>4. [k EXCEPT ![c].tr[s] = t] = Put(k, c, r)
  BY DEF Put, q
<1> HIDE DEF r
<1>5. Put(k, c, r) \in Store /\ Exists(Put(k, c, r), c) /\ Put(k, c, r)[c] = r
  BY <1>3, PutIsStore
<1> QED
  BY <1>3, <1>4, <1>5 DEF Steered

LEMMA SentLast ==
  ASSUME NEW k \in Store, NEW c \in Ids, Exists(k, c), NEW s \in Pending(k[c]),
         NEW book, book = SentWrites(k, c, s)
  PROVE  Steered(k, book[Len(book)], c)
<1> DEFINE t == [st |-> "sent", att |-> k[c].tr[s].att, due |-> 0]
           k1 == [k EXCEPT ![c].tr[s] = t]
           k2 == [k1 EXCEPT ![c].fails = 0]
<1>1. s \in Seeds /\ k[c].tr[s].att \in 0..MaxAttempts
  BY StoreFields DEF Pending
<1>2. t \in Transfer
  BY <1>1, BoundAssumption DEF Transfer
<1>3. book = <<k1, k2>>
  BY DEF SentWrites
<1> HIDE DEF t
<1>4. Steered(k, k1, c)
  BY <1>1, <1>2, TransferIsSteered
<1> HIDE DEF k1
<1>5. Steered(k, k2, c)
  <2>1. k1 \in Store /\ 0 \in Nat
    BY <1>4 DEF Steered
  <2> QED
    BY <1>4, <2>1, FailsIsSteered
<1> HIDE DEF k2
<1> QED
  BY <1>3, <1>5

LEMMA FailedLast ==
  ASSUME NEW k \in Store, NEW c \in Ids, Exists(k, c), NEW s \in Pending(k[c]),
         NEW slot \in 1..Horizon, NEW book, book = FailedWrites(k, c, s, slot)
  PROVE  Steered(k, book[Len(book)], c)
<1> DEFINE att == k[c].tr[s].att + 1
           given == att >= MaxAttempts
           t == [st |-> IF given THEN "abandoned" ELSE "pending", att |-> att,
                 due |-> IF given THEN 0 ELSE slot]
           k1 == [k EXCEPT ![c].tr[s] = t]
           k2 == [k1 EXCEPT ![c].fails = @ + 1]
           k3 == SetStatus(k2, c, "halted")
           rest == IF k2[c].fails >= HaltAfter THEN <<k3>> ELSE <<>>
<1>0. s \in Seeds /\ k[c].tr[s] \in Transfer /\ k[c].tr[s].st = "pending"
  BY StoreFields DEF Pending
<1>1. att \in 0..MaxAttempts /\ (~given => att < MaxAttempts)
  BY <1>0, BoundAssumption DEF Transfer
<1>2. t \in Transfer
  BY <1>1, BoundAssumption DEF Transfer
<1>3. book = <<k1, k2>> \o rest
  BY DEF FailedWrites
<1> HIDE DEF t
<1>4. Steered(k, k1, c)
  BY <1>0, <1>2, TransferIsSteered
<1> HIDE DEF k1
<1>5. Steered(k, k2, c)
  <2>1. k1 \in Store /\ k1[c] \in CampaignRec
    BY <1>4, StoreFields DEF Steered
  <2>2. k1[c].fails + 1 \in Nat
    BY <2>1 DEF CampaignRec
  <2>3. k2 = [k1 EXCEPT ![c].fails = k1[c].fails + 1]
    BY <2>1 DEF Store
  <2> QED
    BY <1>4, <2>1, <2>2, <2>3, FailsIsSteered
<1> HIDE DEF k2
<1>6. Steered(k, k3, c)
  BY <1>5, StoppedIsSteered DEF Steered, Statuses
<1> HIDE DEF k3
<1>7. <<k1, k2>> \in Seq(Store) /\ rest \in Seq(Store)
  BY <1>4, <1>5, <1>6 DEF Steered
<1>8. Last2(k2, rest) \in {k2, k3}
  BY DEF Last2
<1>9. <<k1, k2>> # <<>> /\ <<k1, k2>>[Len(<<k1, k2>>)] = k2
  OBVIOUS
<1> DEFINE s1 == <<k1, k2>>
<1> HIDE DEF rest
<1>10. s1 \in Seq(Store) /\ s1 # <<>> /\ s1[Len(s1)] = k2 /\ book = s1 \o rest
  BY <1>3, <1>7, <1>9
<1> HIDE DEF s1
<1>11. Last2(k, book) = Last2(k2, rest) /\ book # <<>>
  BY <1>7, <1>10, LastOfTwo, ConcatEqualIffEmpty
<1> QED
  BY <1>5, <1>6, <1>8, <1>11 DEF Last2
-----------------------------------------------------------------------------
(* Wallets and timers *)

\* While no write has failed, the campaigns that run and that boot has behind it
\* have a wallet each, and boot has claimed those wallets.
ShareInv ==
  /\ faults \in Nat
  /\ faults = 0 =>
       /\ \A c, d \in Running(cache) \ boot.left :
            c # d => cache[c].master # cache[d].master
       /\ boot.left # {} => \A c \in Running(cache) \ boot.left :
                              cache[c].master \in boot.claimed

\* A campaign that runs has a timer, or a send out, or waits for boot, or failed to
\* be armed; and no campaign that sent at this instant has its timer at it.
ArmInv ==
  /\ job \in [Ids -> Job] /\ sentNow \subseteq Ids
  /\ \A c \in Ids : job[c].inFlight => flight[c] # <<>>
  /\ \A c \in Ids : post[c] # NoPost => post[c].seeds # {}
  /\ ~Idle => unarmed = {}
  /\ up => \A c \in Running(cache) :
       \/ job[c].timer # NoTimer \/ flight[c] # <<>>
       \/ c \in unarmed \/ c \in boot.left
  /\ \A c \in sentNow : job[c].timer # 0

FullInv == IInv /\ ShareInv /\ ArmInv

\* What a stretch of code about campaign c leaves of c: armed, stopped, or on the
\* list of those that failed; and with its wallet to itself, if no write failed.
Turn(c) ==
  /\ Exists(cache', c) /\ \A d \in Ids \ {c} : cache'[d] = cache[d]
  /\ job' \in [Ids -> Job] /\ \A d \in Ids \ {c} : job'[d] = job[d]
  /\ job'[c].timer # 0
  /\ cache'[c].status = "running" => job'[c].timer # NoTimer \/ c \in unarmed'
  /\ \A d \in Ids \ {c} : d \in unarmed => d \in unarmed'
  /\ faults' \in Nat
  /\ faults' = 0 =>
       /\ faults = 0
       /\ cache'[c].status = "running" =>
            \A d \in Running(cache) \ {c} : cache[d].master # cache'[c].master

LEMMA TurnKeeps ==
  ASSUME ShareInv, ArmInv, Idle, NEW c \in Ids, Turn(c),
         job'[c].inFlight => flight'[c] # <<>>,
         \A d \in Ids \ {c} : flight'[d] = flight[d],
         \A d \in Ids : post'[d] # NoPost => post'[d].seeds # {},
         UNCHANGED <<up, boot>>, sentNow' = sentNow
  PROVE  ShareInv' /\ ArmInv'
<1>1. up /\ boot.left = {} /\ up' /\ boot'.left = {}
  BY DEF Idle
<1>2. \A d \in Running(cache') : d # c => d \in Running(cache) /\ cache'[d] = cache[d]
  BY DEF Turn, Running, Exists
<1>3. Running(cache)' = Running(cache')
  BY DEF Running, Exists
<1>4. ShareInv'
  <2>1. ASSUME faults' = 0, NEW a \in Running(cache'), NEW b \in Running(cache'), a # b
        PROVE  cache'[a].master # cache'[b].master
    <3>1. faults = 0 /\ \A x, y \in Running(cache) : x # y => cache[x].master # cache[y].master
      BY <1>1, <2>1 DEF ShareInv, Turn
    <3>2. CASE a # c /\ b # c
      BY <1>2, <2>1, <3>1, <3>2
    <3>3. CASE a = c
      <4>1. cache'[c].status = "running" /\ b \in Running(cache) \ {c} /\ cache'[b] = cache[b]
        BY <1>2, <2>1, <3>3 DEF Running
      <4> QED
        BY <2>1, <3>3, <4>1 DEF Turn
    <3>4. CASE b = c
      <4>1. cache'[c].status = "running" /\ a \in Running(cache) \ {c} /\ cache'[a] = cache[a]
        BY <1>2, <2>1, <3>4 DEF Running
      <4> QED
        BY <2>1, <3>4, <4>1 DEF Turn
    <3> QED
      BY <3>2, <3>3, <3>4
  <2>2. faults' \in Nat
    BY DEF Turn
  <2> QED
    BY <1>1, <1>3, <2>1, <2>2 DEF ShareInv
<1>5. ArmInv'
  <2>1. job' \in [Ids -> Job] /\ job'[c].timer # 0 /\ \A d \in Ids \ {c} : job'[d] = job[d]
    BY DEF Turn
  <2>2. \A d \in Ids : job'[d].inFlight => flight'[d] # <<>>
    BY <2>1 DEF ArmInv
  <2>3. sentNow' \subseteq Ids /\ \A d \in sentNow' : job'[d].timer # 0
    BY <2>1 DEF ArmInv
  <2>4. \A d \in Running(cache') :
          job'[d].timer # NoTimer \/ flight'[d] # <<>> \/ d \in unarmed'
    <3>1. ASSUME NEW d \in Running(cache'), d # c
          PROVE  job'[d].timer # NoTimer \/ flight'[d] # <<>> \/ d \in unarmed'
      <4>1. d \in Running(cache) /\ d \in Ids
        BY <1>2, <3>1 DEF Running
      <4>2. job[d].timer # NoTimer \/ flight[d] # <<>> \/ d \in unarmed
        BY <1>1, <4>1 DEF ArmInv
      <4> QED
        BY <2>1, <3>1, <4>1, <4>2 DEF Turn
    <3>2. c \in Running(cache') => job'[c].timer # NoTimer \/ c \in unarmed'
      BY DEF Turn, Running
    <3> QED
      BY <3>1, <3>2
  <2>5. Idle'
    BY <1>1 DEF Idle
  <2> QED
    BY <1>1, <1>3, <2>1, <2>2, <2>3, <2>4, <2>5 DEF ArmInv
<1> QED
  BY <1>4, <1>5

\* What the last write of a stretch has to leave of campaign c.
Leaves(c, k2) ==
  /\ k2 \in Store /\ Exists(k2, c) /\ Ready(k2[c])
  /\ (faults = 0 /\ k2[c].status = "running") =>
       \A d \in Running(cache) \ {c} : cache[d].master # k2[c].master

\* A stretch that only steers leaves the campaign its wallet.
LEMMA SteeredKeepsItsWallet ==
  ASSUME ShareInv, Idle, NEW c \in Ids, Exists(cache, c), NEW k2, Steered(cache, k2, c), Ready(k2[c])
  PROVE  Leaves(c, k2)
<1>1. ASSUME faults = 0, k2[c].status = "running"
      PROVE  \A d \in Running(cache) \ {c} : cache[d].master # k2[c].master
  <2>1. c \in Running(cache) /\ k2[c].master = cache[c].master
    BY <1>1 DEF Steered, Running
  <2> QED
    BY <1>1, <2>1 DEF ShareInv, Idle
<1> QED
  BY <1>1 DEF Leaves, Steered

LEMMA RequestTurn ==
  ASSUME ShareInv, ArmInv, Idle, NEW c \in Ids, NEW ks, InRequest(c, ks),
         Leaves(c, After(ks)), Exists(cache', c), \A d \in Ids \ {c} : cache'[d] = cache[d]
  PROVE  Turn(c) /\ job'[c].inFlight = job[c].inFlight
<1> DEFINE k2 == After(ks)
<1>0. job \in [Ids -> Job] /\ job[c] \in Job /\ faults \in Nat
  BY DEF ArmInv, ShareInv
<1>1. CASE AllDown(ks) /\ job' = [job EXCEPT ![c] = Armed(@, After(ks)[c])] /\ unarmed' = unarmed \ {c}
  <2>1. k2 \in Store /\ Exists(k2, c) /\ Ready(k2[c])
    BY DEF Leaves
  <2>2. k2[c] \in CampaignRec
    BY <2>1, StoreFields
  <2>3. cache' = k2 /\ faults' = faults
    BY <1>1 DEF AllDown
  <2>4. job' = [job EXCEPT ![c] = Armed(job[c], k2[c])]
    BY <1>0, <1>1
  <2> HIDE DEF k2
  <2> DEFINE a == Armed(job[c], k2[c])
  <2>5. /\ a \in Job /\ a.inFlight = job[c].inFlight /\ a.timer # 0
        /\ k2[c].status = "running" => a.timer # NoTimer
    BY <1>0, <2>1, <2>2, ArmedTimer
  <2> HIDE DEF a
  <2>6. job' = [job EXCEPT ![c] = a]
    BY <2>4 DEF a
  <2>7. job' \in [Ids -> Job] /\ job'[c] = a /\ \A d \in Ids \ {c} : job'[d] = job[d]
    BY <1>0, <2>5, <2>6
  <2>8. (faults = 0 /\ k2[c].status = "running") =>
          \A d \in Running(cache) \ {c} : cache[d].master # k2[c].master
    BY DEF Leaves, k2
  <2> QED
    BY <1>0, <1>1, <2>3, <2>5, <2>7, <2>8 DEF Turn
<1>2. CASE /\ faults' = faults + 1 /\ job' = [job EXCEPT ![c] = Forget(@)]
           /\ unarmed' = unarmed \cup {c}
  <2> DEFINE a == Forget(job[c])
  <2>1. a \in Job /\ a.inFlight = job[c].inFlight /\ a.timer = NoTimer
    BY <1>0 DEF Forget, Job
  <2>2. job' = [job EXCEPT ![c] = a]
    BY <1>0, <1>2
  <2> HIDE DEF a
  <2>3. job' \in [Ids -> Job] /\ job'[c] = a /\ \A d \in Ids \ {c} : job'[d] = job[d]
    BY <1>0, <2>1, <2>2
  <2>4. NoTimer # 0 /\ faults' \in Nat /\ faults' # 0
    BY <1>0, <1>2, FileAssumption
  <2> QED
    BY <1>2, <2>1, <2>3, <2>4 DEF Turn
<1> QED
  BY <1>1, <1>2 DEF InRequest

LEMMA CallbackTurn ==
  ASSUME ShareInv, ArmInv, Idle, NEW c \in Ids, NEW ks, NEW X \in SUBSET Seeds, NEW T,
         AllFollow(cache, ks, c, X, T), InCallback(c, ks),
         Leaves(c, After(ks)), Exists(cache', c), \A d \in Ids \ {c} : cache'[d] = cache[d]
  PROVE  Turn(c) /\ ~job'[c].inFlight
<1> DEFINE k2 == After(ks)
<1>0. job \in [Ids -> Job] /\ NoJob \in Job /\ faults \in Nat
  BY DEF ArmInv, ShareInv, NoJob, Job
<1>1. CASE AllDown(ks) /\ job' = [job EXCEPT ![c] = Armed(NoJob, After(ks)[c])]
  <2>1. k2 \in Store /\ Exists(k2, c) /\ Ready(k2[c])
    BY DEF Leaves
  <2>2. k2[c] \in CampaignRec
    BY <2>1, StoreFields
  <2>3. cache' = k2 /\ faults' = faults
    BY <1>1 DEF AllDown
  <2> HIDE DEF k2
  <2> DEFINE a == Armed(NoJob, k2[c])
  <2>5. /\ a \in Job /\ a.inFlight = NoJob.inFlight /\ a.timer # 0
        /\ k2[c].status = "running" => a.timer # NoTimer
    BY <1>0, <2>1, <2>2, ArmedTimer
  <2> HIDE DEF a
  <2>6. job' = [job EXCEPT ![c] = a]
    BY <1>1 DEF a, k2
  <2>7. job' \in [Ids -> Job] /\ job'[c] = a /\ \A d \in Ids \ {c} : job'[d] = job[d]
    BY <1>0, <2>5, <2>6
  <2>8. (faults = 0 /\ k2[c].status = "running") =>
          \A d \in Running(cache) \ {c} : cache[d].master # k2[c].master
    BY DEF Leaves, k2
  <2>9. ~a.inFlight /\ unarmed' = unarmed \ {c}
    BY <2>5 DEF NoJob, InCallback
  <2> QED
    BY <1>0, <2>3, <2>5, <2>7, <2>8, <2>9 DEF Turn
<1>2. CASE \E i \in DOMAIN ks, again \in BOOLEAN :
             /\ cache' = SetStatus(ks[i], c, "halted")
             /\ faults' = faults + (IF again THEN 2 ELSE 1)
             /\ job' = [job EXCEPT ![c] = NoJob]
  <2>1. PICK i \in DOMAIN ks, again \in BOOLEAN :
             /\ cache' = SetStatus(ks[i], c, "halted")
             /\ faults' = faults + (IF again THEN 2 ELSE 1)
             /\ job' = [job EXCEPT ![c] = NoJob]
    BY <1>2
  <2>2. ks[i] \in Store /\ Exists(ks[i], c)
    BY BeforeFollows DEF Follows
  <2>3. cache'[c].status = "halted"
    <3>1. Steered(ks[i], ks[i], c)
      BY <2>2 DEF Steered
    <3> QED
      BY <2>1, <2>2, <3>1, StoppedIsSteered DEF Statuses
  <2>4. job' \in [Ids -> Job] /\ job'[c] = NoJob /\ \A d \in Ids \ {c} : job'[d] = job[d]
    BY <1>0, <2>1
  <2>5. NoJob.timer # 0 /\ ~NoJob.inFlight /\ unarmed' = unarmed \ {c}
    BY FileAssumption DEF NoJob, InCallback
  <2>6. faults' \in Nat /\ faults' # 0
    BY <1>0, <2>1
  <2> QED
    BY <2>3, <2>4, <2>5, <2>6 DEF Turn
<1>3. \/ AllDown(ks) /\ job' = [job EXCEPT ![c] = Armed(NoJob, After(ks)[c])]
      \/ \E i \in DOMAIN ks, again \in BOOLEAN :
             /\ cache' = SetStatus(ks[i], c, "halted")
             /\ faults' = faults + (IF again THEN 2 ELSE 1)
             /\ job' = [job EXCEPT ![c] = NoJob]
  BY DEF InCallback
<1> QED
  BY <1>1, <1>2, <1>3
-----------------------------------------------------------------------------
(* The steps *)

\* A new campaign plans only what nobody had claimed, and has sent nothing.
LEMMA StartKeeps ==
  ASSUME IInv, NEW c \in Ids, Start(c)
  PROVE  IInv'
<1>1. /\ Types /\ up /\ boot.left = {} /\ post[c] # NoPost /\ ~Exists(cache, c)
      /\ SeedsUnclaimed(cache, post[c].seeds)
      /\ post' = [post EXCEPT ![c] = NoPost] /\ UNCHANGED <<flight, up, boot, edges>>
  BY DEF Start, IInv, Idle, StartOk, ghosts
<1>2. PICK due \in [Seeds -> 0..Horizon] :
        InRequest(c, <<Put(cache, c, NewCampaign(post[c], due))>>)
  BY DEF Start
<1> DEFINE r == NewCampaign(post[c], due)
           k == Put(cache, c, r)
<1>3. post[c].master \in Masters /\ post[c].seeds \in SUBSET Seeds
  BY <1>1 DEF Types
<1>4. r \in CampaignRec
  <2>1. Cardinality({d \in Ids : Exists(cache, d)}) \in Nat
    BY BoundAssumption, FS_Subset, FS_CardinalityType
  <2>2. \A s \in Seeds :
          [st |-> IF s \in post[c].seeds THEN "pending" ELSE "none",
           att |-> 0, due |-> due[s]] \in Transfer
    BY <1>2, BoundAssumption DEF Transfer
  <2> QED
    BY <1>3, <2>1, <2>2 DEF NewCampaign, CampaignRec, Statuses
<1>5. \A s \in Seeds : r.tr[s].st = IF s \in post[c].seeds THEN "pending" ELSE "none"
  BY DEF NewCampaign
<1> HIDE DEF r
<1>6. k \in Store /\ Exists(k, c) /\ k[c] = r /\ \A d \in Ids \ {c} : k[d] = cache[d]
  BY <1>1, <1>4, PutIsStore DEF Types
<1>7. cache' = k /\ file' \in {file, k}
  BY <1>2 DEF InRequest, AllDown, After, FileBefore, r
<1>8. /\ job' = [d \in Ids |-> [timer |-> job'[d].timer, inFlight |-> job'[d].inFlight]]
      /\ \A d \in Ids : job'[d].inFlight = job[d].inFlight
  <2>1. \E t : job' = [job EXCEPT ![c] = [job[c] EXCEPT !.timer = t]]
    BY <1>2 DEF InRequest, Armed, Forget
  <2>2. PICK t : job' = [job EXCEPT ![c] = [job[c] EXCEPT !.timer = t]]
    BY <2>1
  <2> QED
    BY <1>1, <2>2 DEF Types
<1> HIDE DEF k
<1>9. ClaimedOnce(k)
  <2>1. \A s \in Planned(k[c]), d \in Ids : Exists(cache, d) => s \notin Planned(cache[d])
    BY <1>1, <1>3, <1>5, <1>6 DEF SeedsUnclaimed, ClaimedSeeds, Planned
  <2> QED
    BY <1>6, <2>1 DEF ClaimedOnce, IInv, Exists
<1>10. cache' \in Store /\ file' \in Store /\ ClaimedOnce(cache') /\ ClaimedOnce(file')
  BY <1>1, <1>6, <1>7, <1>9 DEF IInv, Types
<1>11. post' \in [Ids -> [master: Masters, seeds: SUBSET Seeds] \cup {NoPost}]
  BY <1>1 DEF Types
<1>12. Types'
  BY <1>1, <1>8, <1>10, <1>11 DEF Types
<1>13. OneSendOut'
  <2>1. \A d \in Ids : flight[d] # <<>> => d # c
    BY <1>1 DEF IInv, OneSendOut
  <2> QED
    BY <1>1, <1>6, <1>7, <1>8, <2>1 DEF IInv, OneSendOut, Exists
<1>14. \A d \in Ids : post'[d] # NoPost => ~Exists(cache', d)
  BY <1>1, <1>6, <1>7 DEF IInv, Types, Exists
<1>15. \A s \in Seeds : Sent(cache, s) => Sent(cache', s)
  BY <1>1, <1>6, <1>7 DEF Sent, Exists
<1>16. \A s \in Seeds : edges'[s] = 0 \/ (edges'[s] = 1 /\ Sent(cache', s))
  BY <1>1, <1>15 DEF IInv, Record
<1>17. \A s \in Seeds : edges'[s] = 0 \/ (edges'[s] = 1 /\ Sent(Record, s)')
  BY <1>1, <1>16 DEF Record, Sent, Exists
<1>18. ClaimedOnce(cache)' /\ ClaimedOnce(file)' /\ \A d \in Ids : Exists(cache, d)' = Exists(cache', d)
  BY <1>10 DEF ClaimedOnce, Exists
<1> QED
  BY <1>1, <1>12, <1>13, <1>14, <1>17, <1>18 DEF IInv

LEMMA StartKeepsTimers ==
  ASSUME FullInv, NEW c \in Ids, Start(c)
  PROVE  ShareInv' /\ ArmInv'
<1>1. /\ Idle /\ post[c] # NoPost /\ cache \in Store
      /\ WalletFree(cache, c, post[c].master) /\ ShareInv /\ ArmInv
      /\ post \in [Ids -> [master: Masters, seeds: SUBSET Seeds] \cup {NoPost}]
      /\ post' = [post EXCEPT ![c] = NoPost] /\ UNCHANGED <<flight, up, boot, sentNow>>
  BY DEF Start, FullInv, IInv, Types, StartOk, ghosts
<1>2. PICK due \in [Seeds -> 0..Horizon] :
        /\ \A s \in Seeds : (due[s] = 0) <=> (s \notin post[c].seeds)
        /\ InRequest(c, <<Put(cache, c, NewCampaign(post[c], due))>>)
  BY DEF Start
<1> DEFINE r == NewCampaign(post[c], due)
           k == Put(cache, c, r)
<1>3. post[c].master \in Masters /\ post[c].seeds \in SUBSET Seeds /\ post[c].seeds # {}
  BY <1>1 DEF ArmInv
<1>4. r \in CampaignRec
  <2>1. Cardinality({d \in Ids : Exists(cache, d)}) \in Nat
    BY BoundAssumption, FS_Subset, FS_CardinalityType
  <2>2. \A s \in Seeds :
          [st |-> IF s \in post[c].seeds THEN "pending" ELSE "none",
           att |-> 0, due |-> due[s]] \in Transfer
    BY <1>2, BoundAssumption DEF Transfer
  <2> QED
    BY <1>3, <2>1, <2>2 DEF NewCampaign, CampaignRec, Statuses
<1>5. r.master = post[c].master /\ Ready(r)
  BY <1>2, <1>3 DEF NewCampaign, Ready, Pending, Overdue
<1> HIDE DEF r
<1>6. k \in Store /\ Exists(k, c) /\ k[c] = r /\ \A d \in Ids \ {c} : k[d] = cache[d]
  BY <1>1, <1>4, PutIsStore
<1>7. Leaves(c, k)
  BY <1>1, <1>5, <1>6 DEF Leaves, WalletFree
<1>8. cache' = k /\ InRequest(c, <<k>>) /\ After(<<k>>) = k
  BY <1>2 DEF InRequest, AllDown, After, FileBefore, r
<1> HIDE DEF k
<1>9. Turn(c) /\ job'[c].inFlight = job[c].inFlight
  BY <1>1, <1>6, <1>7, <1>8, RequestTurn
<1>10. \A d \in Ids : post'[d] # NoPost => post'[d].seeds # {}
  BY <1>1 DEF ArmInv
<1> QED
  BY <1>1, <1>9, <1>10, TurnKeeps DEF ArmInv

\* Steps that write nothing.
LEMMA QuietKeeps ==
  ASSUME IInv, up, UNCHANGED <<cache, file, up, edges>>, boot'.left \subseteq boot.left,
         Types', OneSendOut', \A c \in Ids : post'[c] # NoPost => ~Exists(cache, c)
  PROVE  IInv'
BY DEF IInv, ClaimedOnce, Planned, Exists, Running, Record, Sent

LEMMA FireKeeps ==
  ASSUME IInv, NEW c \in Ids, NEW s \in Seeds, Fire(c, s)
  PROVE  IInv'
<1>1. /\ Types /\ up /\ ~job[c].inFlight /\ c \in Running(cache)
      /\ cache[c].tr[s].st = "pending"
      /\ job' = [job EXCEPT ![c] = [timer |-> NoTimer, inFlight |-> TRUE]]
      /\ UNCHANGED <<cache, file, up, boot, edges, post>>
  BY DEF Fire, IInv, Idle, NextPending, Pending
<1>2. flight[c] = <<>>
  BY <1>1 DEF IInv, OneSendOut
<1>3. flight' = [flight EXCEPT ![c] = <<s>>]
  <2>1. flight' = [flight EXCEPT ![c] = Append(flight[c], s)]
    BY DEF Fire
  <2>2. Append(<<>>, s) = <<s>>
    OBVIOUS
  <2> QED
    BY <1>2, <2>1, <2>2
<1>4. Types'
  BY <1>1, <1>3 DEF Types
<1>5. OneSendOut'
  <2>1. \A d \in Ids \ {c} : flight'[d] = flight[d] /\ job'[d] = job[d]
    BY <1>1, <1>3 DEF Types
  <2>2. flight'[c] = <<s>> /\ job'[c].inFlight
    BY <1>1, <1>3 DEF Types
  <2> QED
    BY <1>1, <2>1, <2>2 DEF IInv, OneSendOut, Running, Exists
<1> QED
  BY <1>1, <1>4, <1>5, QuietKeeps DEF IInv

\* The rest of fire(), whatever the answer was: what is written, and what is left.
LEMMA SettleWrites ==
  ASSUME NEW c \in Ids, NEW s \in Seeds, flight[c] = <<s>>, IInv,
         NEW T, NEW book, Books(cache, book, c, s, T), Settle(c, book)
  PROVE  /\ flight' = [flight EXCEPT ![c] = <<>>] /\ UNCHANGED <<post, up, boot, sentNow>>
         /\ \E ks : /\ AllFollow(cache, ks, c, {s}, T) /\ ks # <<>> /\ InCallback(c, ks)
                    /\ (/\ ShareInv /\ Idle /\ Exists(cache, c)
                        /\ Steered(cache, book[Len(book)], c)) => Leaves(c, After(ks))
<1> DEFINE k == book[Len(book)]
           Good(k2) == (ShareInv /\ Idle /\ Exists(cache, c) /\ Steered(cache, k, c)) => Leaves(c, k2)
           Writes == \E ks : /\ AllFollow(cache, ks, c, {s}, T) /\ ks # <<>> /\ InCallback(c, ks)
                             /\ Good(After(ks))
<1>1. AllFollow(cache, book, c, {s}, T) /\ book # <<>> /\ book \in Seq(Store)
  BY DEF Books, AllFollow
<1>2. Follows(cache, k, c, {s}, T)
  <2>1. Len(book) \in 1..Len(book)
    BY <1>1
  <2> QED
    BY <1>1, <2>1 DEF AllFollow
<1>3. flight' = [flight EXCEPT ![c] = <<>>] /\ UNCHANGED <<post, up, boot, sentNow>>
  <2>1. flight' = [flight EXCEPT ![c] = Tail(flight[c])] /\ UNCHANGED <<post, up, boot, sentNow>>
    BY DEF Settle
  <2>2. Tail(<<s>>) = <<>>
    OBVIOUS
  <2> QED
    BY <2>1, <2>2
<1>4. ASSUME k[c].status = "running" PROVE Writes
  <2>1. PICK g \in Spreads(k[c]) : InCallback(c, book \o ArmWrites(k, c, g))
    BY <1>4 DEF Settle
  <2> DEFINE w == ArmWrites(k, c, g)
             k2 == Last2(k, w)
             ks == book \o w
  <2> HIDE DEF k
  <2>2. AllFollow(cache, w, c, {s}, T) /\ w \in Seq(Store)
    <3>1. AllFollow(cache, w, c, {s}, T)
      BY <1>2, ArmFollows
    <3> QED
      BY <3>1 DEF AllFollow
  <2>3. /\ k2 \in Store /\ Exists(k2, c) /\ k2[c].master = k[c].master /\ Ready(k2[c])
        /\ k2[c].status = "running" => k[c].status = "running"
    BY <1>2, <2>1, ArmLast DEF Follows
  <2> HIDE DEF w
  <2>4. AllFollow(cache, book \o w, c, {s}, T)
    BY <1>1, <2>2, BothFollow
  <2>5. book \o w # <<>>
    BY <1>1, <2>2, ConcatEqualIffEmpty
  <2>6. After(book \o w) = k2
    BY <1>1, <2>2, <2>5, LastOfTwo DEF After, Last2, k
  <2> HIDE DEF k2
  <2>7. Good(k2)
    <3>1. Steered(cache, k, c) => Steered(cache, k2, c)
      BY <2>3 DEF Steered
    <3> QED
      BY <2>3, <3>1, SteeredKeepsItsWallet
  <2>8. InCallback(c, book \o w)
    BY <2>1 DEF w
  <2>9. AllFollow(cache, ks, c, {s}, T) /\ ks # <<>> /\ InCallback(c, ks) /\ Good(After(ks))
    BY <2>4, <2>5, <2>6, <2>7, <2>8
  <2> HIDE DEF ks, Good
  <2> QED
    BY <2>9
<1>5. ASSUME k[c].status # "running" PROVE Writes
  <2>1. InCallback(c, book)
    BY <1>5 DEF Settle
  <2>2. After(book) = k
    BY <1>1 DEF After
  <2>3. Good(k)
    BY <1>5, SteeredKeepsItsWallet DEF Ready
  <2> HIDE DEF k
  <2> QED
    BY <1>1, <2>1, <2>2, <2>3
<1>6. Writes
  BY <1>4, <1>5
<1> QED
  BY <1>3, <1>6

LEMMA SettleKeeps ==
  ASSUME IInv, Idle, NEW c \in Ids, NEW s \in Seeds, flight[c] = <<s>>,
         Exists(cache, c), s \in Pending(cache[c]),
         NEW T \in SUBSET St, "none" \notin T, NEW book, Books(cache, book, c, s, T),
         Settle(c, book),
         \/ edges' = edges
         \/ T = {"sent"} /\ edges' = [edges EXCEPT ![s] = @ + 1]
  PROVE  IInv'
<1>1. /\ flight' = [flight EXCEPT ![c] = <<>>] /\ UNCHANGED <<post, up, boot>>
      /\ \E ks : AllFollow(cache, ks, c, {s}, T) /\ ks # <<>> /\ InCallback(c, ks)
  BY SettleWrites
<1> QED
  BY <1>1, CallbackKeeps

LEMMA SettleKeepsTimers ==
  ASSUME FullInv, Idle, NEW c \in Ids, NEW s \in Seeds, flight[c] = <<s>>, Exists(cache, c),
         NEW T, NEW book, Books(cache, book, c, s, T), Settle(c, book),
         Steered(cache, book[Len(book)], c)
  PROVE  ShareInv' /\ ArmInv'
<1>1. IInv /\ ShareInv /\ ArmInv /\ Types /\ flight = [d \in Ids |-> flight[d]]
  BY DEF FullInv, IInv, Types
<1>2. PICK ks : /\ AllFollow(cache, ks, c, {s}, T) /\ ks # <<>> /\ InCallback(c, ks)
                /\ Leaves(c, After(ks))
  BY <1>1, SettleWrites
<1>3. flight' = [flight EXCEPT ![c] = <<>>] /\ UNCHANGED <<post, up, boot, sentNow>>
  BY <1>1, SettleWrites
<1>4. Exists(cache', c) /\ \A d \in Ids \ {c} : cache'[d] = cache[d]
  <2>1. Outcome(c, {s}, T)
    BY <1>1, <1>2, CallbackOutcome
  <2> QED
    BY <2>1 DEF Outcome, Follows
<1>5. Turn(c) /\ ~job'[c].inFlight
  BY <1>1, <1>2, <1>4, CallbackTurn
<1>6. \A d \in Ids \ {c} : flight'[d] = flight[d]
  BY <1>1, <1>3
<1> QED
  BY <1>1, <1>3, <1>5, <1>6, TurnKeeps DEF ArmInv

\* Whose send is out, and that its transfer is pending.
LEMMA OutIsPending ==
  ASSUME IInv, NEW c \in Ids, flight[c] # <<>>
  PROVE  \E s \in Seeds : /\ flight[c] = <<s>> /\ Head(flight[c]) = s
                          /\ Exists(cache, c) /\ s \in Pending(cache[c])
<1>1. PICK s \in Seeds : /\ flight[c] = <<s>> /\ Exists(cache, c)
                         /\ cache[c].tr[s].st = "pending"
  BY DEF IInv, OneSendOut
<1> QED
  BY <1>1 DEF Pending

LEMMA SendSucceedsKeeps ==
  ASSUME IInv, NEW c \in Ids, SendSucceeds(c)
  PROVE  IInv'
<1>1. PICK s \in Seeds : /\ flight[c] = <<s>> /\ Head(flight[c]) = s
                         /\ Exists(cache, c) /\ s \in Pending(cache[c])
  BY OutIsPending DEF SendSucceeds
<1>2. /\ Idle /\ Settle(c, SentWrites(cache, c, s))
      /\ edges' = [edges EXCEPT ![s] = @ + 1]
  BY <1>1 DEF SendSucceeds
<1> DEFINE T == {"sent"}
           book == SentWrites(cache, c, s)
<1>3. Books(cache, book, c, s, T)
  BY <1>1, SentBooks DEF IInv, Types
<1>4. T \in SUBSET St /\ "none" \notin T /\ T = {"sent"}
  BY DEF St
<1> HIDE DEF T
<1>5. Settle(c, book)
  BY <1>2
<1> HIDE DEF book
<1> QED
  BY <1>1, <1>2, <1>3, <1>4, <1>5, SettleKeeps

LEMMA SendFailsKeeps ==
  ASSUME IInv, NEW c \in Ids, SendFails(c)
  PROVE  IInv'
<1>1. PICK s \in Seeds : /\ flight[c] = <<s>> /\ Head(flight[c]) = s
                         /\ Exists(cache, c) /\ s \in Pending(cache[c])
  BY OutIsPending DEF SendFails
<1>2. PICK slot \in 1..Horizon : Settle(c, FailedWrites(cache, c, s, slot))
  BY <1>1 DEF SendFails, FreeSlots
<1> DEFINE T == {"pending", "abandoned"}
           book == FailedWrites(cache, c, s, slot)
<1>3. Books(cache, book, c, s, T)
  BY <1>1, FailedBooks DEF IInv, Types
<1>4. T \in SUBSET St /\ "none" \notin T
  BY DEF St
<1> HIDE DEF T
<1>5. Settle(c, book) /\ Idle /\ edges' = edges
  BY <1>2 DEF SendFails
<1> HIDE DEF book
<1> QED
  BY <1>1, <1>3, <1>4, <1>5, SettleKeeps

LEMMA SendKeepsTimers ==
  ASSUME FullInv, NEW c \in Ids, SendSucceeds(c) \/ SendFails(c)
  PROVE  ShareInv' /\ ArmInv'
<1>0. IInv /\ Idle /\ cache \in Store /\ flight[c] # <<>>
  BY DEF FullInv, IInv, Types, SendSucceeds, SendFails
<1>1. PICK s \in Seeds : /\ flight[c] = <<s>> /\ Head(flight[c]) = s
                         /\ Exists(cache, c) /\ s \in Pending(cache[c])
  BY <1>0, OutIsPending
<1>2. CASE SendSucceeds(c)
  <2> DEFINE book == SentWrites(cache, c, s)
             T == {"sent"}
  <2>1. Settle(c, book)
    BY <1>1, <1>2 DEF SendSucceeds
  <2>2. Books(cache, book, c, s, T) /\ Steered(cache, book[Len(book)], c)
    BY <1>0, <1>1, SentBooks, SentLast
  <2> HIDE DEF book, T
  <2> QED
    BY <1>0, <1>1, <2>1, <2>2, SettleKeepsTimers
<1>3. CASE SendFails(c)
  <2>1. PICK slot \in 1..Horizon : Settle(c, FailedWrites(cache, c, s, slot))
    BY <1>1, <1>3 DEF SendFails, FreeSlots
  <2> DEFINE book == FailedWrites(cache, c, s, slot)
             T == {"pending", "abandoned"}
  <2>2. Books(cache, book, c, s, T) /\ Steered(cache, book[Len(book)], c)
    BY <1>0, <1>1, FailedBooks, FailedLast
  <2>3. Settle(c, book)
    BY <2>1
  <2> HIDE DEF book, T
  <2> QED
    BY <1>0, <1>1, <2>2, <2>3, SettleKeepsTimers
<1> QED
  BY <1>2, <1>3

\* Pause, cancel, resume: what is written, and what is left of the campaign.
LEMMA OrderWrites ==
  ASSUME IInv, NEW c \in Ids, Pause(c) \/ Cancel(c) \/ Resume(c) \/ Rearm(c)
  PROVE  /\ Idle /\ UNCHANGED <<flight, post, up, boot, ghosts>> /\ Exists(cache, c)
         /\ \E ks : /\ AllFollow(cache, ks, c, {}, {}) /\ InRequest(c, ks)
                    /\ ShareInv => Leaves(c, After(ks))
<1>1. /\ Idle /\ UNCHANGED <<flight, post, up, boot, ghosts>> /\ Exists(cache, c)
      /\ cache \in Store
  BY DEF Pause, Cancel, Resume, Rearm, Request, Running, IInv, Types
<1> DEFINE N == {}
           Writes == \E ks : /\ AllFollow(cache, ks, c, N, N) /\ InRequest(c, ks)
                             /\ ShareInv => Leaves(c, After(ks))
<1>2. Follows(cache, cache, c, N, N) /\ N \in SUBSET Seeds
  BY <1>1, SelfFollows
<1>3. ASSUME NEW st \in Statuses, st # "running", InRequest(c, <<SetStatus(cache, c, st)>>)
      PROVE  Writes
  <2> DEFINE k == SetStatus(cache, c, st)
  <2> HIDE DEF N
  <2>1. Follows(cache, k, c, N, N)
    BY <1>2, <1>3, SetStatusFollows
  <2>2. Steered(cache, k, c) /\ k[c].status = st
    <3>1. Steered(cache, cache, c)
      BY <1>1 DEF Steered
    <3> QED
      BY <1>1, <1>3, <3>1, StoppedIsSteered
  <2> HIDE DEF k
  <2>3. AllFollow(cache, <<k>>, c, N, N)
    BY <2>1 DEF AllFollow, Follows
  <2>4. ShareInv => Leaves(c, k)
    BY <1>1, <1>3, <2>2, SteeredKeepsItsWallet DEF Ready
  <2>5. After(<<k>>) = k
    BY DEF After
  <2>6. InRequest(c, <<k>>)
    BY <1>3 DEF k
  <2> QED
    BY <2>3, <2>4, <2>5, <2>6
<1> HIDE DEF Writes
<1>4. ASSUME Pause(c) \/ Cancel(c) PROVE Writes
  <2>1. {"paused", "cancelled"} \subseteq Statuses \ {"running"}
    BY DEF Statuses
  <2> QED
    BY <1>3, <1>4, <2>1 DEF Pause, Cancel
<1>5. ASSUME Resume(c) PROVE Writes
  <2> DEFINE k == [cache EXCEPT ![c] = [@ EXCEPT !.status = "running", !.fails = 0]]
  <2>1. PICK g \in Spreads(k[c]) : InRequest(c, <<k>> \o ArmWrites(k, c, g))
    BY <1>5 DEF Resume
  <2>2. k \in Store /\ Exists(k, c) /\ k[c].master = cache[c].master
    <3> DEFINE r == [cache[c] EXCEPT !.status = "running", !.fails = 0]
    <3>1. cache[c] \in CampaignRec
      BY <1>1, StoreFields
    <3>2. r \in CampaignRec /\ r.master = cache[c].master
      BY <3>1 DEF CampaignRec, Statuses
    <3>3. k = Put(cache, c, r)
      BY <1>1 DEF Put, Store
    <3> HIDE DEF r, k
    <3> QED
      BY <1>1, <3>2, <3>3, PutIsStore
  <2> HIDE DEF N
  <2>3. Follows(cache, k, c, N, N)
    <3> DEFINE k1 == SetStatus(cache, c, "running")
    <3>1. Follows(cache, k1, c, N, N)
      BY <1>2, SetStatusFollows DEF Statuses
    <3>2. k = [k1 EXCEPT ![c].fails = 0]
      BY <1>1 DEF SetStatus, Store
    <3> HIDE DEF k1
    <3> QED
      BY <1>2, <3>1, <3>2, FailsFollows
  <2> DEFINE w == ArmWrites(k, c, g)
  <2>4. InRequest(c, <<k>> \o w)
    BY <2>1
  <2> HIDE DEF k
  <2>5. AllFollow(cache, w, c, N, N)
    BY <1>2, <2>1, <2>3, ArmFollows
  <2> DEFINE k2 == Last2(k, w)
  <2>6. /\ k2 \in Store /\ Exists(k2, c) /\ k2[c].master = k[c].master /\ Ready(k2[c])
    BY <2>1, <2>2, ArmLast
  <2> HIDE DEF w
  <2>7. AllFollow(cache, <<k>> \o w, c, N, N)
    <3>1. AllFollow(cache, <<k>>, c, N, N)
      BY <2>3 DEF AllFollow, Follows
    <3> QED
      BY <2>5, <3>1, BothFollow
  <2>8. After(<<k>> \o w) = k2
    <3>1. <<k>> \in Seq(Store) /\ w \in Seq(Store) /\ <<k>> # <<>> /\ <<k>>[Len(<<k>>)] = k
      BY <2>2, <2>5 DEF AllFollow
    <3> QED
      BY <3>1, LastOfTwo DEF After, Last2
  <2> HIDE DEF k2
  <2>9. Leaves(c, k2)
    BY <1>5, <2>2, <2>6 DEF Leaves, Resume, WalletFree
  <2> DEFINE ks == <<k>> \o w
  <2>10. AllFollow(cache, ks, c, N, N) /\ InRequest(c, ks) /\ Leaves(c, After(ks))
    BY <2>4, <2>7, <2>8, <2>9
  <2> HIDE DEF ks
  <2> QED
    BY <2>10, Zenon DEF Writes
<1>6. ASSUME Rearm(c) PROVE Writes
  <2>1. PICK g \in Spreads(cache[c]) : InRequest(c, ArmWrites(cache, c, g))
    BY <1>6 DEF Rearm
  <2> DEFINE w == ArmWrites(cache, c, g)
             k2 == Last2(cache, w)
  <2>2. InRequest(c, w)
    BY <2>1
  <2>3. Steered(cache, k2, c) /\ Ready(k2[c])
    BY <1>1, <2>1, ArmLast DEF Steered
  <2> HIDE DEF N
  <2>4. AllFollow(cache, w, c, N, N)
    BY <1>2, <2>1, ArmFollows
  <2> HIDE DEF w
  <2>5. After(w) = k2
    BY DEF After, Last2
  <2> HIDE DEF k2
  <2>6. ShareInv => Leaves(c, k2)
    BY <1>1, <2>3, SteeredKeepsItsWallet
  <2>7. ShareInv => Leaves(c, After(w))
    BY <2>5, <2>6
  <2> QED
    BY <2>2, <2>4, <2>7, Zenon DEF Writes
<1>7. Writes
  BY <1>4, <1>5, <1>6
<1> QED
  BY <1>1, <1>7 DEF Writes

LEMMA OrderKeeps ==
  ASSUME IInv, NEW c \in Ids, Pause(c) \/ Cancel(c) \/ Resume(c) \/ Rearm(c)
  PROVE  IInv'
BY OrderWrites, RequestKeeps DEF ghosts

LEMMA OrderKeepsTimers ==
  ASSUME FullInv, NEW c \in Ids, Pause(c) \/ Cancel(c) \/ Resume(c) \/ Rearm(c)
  PROVE  ShareInv' /\ ArmInv'
<1>1. IInv /\ ShareInv /\ ArmInv /\ Types /\ cache \in Store
  BY DEF FullInv, IInv, Types
<1>2. /\ Idle /\ UNCHANGED <<flight, post, up, boot, ghosts>> /\ Exists(cache, c)
      /\ \E ks : /\ AllFollow(cache, ks, c, {}, {}) /\ InRequest(c, ks)
                 /\ ShareInv => Leaves(c, After(ks))
  BY <1>1, OrderWrites
<1>3. PICK ks : AllFollow(cache, ks, c, {}, {}) /\ InRequest(c, ks) /\ Leaves(c, After(ks))
  BY <1>1, <1>2
<1>4. Exists(cache', c) /\ \A d \in Ids \ {c} : cache'[d] = cache[d]
  <2>1. Follows(cache, cache, c, {}, {})
    BY <1>1, <1>2, SelfFollows
  <2>2. Outcome(c, {}, {})
    BY <1>1, <1>3, <2>1, RequestOutcome
  <2> QED
    BY <2>2 DEF Outcome, Follows
<1>5. Turn(c) /\ job'[c].inFlight = job[c].inFlight
  BY <1>1, <1>2, <1>3, <1>4, RequestTurn
<1> QED
  BY <1>1, <1>2, <1>5, TurnKeeps DEF ArmInv, ghosts

\* What resumeAll()'s loop leaves of the campaign it came to, and of the loop.
BootLeaves(c, ks) ==
  /\ AllFollow(cache, ks, c, {}, {})
  /\ After(ks) \in Store /\ Exists(After(ks), c) /\ Ready(After(ks)[c])
  /\ After(ks)[c].master = cache[c].master
  /\ After(ks)[c].status = "running" => cache[c].master \notin boot.claimed
  /\ \/ /\ AllDown(ks) /\ unarmed' = unarmed
        /\ job' = [job EXCEPT ![c] = Armed(@, After(ks)[c])]
        /\ boot' = [left |-> boot.left \ {c},
                    claimed |-> boot.claimed \cup {cache[c].master}]
     \/ /\ \E i \in DOMAIN ks : cache' = ks[i] /\ file' = FileBefore(ks, i)
        /\ faults' = faults + 1 /\ unarmed' = boot.left /\ UNCHANGED job
        /\ boot' = [left |-> {}, claimed |-> {}]

LEMMA BootWrites ==
  ASSUME IInv, BootOne
  PROVE  \E c \in boot.left : \E ks : BootLeaves(c, ks)
<1>1. cache \in Store
  BY DEF IInv, Types
<1> DEFINE parked(d) == cache[d].master \in boot.claimed
           w(d, h) == IF parked(d) THEN <<SetStatus(cache, d, "paused")>> ELSE ArmWrites(cache, d, h)
           Ends(d, ks) ==
             \/ /\ AllDown(ks) /\ unarmed' = unarmed
                /\ job' = [job EXCEPT ![d] = Armed(@, After(ks)[d])]
                /\ boot' = [left |-> boot.left \ {d},
                            claimed |-> boot.claimed \cup {cache[d].master}]
             \/ /\ \E i \in DOMAIN ks : cache' = ks[i] /\ file' = FileBefore(ks, i)
                /\ faults' = faults + 1 /\ unarmed' = boot.left /\ UNCHANGED job
                /\ boot' = [left |-> {}, claimed |-> {}]
           Kept(d, k2) == /\ k2 \in Store /\ Exists(k2, d) /\ Ready(k2[d])
                          /\ k2[d].master = cache[d].master
                          /\ k2[d].status = "running" => ~parked(d)
<1>2. PICK c \in Oldest(cache, boot.left) : \E g \in Spreads(cache[c]) :
        \/ /\ AllDown(w(c, g))
           /\ job' = [job EXCEPT ![c] = Armed(@, After(w(c, g))[c])]
           /\ boot' = [left |-> boot.left \ {c},
                       claimed |-> boot.claimed \cup {cache[c].master}]
           /\ UNCHANGED unarmed
        \/ \E i \in DOMAIN w(c, g) :
             /\ faults < MaxFaults
             /\ faults' = faults + 1
             /\ cache' = w(c, g)[i]
             /\ file' = FileBefore(w(c, g), i)
             /\ boot' = [left |-> {}, claimed |-> {}]
             /\ unarmed' = boot.left
             /\ UNCHANGED job
  BY Zenon DEF BootOne
<1>3. PICK g \in Spreads(cache[c]) : Ends(c, w(c, g))
  BY <1>2
<1>4. c \in boot.left /\ c \in Ids /\ Exists(cache, c)
  BY <1>2 DEF Oldest, IInv, Running
<1> DEFINE N == {}
           ks == w(c, g)
<1>5. Follows(cache, cache, c, N, N) /\ N \in SUBSET Seeds
  BY <1>1, <1>4, SelfFollows
<1> HIDE DEF Ends
<1>6. AllFollow(cache, ks, c, N, N) /\ Kept(c, After(ks))
  <2>1. CASE parked(c)
    <3> DEFINE k == SetStatus(cache, c, "paused")
    <3>1. Follows(cache, k, c, N, N)
      BY <1>4, <1>5, SetStatusFollows DEF Statuses
    <3>2. Steered(cache, k, c) /\ k[c].status = "paused"
      <4>1. Steered(cache, cache, c)
        BY <1>1, <1>4 DEF Steered
      <4> QED
        BY <1>1, <1>4, <4>1, StoppedIsSteered DEF Statuses
    <3> HIDE DEF N, k
    <3>3. AllFollow(cache, <<k>>, c, N, N) /\ After(<<k>>) = k
      BY <3>1 DEF AllFollow, Follows, After
    <3>4. Kept(c, k)
      BY <3>2 DEF Steered, Ready
    <3>5. ks = <<k>>
      BY <2>1 DEF k
    <3> HIDE DEF Kept
    <3> QED
      BY <3>3, <3>4, <3>5
  <2>2. CASE ~parked(c)
    <3>1. ks = ArmWrites(cache, c, g)
      BY <2>2
    <3> HIDE DEF ks
    <3> DEFINE k2 == Last2(cache, ArmWrites(cache, c, g))
    <3>2. k2 \in Store /\ Exists(k2, c) /\ k2[c].master = cache[c].master /\ Ready(k2[c])
      BY <1>1, <1>3, <1>4, ArmLast
    <3>3. After(ks) = k2
      BY <3>1 DEF After, Last2
    <3> HIDE DEF k2, N
    <3>4. AllFollow(cache, ArmWrites(cache, c, g), c, N, N)
      BY <1>3, <1>4, <1>5, ArmFollows
    <3>5. Kept(c, k2)
      BY <2>2, <3>2
    <3> HIDE DEF Kept
    <3> QED
      BY <3>1, <3>3, <3>4, <3>5
  <2> QED
    BY <2>1, <2>2
<1> HIDE DEF ks
<1>7. Ends(c, ks)
  BY <1>3 DEF ks
<1>8. BootLeaves(c, ks)
  BY <1>6, <1>7 DEF Ends, BootLeaves
<1> QED
  BY <1>4, <1>8

LEMMA BootOneKeeps ==
  ASSUME IInv, BootOne
  PROVE  IInv'
<1>1. /\ up /\ UNCHANGED <<flight, post, up, edges>> /\ cache \in Store
      /\ job = [d \in Ids |-> [timer |-> job[d].timer, inFlight |-> job[d].inFlight]]
  BY DEF BootOne, ghosts, IInv, Types
<1>2a. PICK c \in boot.left : \E ks : BootLeaves(c, ks)
  BY BootWrites
<1>2. PICK ks :
         /\ AllFollow(cache, ks, c, {}, {})
         /\ \/ /\ AllDown(ks)
               /\ job' = [job EXCEPT ![c] = Armed(@, After(ks)[c])]
               /\ boot'.left = boot.left \ {c}
            \/ /\ \E i \in DOMAIN ks : cache' = ks[i] /\ file' = FileBefore(ks, i)
               /\ UNCHANGED job /\ boot'.left = {}
  BY <1>2a DEF BootLeaves
<1>3. c \in Ids /\ Exists(cache, c)
  BY <1>2 DEF IInv, Running
<1> DEFINE N == {}
<1>4. Follows(cache, cache, c, N, N) /\ AllFollow(cache, ks, c, N, N)
  BY <1>1, <1>2, <1>3, SelfFollows
<1> HIDE DEF N
<1>7. Outcome(c, N, N)
  <2>1. CASE AllDown(ks)
    BY <1>3, <1>4, <2>1, AllDownOutcome
  <2>2. CASE \E i \in DOMAIN ks : cache' = ks[i] /\ file' = FileBefore(ks, i)
    BY <1>4, <2>2, BeforeFollows DEF Outcome
  <2> QED
    BY <1>2, <2>1, <2>2
<1>8. /\ job' = [d \in Ids |-> [timer |-> job'[d].timer, inFlight |-> job'[d].inFlight]]
      /\ \A d \in Ids : job'[d].inFlight = job[d].inFlight
  <2>1. \/ job' = job
        \/ \E t : job' = [job EXCEPT ![c] = [job[c] EXCEPT !.timer = t]]
    BY <1>2 DEF Armed, Forget
  <2>2. CASE \E t : job' = [job EXCEPT ![c] = [job[c] EXCEPT !.timer = t]]
    <3>1. PICK t : job' = [job EXCEPT ![c] = [job[c] EXCEPT !.timer = t]]
      BY <2>2
    <3> QED
      BY <1>1, <1>3, <3>1
  <2> QED
    BY <1>1, <2>1, <2>2
<1>9. boot'.left \subseteq boot.left \ {c}
  BY <1>2
<1> USE DEF N
<1> QED
  BY <1>1, <1>3, <1>7, <1>8, <1>9, NoNewsKeeps

LEMMA BootOneKeepsTimers ==
  ASSUME FullInv, BootOne
  PROVE  ShareInv' /\ ArmInv'
<1>1. /\ IInv /\ ShareInv /\ ArmInv /\ up /\ up' /\ cache \in Store /\ job \in [Ids -> Job]
      /\ UNCHANGED <<flight, post, sentNow>> /\ faults \in Nat
      /\ boot.left \subseteq Running(cache)
  BY DEF FullInv, IInv, Types, ShareInv, ArmInv, BootOne, ghosts
<1>2. PICK c \in boot.left : \E ks : BootLeaves(c, ks)
  BY <1>1, BootWrites
<1>2a. PICK ks : BootLeaves(c, ks)
  BY <1>2
<1>3. c \in Ids /\ c \in Running(cache) /\ Exists(cache, c) /\ unarmed = {} /\ boot.left # {}
  BY <1>1 DEF Running, ArmInv, Idle
<1>4. CASE /\ AllDown(ks) /\ unarmed' = unarmed
           /\ job' = [job EXCEPT ![c] = Armed(@, After(ks)[c])]
           /\ boot' = [left |-> boot.left \ {c},
                       claimed |-> boot.claimed \cup {cache[c].master}]
  <2> DEFINE k2 == After(ks)
             a == Armed(job[c], k2[c])
  <2>1. cache' = k2 /\ faults' = faults
    BY <1>4 DEF AllDown
  <2>2. Follows(cache, k2, c, {}, {})
    <3>1. Follows(cache, cache, c, {}, {})
      BY <1>1, <1>3, SelfFollows
    <3> QED
      BY <1>2a, <1>3, <3>1, LastFollows DEF BootLeaves
  <2>3. \A d \in Ids \ {c} : k2[d] = cache[d]
    BY <2>2 DEF Follows
  <2>4. /\ k2 \in Store /\ Exists(k2, c) /\ Ready(k2[c]) /\ k2[c].master = cache[c].master
        /\ k2[c].status = "running" => cache[c].master \notin boot.claimed
    BY <1>2a DEF BootLeaves
  <2>5. job' = [job EXCEPT ![c] = a]
    BY <1>1, <1>4
  <2> HIDE DEF k2
  <2>6. /\ a \in Job /\ a.inFlight = job[c].inFlight /\ a.timer # 0
        /\ k2[c].status = "running" => a.timer # NoTimer
    <3>1. k2[c] \in CampaignRec /\ job[c] \in Job
      BY <1>1, <1>3, <2>4, StoreFields
    <3> QED
      BY <2>4, <3>1, ArmedTimer
  <2> HIDE DEF a
  <2>7. job' \in [Ids -> Job] /\ job'[c] = a /\ \A d \in Ids \ {c} : job'[d] = job[d]
    BY <1>1, <1>3, <2>5, <2>6
  <2>8. /\ boot'.left = boot.left \ {c}
        /\ boot'.claimed = boot.claimed \cup {cache[c].master}
    BY <1>4
  <2>9. Running(cache)' = Running(cache')
    BY DEF Running, Exists
  <2>10. \A d \in Running(cache') : d \in Ids /\ (d # c => d \in Running(cache) /\ cache'[d] = cache[d])
    BY <2>1, <2>3 DEF Running, Exists
  <2>11. ASSUME faults' = 0
         PROVE  /\ \A x, y \in Running(cache') \ boot'.left :
                     x # y => cache'[x].master # cache'[y].master
                /\ \A x \in Running(cache') \ boot'.left : cache'[x].master \in boot'.claimed
    <3>1. /\ \A x, y \in Running(cache) \ boot.left : x # y => cache[x].master # cache[y].master
          /\ \A x \in Running(cache) \ boot.left : cache[x].master \in boot.claimed
      BY <1>1, <1>3, <2>1, <2>11 DEF ShareInv
    <3>2. \A x \in Running(cache') \ boot'.left :
            x # c => x \in Running(cache) \ boot.left /\ cache'[x].master = cache[x].master
      BY <2>8, <2>10
    <3>3. c \in Running(cache') =>
            cache'[c].master = cache[c].master /\ cache[c].master \notin boot.claimed
      BY <2>1, <2>4 DEF Running
    <3>4. ASSUME NEW x \in Running(cache') \ boot'.left, NEW y \in Running(cache') \ boot'.left, x # y
          PROVE  cache'[x].master # cache'[y].master
      <4>1. CASE x # c /\ y # c
        BY <3>1, <3>2, <3>4, <4>1
      <4>2. CASE x = c
        <5>1. cache'[y].master \in boot.claimed
          BY <3>1, <3>2, <3>4, <4>2
        <5> QED
          BY <3>3, <3>4, <4>2, <5>1
      <4>3. CASE y = c
        <5>1. cache'[x].master \in boot.claimed
          BY <3>1, <3>2, <3>4, <4>3
        <5> QED
          BY <3>3, <3>4, <4>3, <5>1
      <4> QED
        BY <4>1, <4>2, <4>3
    <3>5. ASSUME NEW x \in Running(cache') \ boot'.left
          PROVE  cache'[x].master \in boot'.claimed
      BY <2>8, <3>1, <3>2, <3>3
    <3> QED
      BY <3>4, <3>5
  <2>12. ShareInv'
    BY <1>1, <2>1, <2>9, <2>11 DEF ShareInv
  <2>13. ASSUME NEW d \in Running(cache')
         PROVE  job'[d].timer # NoTimer \/ flight'[d] # <<>> \/ d \in unarmed' \/ d \in boot'.left
    <3>1. CASE d = c
      BY <2>1, <2>6, <2>7, <2>13, <3>1 DEF Running
    <3>2. CASE d # c
      <4>1. d \in Ids /\ d \in Running(cache)
        BY <2>10, <3>2
      <4>2. job[d].timer # NoTimer \/ flight[d] # <<>> \/ d \in unarmed \/ d \in boot.left
        BY <1>1, <4>1 DEF ArmInv
      <4> QED
        BY <1>1, <1>4, <2>7, <2>8, <3>2, <4>1, <4>2
    <3> QED
      BY <3>1, <3>2
  <2>14. \A d \in Ids : job'[d].inFlight = job[d].inFlight
    BY <2>6, <2>7
  <2>15. \A d \in sentNow : d \in Ids /\ job'[d].timer # 0
    BY <1>1, <2>6, <2>7 DEF ArmInv
  <2>16. unarmed' = {}
    BY <1>3, <1>4
  <2> QED
    BY <1>1, <2>7, <2>9, <2>12, <2>13, <2>14, <2>15, <2>16 DEF ArmInv
<1>5. CASE /\ \E i \in DOMAIN ks : cache' = ks[i] /\ file' = FileBefore(ks, i)
           /\ faults' = faults + 1 /\ unarmed' = boot.left /\ UNCHANGED job
           /\ boot' = [left |-> {}, claimed |-> {}]
  <2>1. \A d \in Ids \ {c} : cache'[d] = cache[d]
    BY <1>2a, <1>5, BeforeFollows DEF Follows, BootLeaves
  <2>2. Running(cache)' = Running(cache')
    BY DEF Running, Exists
  <2>3. \A d \in Running(cache') : d \in Ids /\ (d # c => d \in Running(cache))
    BY <2>1 DEF Running, Exists
  <2>4. faults' \in Nat /\ faults' # 0 /\ boot'.left = {} /\ Idle'
    BY <1>1, <1>5 DEF Idle
  <2>5. \A d \in Running(cache') :
          job'[d].timer # NoTimer \/ flight'[d] # <<>> \/ d \in unarmed'
    BY <1>1, <1>3, <1>5, <2>3 DEF ArmInv
  <2>6. ShareInv'
    BY <2>4 DEF ShareInv
  <2> QED
    BY <1>1, <1>5, <2>2, <2>4, <2>5, <2>6 DEF ArmInv
<1> QED
  BY <1>2a, <1>4, <1>5 DEF BootLeaves

\* Steps that move only the POSTs or a timer.
LEMMA AsideKeeps ==
  ASSUME IInv, NEW c \in Ids,
         \/ \E m \in Masters, S \in SUBSET Seeds : Post(c, m, S)
         \/ PostRefused(c) \/ FireInFlight(c)
  PROVE  IInv'
<1>1. /\ Types /\ up /\ UNCHANGED <<cache, file, up, edges, boot, flight>>
      /\ \A d \in Ids : post'[d] # NoPost => ~Exists(cache, d)
      /\ post' \in [Ids -> [master: Masters, seeds: SUBSET Seeds] \cup {NoPost}]
      /\ job' = job \/ job' = [job EXCEPT ![c] = Forget(@)]
  <2>1. Types /\ OneSendOut /\ \A d \in Ids : post[d] # NoPost => ~Exists(cache, d)
    BY DEF IInv
  <2>2. CASE \E m \in Masters, S \in SUBSET Seeds : Post(c, m, S)
    BY <2>1, <2>2 DEF Post, Request, Idle, Types, ghosts
  <2>3. CASE PostRefused(c)
    BY <2>1, <2>3 DEF PostRefused, Idle, Types, ghosts
  <2>4. CASE FireInFlight(c)
    BY <2>1, <2>4 DEF FireInFlight, Idle, Types, ghosts
  <2> QED
    BY <2>2, <2>3, <2>4
<1>2. /\ job' = [d \in Ids |-> [timer |-> job'[d].timer, inFlight |-> job'[d].inFlight]]
      /\ \A d \in Ids : job'[d].inFlight = job[d].inFlight
  <2>1. CASE job' = job
    BY <1>1, <2>1 DEF Types
  <2>2. CASE job' = [job EXCEPT ![c] = [job[c] EXCEPT !.timer = NoTimer]]
    BY <1>1, <2>2 DEF Types
  <2> QED
    BY <1>1, <2>1, <2>2 DEF Forget
<1>3. Types' /\ OneSendOut'
  BY <1>1, <1>2 DEF IInv, Types, OneSendOut, Exists
<1> QED
  BY <1>1, <1>3, QuietKeeps

LEMMA CrashKeeps ==
  ASSUME IInv, Crash
  PROVE  IInv'
<1>1. /\ ~up' /\ file' = file /\ boot'.left = {}
      /\ cache' = [c \in Ids |-> NoCampaign] /\ job' = [c \in Ids |-> NoJob]
      /\ flight' = [c \in Ids |-> <<>>] /\ post' = [c \in Ids |-> NoPost]
      /\ edges' = [s \in Seeds |-> IF Sent(file, s) THEN edges[s] ELSE 0]
  BY DEF Crash
<1>2. Types'
  BY <1>1 DEF IInv, Types, NoJob, Store
<1>3. OneSendOut' /\ ClaimedOnce(cache)' /\ ClaimedOnce(file)'
  BY <1>1 DEF IInv, OneSendOut, ClaimedOnce, Exists, Planned
<1>4. \A s \in Seeds : edges'[s] = 0 \/ (edges'[s] = 1 /\ Sent(Record, s)')
  <2>1. \A s \in Seeds : edges'[s] = 0 \/ (edges'[s] = 1 /\ Sent(file, s))
    BY <1>1 DEF IInv
  <2> QED
    BY <1>1, <2>1 DEF Record, Sent, Exists
<1> QED
  BY <1>1, <1>2, <1>3, <1>4 DEF IInv, Exists

LEMMA BootKeeps ==
  ASSUME IInv, Boot
  PROVE  IInv'
<1>1. /\ ~up /\ up' /\ cache' = file /\ boot'.left = Running(file)
      /\ UNCHANGED <<file, job, flight, post, edges>>
      /\ \A c \in Ids : flight[c] = <<>> /\ post[c] = NoPost
  BY DEF Boot, IInv, ghosts
<1>2. Types' /\ OneSendOut'
  BY <1>1 DEF IInv, Types, OneSendOut
<1>3. ClaimedOnce(cache)' /\ ClaimedOnce(file)' /\ boot'.left \subseteq Running(cache)'
  BY <1>1 DEF IInv, ClaimedOnce, Exists, Planned, Running
<1>4. \A s \in Seeds : edges'[s] = 0 \/ (edges'[s] = 1 /\ Sent(Record, s)')
  BY <1>1 DEF IInv, Record, Sent, Exists
<1> QED
  BY <1>1, <1>2, <1>3, <1>4 DEF IInv

\* Time touches no status.
LEMMA LaterIsStore ==
  ASSUME NEW k \in Store
  PROVE  /\ Later(k) \in Store
         /\ \A c \in Ids : Exists(Later(k), c) = Exists(k, c)
         /\ \A c \in Ids : Exists(k, c) => \A s \in Seeds : Later(k)[c].tr[s].st = k[c].tr[s].st
<1>1. ASSUME NEW c \in Ids, Exists(k, c)
      PROVE  /\ Later(k)[c] \in CampaignRec
             /\ \A s \in Seeds : Later(k)[c].tr[s].st = k[c].tr[s].st
  <2> DEFINE q(s) == [k[c].tr[s] EXCEPT !.due = Less(@)]
  <2>1. k[c] \in CampaignRec /\ \A s \in Seeds : k[c].tr[s] \in Transfer
    BY <1>1, StoreFields
  <2>2. \A n \in 0..Horizon : Less(n) \in 0..Horizon
    BY BoundAssumption DEF Less
  <2>3. \A s \in Seeds : q(s).st = k[c].tr[s].st /\ q(s) \in Transfer
    <3>1. ASSUME NEW x \in Transfer
          PROVE  [x EXCEPT !.due = Less(@)] \in Transfer /\ [x EXCEPT !.due = Less(@)].st = x.st
      <4>1. Less(x.due) \in 0..Horizon
        BY <2>2 DEF Transfer
      <4> QED
        BY <4>1 DEF Transfer
    <3> QED
      BY <2>1, <3>1
  <2>4. Later(k)[c] = [k[c] EXCEPT !.tr = [s \in Seeds |-> q(s)]]
    BY <1>1 DEF Later, Exists
  <2> HIDE DEF q
  <2>5. [s \in Seeds |-> q(s)] \in [Seeds -> Transfer]
    BY <2>3
  <2>6. Later(k)[c] \in CampaignRec /\ Later(k)[c].tr = [s \in Seeds |-> q(s)]
    BY <2>1, <2>4, <2>5, RecordParts DEF CampaignRec
  <2> QED
    BY <2>3, <2>6
<1>2. \A c \in Ids : Exists(Later(k), c) = Exists(k, c)
  <2>1. \A c \in Ids : ~Exists(k, c) => Later(k)[c] = NoCampaign
    BY DEF Later
  <2> QED
    BY <1>1, <2>1, FileAssumption DEF Exists
<1>3. Later(k) \in Store
  <2>1. Later(k) = [c \in Ids |-> Later(k)[c]]
    BY DEF Later
  <2>2. \A c \in Ids : Later(k)[c] \in CampaignRec \cup {NoCampaign}
    BY <1>1 DEF Later
  <2> QED
    BY <2>1, <2>2 DEF Store
<1> QED
  BY <1>1, <1>2, <1>3

LEMMA TickKeeps ==
  ASSUME IInv, Tick
  PROVE  IInv'
<1>1. /\ UNCHANGED <<up, boot, flight, post, edges>> /\ boot.left = {}
      /\ cache' = Later(cache) /\ file' = Later(file)
      /\ job' = [c \in Ids |-> IF job[c].timer = NoTimer THEN job[c]
                               ELSE [job[c] EXCEPT !.timer = Less(@)]]
      /\ cache \in Store /\ file \in Store
  BY DEF Tick, IInv, Idle, Types
<1>2. /\ job' = [d \in Ids |-> [timer |-> job'[d].timer, inFlight |-> job'[d].inFlight]]
      /\ \A d \in Ids : job'[d].inFlight = job[d].inFlight
  BY <1>1 DEF IInv, Types
<1>3. ASSUME NEW k \in Store
      PROVE  /\ \A c \in Ids : Exists(Later(k), c) = Exists(k, c)
             /\ \A c \in Ids : Exists(k, c) => Planned(Later(k)[c]) = Planned(k[c])
             /\ \A s \in Seeds : Sent(Later(k), s) = Sent(k, s)
  BY LaterIsStore DEF Planned, Sent
<1>4. ClaimedOnce(cache') /\ ClaimedOnce(file')
  BY <1>1, <1>3 DEF IInv, ClaimedOnce
<1>5. ClaimedOnce(cache)' /\ ClaimedOnce(file)'
  BY <1>4 DEF ClaimedOnce, Exists, Planned
<1>6. Types'
  BY <1>1, <1>2, LaterIsStore DEF IInv, Types
<1>7. OneSendOut'
  <2>1. \A c \in Ids : Exists(cache, c)' = Exists(cache, c)
    BY <1>1, <1>3 DEF Exists
  <2>2. \A c \in Ids : Exists(cache, c) =>
          \A s \in Seeds : cache'[c].tr[s].st = cache[c].tr[s].st
    BY <1>1, LaterIsStore
  <2> QED
    BY <1>1, <1>2, <2>1, <2>2 DEF IInv, OneSendOut
<1>8. \A s \in Seeds : edges'[s] = 0 \/ (edges'[s] = 1 /\ Sent(Record, s)')
  <2>1. \A s \in Seeds : Sent(cache', s) = Sent(cache, s) /\ Sent(file', s) = Sent(file, s)
    BY <1>1, <1>3
  <2>2. \A s \in Seeds : Sent(Record, s)' = Sent(Record', s)
    BY DEF Sent, Exists
  <2> QED
    BY <1>1, <2>1, <2>2 DEF IInv, Record
<1>9. \A c \in Ids : Exists(cache, c)' = Exists(cache, c)
  BY <1>1, <1>3 DEF Exists
<1> QED
  BY <1>1, <1>5, <1>6, <1>7, <1>8, <1>9 DEF IInv

LEMMA FlightIsSeq ==
  ASSUME IInv, NEW c \in Ids
  PROVE  flight[c] \in Seq(Seeds)
<1>1. CASE flight[c] = <<>>
  BY <1>1
<1>2. CASE flight[c] # <<>>
  <2>1. PICK s \in Seeds : flight[c] = <<s>>
    BY <1>2 DEF IInv, OneSendOut
  <2> QED
    BY <2>1
<1> QED
  BY <1>1, <1>2

\* Steps that leave the store, the boot and the lists alone: a POST, a timer that
\* goes off, a send that leaves.
LEMMA AsideKeepsTimers ==
  ASSUME FullInv, NEW c \in Ids,
         \/ \E m \in Masters, S \in SUBSET Seeds : Post(c, m, S)
         \/ PostRefused(c) \/ FireInFlight(c) \/ \E s \in Seeds : Fire(c, s)
  PROVE  ShareInv' /\ ArmInv'
<1>1. /\ IInv /\ ShareInv /\ ArmInv /\ job \in [Ids -> Job] /\ sentNow \subseteq Ids
      /\ flight = [d \in Ids |-> flight[d]]
      /\ post \in [Ids -> [master: Masters, seeds: SUBSET Seeds] \cup {NoPost}]
  BY DEF FullInv, IInv, Types, ArmInv
<1>2. Idle /\ UNCHANGED <<cache, up, boot, unarmed, faults>>
  BY DEF Post, PostRefused, FireInFlight, Fire, Request
<1>3. /\ \/ UNCHANGED <<job, flight, sentNow>>
         \/ /\ job[c].inFlight /\ job' = [job EXCEPT ![c] = Forget(@)]
            /\ UNCHANGED <<flight, sentNow>>
         \/ \E s \in Seeds :
              /\ job' = [job EXCEPT ![c] = [timer |-> NoTimer, inFlight |-> TRUE]]
              /\ flight' = [flight EXCEPT ![c] = Append(@, s)]
              /\ sentNow' = sentNow \cup {c}
      /\ post' = post \/ (\E m \in Masters, S \in SUBSET Seeds :
              S # {} /\ post' = [post EXCEPT ![c] = [master |-> m, seeds |-> S]])
           \/ post' = [post EXCEPT ![c] = NoPost]
  BY DEF Post, PostRefused, FireInFlight, Fire, ghosts
<1>4. ShareInv'
  BY <1>1, <1>2 DEF ShareInv, Running, Exists
<1>5. \A d \in Ids : post'[d] # NoPost => post'[d].seeds # {}
  BY <1>1, <1>3 DEF ArmInv
<1>6. NoTimer # 0 /\ [timer |-> NoTimer, inFlight |-> TRUE] \in Job
  BY FileAssumption DEF Job
<1>7. /\ job' \in [Ids -> Job] /\ sentNow' \subseteq Ids
      /\ \A d \in Ids : job'[d].inFlight => flight'[d] # <<>>
      /\ \A d \in sentNow' : job'[d].timer # 0
      /\ \A d \in Ids : (job[d].timer # NoTimer \/ flight[d] # <<>>) =>
                        (job'[d].timer # NoTimer \/ flight'[d] # <<>>)
  <2>1. CASE UNCHANGED <<job, flight, sentNow>>
    BY <1>1, <2>1 DEF ArmInv
  <2>2. CASE /\ job[c].inFlight /\ job' = [job EXCEPT ![c] = Forget(@)]
             /\ UNCHANGED <<flight, sentNow>>
    <3> DEFINE a == Forget(job[c])
    <3>1. a \in Job /\ a.timer = NoTimer /\ a.inFlight = job[c].inFlight
      BY <1>1 DEF Forget, Job
    <3>2. job' = [job EXCEPT ![c] = a]
      BY <1>1, <2>2
    <3> HIDE DEF a
    <3>3. job' \in [Ids -> Job] /\ job'[c] = a /\ \A d \in Ids \ {c} : job'[d] = job[d]
      BY <1>1, <3>1, <3>2
    <3>4. flight[c] # <<>>
      BY <1>1, <2>2 DEF ArmInv
    <3> QED
      BY <1>1, <1>6, <2>2, <3>1, <3>3, <3>4 DEF ArmInv
  <2>3. ASSUME NEW s \in Seeds,
               job' = [job EXCEPT ![c] = [timer |-> NoTimer, inFlight |-> TRUE]],
               flight' = [flight EXCEPT ![c] = Append(@, s)], sentNow' = sentNow \cup {c}
        PROVE  /\ job' \in [Ids -> Job] /\ sentNow' \subseteq Ids
               /\ \A d \in Ids : job'[d].inFlight => flight'[d] # <<>>
               /\ \A d \in sentNow' : job'[d].timer # 0
               /\ \A d \in Ids : (job[d].timer # NoTimer \/ flight[d] # <<>>) =>
                                 (job'[d].timer # NoTimer \/ flight'[d] # <<>>)
    <3> DEFINE a == [timer |-> NoTimer, inFlight |-> TRUE]
    <3>1. job' \in [Ids -> Job] /\ job'[c] = a /\ \A d \in Ids \ {c} : job'[d] = job[d]
      BY <1>1, <1>6, <2>3
    <3>2. flight'[c] = Append(flight[c], s) /\ \A d \in Ids \ {c} : flight'[d] = flight[d]
      BY <1>1, <2>3
    <3>3. flight'[c] # <<>>
      <4>1. flight[c] \in Seq(Seeds)
        BY <1>1, FlightIsSeq
      <4> QED
        BY <3>2, <4>1
    <3>4. a.timer # 0
      BY <1>6
    <3> HIDE DEF a
    <3> QED
      BY <1>1, <2>3, <3>1, <3>2, <3>3, <3>4 DEF ArmInv
  <2> QED
    BY <1>3, <2>1, <2>2, <2>3
<1> QED
  BY <1>1, <1>2, <1>4, <1>5, <1>7 DEF ArmInv, Idle, Running, Exists

\* A crash, a boot, time that passes.
LEMMA LaterKeepsStatus ==
  ASSUME NEW k \in Store
  PROVE  /\ Running(Later(k)) = Running(k)
         /\ \A c \in Running(k) : Later(k)[c].master = k[c].master
<1>1. ASSUME NEW c \in Ids, Exists(k, c)
      PROVE  Later(k)[c].status = k[c].status /\ Later(k)[c].master = k[c].master
  <2>1. k[c] \in CampaignRec
    BY <1>1, StoreFields
  <2>2. Later(k)[c] = [k[c] EXCEPT !.tr = [s \in Seeds |-> [k[c].tr[s] EXCEPT !.due = Less(@)]]]
    BY <1>1 DEF Later
  <2> QED
    BY <2>1, <2>2 DEF CampaignRec
<1>2. \A c \in Ids : Exists(Later(k), c) = Exists(k, c)
  BY LaterIsStore
<1> QED
  BY <1>1, <1>2 DEF Running

LEMMA WorldKeepsTimers ==
  ASSUME FullInv, Crash \/ Boot \/ Tick
  PROVE  ShareInv' /\ ArmInv'
<1>1. IInv /\ ShareInv /\ ArmInv /\ job \in [Ids -> Job] /\ sentNow \subseteq Ids
  BY DEF FullInv, ArmInv
<1>2. CASE Crash
  <2>1. /\ ~up' /\ cache' = [c \in Ids |-> NoCampaign] /\ job' = [c \in Ids |-> NoJob]
        /\ flight' = [c \in Ids |-> <<>>] /\ post' = [c \in Ids |-> NoPost]
        /\ boot' = [left |-> {}, claimed |-> {}] /\ unarmed' = {}
        /\ UNCHANGED <<sentNow, faults>>
    BY <1>2 DEF Crash
  <2>2. Running(cache)' = {} /\ boot'.left = {}
    BY <2>1 DEF Running, Exists
  <2>3. NoJob \in Job /\ ~NoJob.inFlight /\ NoJob.timer # 0
    BY FileAssumption DEF NoJob, Job
  <2>4. ShareInv'
    BY <1>1, <2>1, <2>2 DEF ShareInv
  <2>5. job' \in [Ids -> Job] /\ \A c \in Ids : job'[c] = NoJob /\ post'[c] = NoPost
    BY <2>1, <2>3
  <2> QED
    BY <1>1, <2>1, <2>2, <2>3, <2>4, <2>5 DEF ArmInv
<1>3. CASE Boot
  <2>1. /\ cache' = file /\ boot' = [left |-> Running(file), claimed |-> {}] /\ ~up
        /\ UNCHANGED <<job, flight, post, sentNow, unarmed, faults>>
    BY <1>3 DEF Boot, ghosts
  <2>2. Running(cache)' = Running(file) /\ boot'.left = Running(file)
    BY <2>1 DEF Running, Exists
  <2>3. unarmed = {}
    BY <1>1, <2>1 DEF ArmInv, Idle
  <2>4. ShareInv'
    BY <1>1, <2>1, <2>2 DEF ShareInv
  <2> QED
    BY <1>1, <2>1, <2>2, <2>3, <2>4 DEF ArmInv
<1>4. CASE Tick
  <2>1. /\ (up => Idle) /\ cache' = Later(cache) /\ sentNow' = {} /\ cache \in Store
        /\ job' = [c \in Ids |-> IF job[c].timer = NoTimer THEN job[c]
                                 ELSE [job[c] EXCEPT !.timer = Less(@)]]
        /\ UNCHANGED <<flight, post, up, boot, unarmed, faults>>
    BY <1>1, <1>4 DEF Tick, IInv, Types
  <2>2. /\ Running(cache)' = Running(cache)
        /\ \A c \in Running(cache) : cache'[c].master = cache[c].master
    <3>1. Running(cache)' = Running(cache')
      BY DEF Running, Exists
    <3> QED
      BY <2>1, <3>1, LaterKeepsStatus
  <2>3. ShareInv'
    BY <1>1, <2>1, <2>2 DEF ShareInv
  <2>4. ASSUME NEW c \in Ids
        PROVE  /\ job'[c] \in Job /\ job'[c].inFlight = job[c].inFlight
               /\ job[c].timer # NoTimer => job'[c].timer # NoTimer
    <3>1. CASE job[c].timer = NoTimer
      BY <1>1, <2>1, <3>1
    <3>2. CASE job[c].timer # NoTimer
      <4>1. job[c].timer \in 0..Horizon /\ job[c] \in Job
        BY <1>1, <3>2 DEF Job
      <4>2. Less(job[c].timer) \in 0..Horizon /\ Less(job[c].timer) # NoTimer
        BY <4>1, BoundAssumption, FileAssumption DEF Less
      <4>3. job'[c] = [job[c] EXCEPT !.timer = Less(job[c].timer)]
        BY <1>1, <2>1, <3>2
      <4> QED
        BY <4>1, <4>2, <4>3 DEF Job
    <3> QED
      BY <3>1, <3>2
  <2>5. job' \in [Ids -> Job]
    <3>1. job' = [c \in Ids |-> job'[c]]
      BY <2>1
    <3> QED
      BY <2>4, <3>1
  <2>6. Idle' = Idle
    BY <2>1 DEF Idle
  <2>7. \A c \in Running(cache) : c \in Ids
    BY DEF Running
  <2> QED
    BY <1>1, <2>1, <2>2, <2>3, <2>4, <2>5, <2>6, <2>7 DEF ArmInv
<1> QED
  BY <1>2, <1>3, <1>4
-----------------------------------------------------------------------------
LEMMA InitHolds ==
  ASSUME Init
  PROVE  IInv
<1>1. Types
  BY FileAssumption DEF Init, Types, Store, NoJob
<1>2. OneSendOut /\ ClaimedOnce(cache) /\ ClaimedOnce(file)
  BY FileAssumption DEF Init, OneSendOut, ClaimedOnce, Exists
<1> QED
  BY <1>1, <1>2 DEF Init, IInv, Record, Running, Exists

LEMMA StepKeeps ==
  ASSUME IInv, [Next]_vars
  PROVE  IInv'
<1>1. CASE Next
  <2>1. CASE Crash \/ Boot \/ BootOne \/ Tick
    BY <2>1, CrashKeeps, BootKeeps, BootOneKeeps, TickKeeps
  <2>2. ASSUME NEW c \in Ids,
               \/ \E m \in Masters, S \in SUBSET Seeds : Post(c, m, S)
               \/ \E s \in Seeds : Fire(c, s)
               \/ PostRefused(c) \/ Start(c) \/ FireInFlight(c) \/ SendSucceeds(c)
               \/ SendFails(c) \/ Pause(c) \/ Cancel(c) \/ Resume(c) \/ Rearm(c)
        PROVE  IInv'
    BY <2>2, AsideKeeps, FireKeeps, StartKeeps, SendSucceedsKeeps, SendFailsKeeps, OrderKeeps
  <2> QED
    BY <1>1, <2>1, <2>2 DEF Next
<1>2. CASE UNCHANGED vars
  BY <1>2 DEF vars, ghosts, IInv, Types, OneSendOut, ClaimedOnce, Exists, Planned,
              Running, Record, Sent
<1> QED
  BY <1>1, <1>2

LEMMA FullInitHolds ==
  ASSUME Init
  PROVE  FullInv
<1>1. IInv
  BY InitHolds
<1>2. /\ NoJob \in Job /\ ~NoJob.inFlight /\ NoJob.timer # 0 /\ job = [c \in Ids |-> NoJob]
      /\ \A c \in Ids : post[c] = NoPost
      /\ faults = 0 /\ unarmed = {} /\ sentNow = {} /\ boot.left = {} /\ ~up
  BY FileAssumption DEF Init, NoJob, Job
<1>3. Running(cache) = {}
  BY DEF Init, Running, Exists
<1>4. ShareInv /\ ArmInv
  BY <1>2, <1>3 DEF ShareInv, ArmInv
<1> QED
  BY <1>1, <1>4 DEF FullInv

LEMMA FullStepKeeps ==
  ASSUME FullInv, [Next]_vars
  PROVE  FullInv'
<1>1. IInv'
  BY StepKeeps DEF FullInv
<1>2. CASE Next
  <2>1. ASSUME Crash \/ Boot \/ BootOne \/ Tick
        PROVE  ShareInv' /\ ArmInv'
    BY <2>1, WorldKeepsTimers, BootOneKeepsTimers
  <2>2. ASSUME NEW c \in Ids,
               \/ \E m \in Masters, S \in SUBSET Seeds : Post(c, m, S)
               \/ \E s \in Seeds : Fire(c, s)
               \/ PostRefused(c) \/ Start(c) \/ FireInFlight(c) \/ SendSucceeds(c)
               \/ SendFails(c) \/ Pause(c) \/ Cancel(c) \/ Resume(c) \/ Rearm(c)
        PROVE  ShareInv' /\ ArmInv'
    BY <2>2, AsideKeepsTimers, StartKeepsTimers, SendKeepsTimers, OrderKeepsTimers
  <2>3. ShareInv' /\ ArmInv'
    BY <1>2, <2>1, <2>2 DEF Next
  <2> QED
    BY <1>1, <2>3 DEF FullInv
<1>3. CASE UNCHANGED vars
  <2>1. ShareInv' /\ ArmInv'
    BY <1>3 DEF vars, ghosts, FullInv, ShareInv, ArmInv, Running, Exists, Idle
  <2> QED
    BY <1>1, <2>1 DEF FullInv
<1> QED
  BY <1>2, <1>3

\* A seed wallet is paid once: whatever campaigns are posted, paused, resumed and
\* cancelled, whatever writes fail and wherever the process dies, no two sends to a
\* seed answer, save one whose record a crash lost (runner.js fire(), onSuccess();
\* routes/v4.js resolveCampaignStart()).
THEOREM PaidOnce == Spec => []FundedOnce
<1>1. Init => IInv
  BY InitHolds
<1>2. IInv /\ [Next]_vars => IInv'
  BY StepKeeps
<1>3. IInv => FundedOnce
  BY DEF IInv, Types, FundedOnce
<1> QED
  BY <1>1, <1>2, <1>3, PTL DEF Spec

\* As long as no write has failed, the campaigns that run once boot is over have a
\* funding wallet each, even when the file at boot had two on one: start() and
\* resume() ask first, resumeAll() parks the younger (runner.js).
THEOREM NoWalletIsShared == Spec => []RunningCampaignsShareNoWallet
<1>1. Init => FullInv
  BY FullInitHolds
<1>2. FullInv /\ [Next]_vars => FullInv'
  BY FullStepKeeps
<1>3. FullInv => RunningCampaignsShareNoWallet
  BY DEF FullInv, ShareInv, RunningCampaignsShareNoWallet, Idle
<1> QED
  BY <1>1, <1>2, <1>3, PTL DEF Spec

\* A campaign that says it runs has its timer set or a send out, whatever requests,
\* answers, failed writes and restarts came before, unless its own start, resume or
\* boot failed with an error (runner.js arm(), fire()'s tail, safeHalt(), resumeAll()).
THEOREM RunningIsArmed == Spec => []RunningMeansArmed
<1>1. Init => FullInv
  BY FullInitHolds
<1>2. FullInv /\ [Next]_vars => FullInv'
  BY FullStepKeeps
<1>3. FullInv => RunningMeansArmed
  BY DEF FullInv, ArmInv, RunningMeansArmed, Idle
<1> QED
  BY <1>1, <1>2, <1>3, PTL DEF Spec

\* Two sends of a campaign never leave at one instant: arm() points a timer only at
\* what is not overdue, so what a crash, a pause or a late timer left behind is
\* spread out (runner.js reslotOverdue(), arm(), fire()).
THEOREM SendsAreApart == Spec => NeverABurst
<1>1. Init => FullInv
  BY FullInitHolds
<1>2. FullInv /\ [Next]_vars => FullInv'
  BY FullStepKeeps
<1>3. FullInv /\ [Next]_vars =>
        [\A c \in Ids : Len(flight'[c]) > Len(flight[c]) => c \notin sentNow]_vars
  <2> SUFFICES ASSUME FullInv, Next, NEW d \in Ids, Len(flight'[d]) > Len(flight[d])
               PROVE  d \notin sentNow
    OBVIOUS
  <2>1. /\ Len(flight[d]) \in Nat /\ flight = [c \in Ids |-> flight[c]]
        /\ IInv /\ ArmInv
    <3>1. flight[d] \in Seq(Seeds)
      BY FlightIsSeq DEF FullInv
    <3> QED
      BY <3>1, LenProperties DEF FullInv, IInv, Types
  <2>2. flight' # flight
    BY <2>1
  <2>3. CASE Crash \/ Boot \/ BootOne \/ Tick
    <3>1. flight' = [c \in Ids |-> <<>>]
      BY <2>2, <2>3 DEF Crash, Boot, BootOne, Tick
    <3>2. Len(flight'[d]) = 0
      BY <3>1
    <3> QED
      BY <2>1, <3>2
  <2>4. ASSUME NEW c \in Ids, NEW s \in Seeds, Fire(c, s) PROVE d \notin sentNow
    <3>1. flight' = [flight EXCEPT ![c] = Append(@, s)] /\ job[c].timer = 0
      BY <2>4 DEF Fire
    <3>2. d = c
      BY <2>1, <3>1
    <3> QED
      BY <2>1, <3>1, <3>2 DEF ArmInv
  <2>5. ASSUME NEW c \in Ids, SendSucceeds(c) \/ SendFails(c) PROVE d \notin sentNow
    <3>1. PICK s \in Seeds : flight[c] = <<s>>
      BY <2>1, <2>5, OutIsPending DEF SendSucceeds, SendFails
    <3>2. flight' = [flight EXCEPT ![c] = Tail(@)]
      BY <2>5 DEF SendSucceeds, SendFails, Settle
    <3>3. Len(Tail(<<s>>)) = 0
      OBVIOUS
    <3>4. Len(flight'[d]) = 0 \/ flight'[d] = flight[d]
      BY <2>1, <3>1, <3>2, <3>3
    <3> QED
      BY <2>1, <3>4
  <2>6. ASSUME NEW c \in Ids,
               \/ \E m \in Masters, S \in SUBSET Seeds : Post(c, m, S)
               \/ PostRefused(c) \/ Start(c) \/ FireInFlight(c)
               \/ Pause(c) \/ Cancel(c) \/ Resume(c) \/ Rearm(c)
        PROVE  flight' = flight
    BY <2>6 DEF Post, PostRefused, Start, FireInFlight, Pause, Cancel, Resume, Rearm
  <2> QED
    BY <2>2, <2>3, <2>4, <2>5, <2>6 DEF Next
<1> QED
  BY <1>1, <1>2, <1>3, PTL DEF Spec, NeverABurst
=============================================================================
