------------------------------ MODULE VaultStore ------------------------------
(***************************************************************************)
(* The dApp account's vault store, backend/src/tp/vaultStore.js, as the    *)
(* account routes of backend/src/tp/account.js drive it.                   *)
(*                                                                         *)
(* One encrypted wallet list per address, a one-deep .prev beside it, the  *)
(* kept copies of deleted lists, and the revocations a DELETE leaves       *)
(* behind.  Writes run one at a time on a store-wide FIFO lane; every disk *)
(* step of a write is a step of its own here, so that a crash or a disk    *)
(* error falls between any two of them.                                    *)
(*                                                                         *)
(* A ciphertext is a blob with a size; its iv and kv are not told apart.   *)
(* A line of revoked.log is one unit of the log's cap.                     *)
(***************************************************************************)
EXTENDS Integers, Sequences, FiniteSets, FiniteSetsExt

CONSTANTS
  Addr,           \* the account addresses
  KeyIds,         \* public ids of the encryption keys
  Blobs,          \* the ciphertexts
  Size,           \* [Blobs -> bytes of the record that holds it]
  NoRec,          \* no file
  MaxPending,     \* maxPending: writes in the lane before 503
  MaxAccounts,    \* lim.maxAccounts
  LiveBudget,     \* liveBudget: maxTotalBytes - maxDeletedBytes
  DeletedBudget,  \* lim.maxDeletedBytes
  KeepDeleted,    \* lim.keepDeletedMs, in ticks; 0 erases at once
  LogCap,         \* lim.revokedLogMaxBytes, in lines
  SessionTTL,     \* SESSION_TTL_MS, in ticks
  RevocationKeep, \* REVOCATION_KEEP_MS, in ticks
  LaneWait,       \* environment: ticks a write may spend in the lane
  Tears,          \* environment: an interrupted append may leave half a line
  MaxClock, MaxSessions, MaxRev, MaxRequests, MaxFaults, MaxCrashes  \* bounds

\* Addresses are 20 bytes.
ASSUME AddrAssumption == IsFiniteSet(Addr)
ASSUME SizeAssumption == Size \in [Blobs -> Nat \ {0}]
ASSUME NoRecAssumption ==
  /\ NoRec \notin [rev: Nat, writer: Nat, keyId: KeyIds, ct: Blobs]
  /\ NoRec \notin [rev: Nat, keyId: KeyIds, ct: Blobs]
ASSUME LimitAssumption ==
  /\ {MaxPending, MaxAccounts, LiveBudget, DeletedBudget, KeepDeleted,
      LogCap, SessionTTL, LaneWait, MaxClock, MaxSessions, MaxRev, MaxRequests,
      MaxFaults, MaxCrashes} \subseteq Nat
  /\ RevocationKeep \in Nat
  /\ Tears \in BOOLEAN

Max2(a, b) == IF a > b THEN a ELSE b

\* The record put() writes: its rev, the issue time of the session that wrote
\* it, the id of the key it is locked with, and the ciphertext.
Record == [rev: Nat, writer: Nat, keyId: KeyIds, ct: Blobs]
File == Record \cup {NoRec}

Rev(f) == IF f = NoRec THEN 0 ELSE f.rev
Bytes(f) == IF f = NoRec THEN 0 ELSE Size[f.ct]

\* A directory of deleted/: the list and its .prev as they were.
Copy == [addr: Addr, at: Nat, cur: File, prev: File]
CopyBytes(d) == Bytes(d.cur) + Bytes(d.prev)

\* A line of revoked.log that parses.
Line == [addr: Addr, at: Nat]

PutRequest == [op: {"put"}, addr: Addr, writer: Nat, baseRev: Nat,
               keyId: KeyIds, ct: Blobs, since: Nat]
DeleteRequest == [op: {"delete"}, addr: Addr, writer: Nat, baseRev: Nat, since: Nat]
PurgeRequest == [op: {"purge"}, since: Nat]
Request == PutRequest \cup DeleteRequest \cup PurgeRequest

VARIABLES
  clock,        \* now()
  sessions,     \* the session tokens clients hold: [addr, iat]
  up,           \* openStore has run in this process
  queue,        \* the write lane: the request that runs, then those that wait
  pc,           \* the next disk step of the request that runs
  job,          \* what that request read or decided before an await
  main,         \* vaults/<a>.json
  prev,         \* vaults/<a>.json.prev
  deleted,      \* deleted/ on disk, and the map that mirrors it
  revoked,      \* the map of revocations in memory (0: none)
  snap,         \* revoked.json (0: not in it)
  log,          \* the lines of revoked.log that parse, in order
  torn,         \* revoked.log ends in half a line
  logBytes,     \* revokedLogBytes
  tally,        \* accounts, liveBytes and deletedBytes
  answer,       \* the last answer the lane gave, until the next request
  acked,        \* history: the revocation time of the last DELETE answered
  issued, faults, crashes  \* counters of the bounds

diskVars == <<main, prev, deleted, snap, log, torn>>
memVars == <<up, revoked, logBytes, tally>>
laneVars == <<queue, pc, job>>
histVars == <<acked>>
boundVars == <<issued, faults, crashes>>
vars == <<clock, sessions, diskVars, memVars, laneVars, answer, histVars, boundVars>>

NoJob == [at |-> 0, old |-> NoRec, prev |-> NoRec, kept |-> {}, trim |-> {}]
NoAnswer == [op |-> "none", result |-> "none"]
EmptyTally == [accounts |-> 0, live |-> 0, deleted |-> 0]

Init ==
  /\ clock = 1
  /\ sessions = {}
  /\ up = TRUE
  /\ queue = <<>> /\ pc = "idle" /\ job = NoJob
  /\ main = [a \in Addr |-> NoRec]
  /\ prev = [a \in Addr |-> NoRec]
  /\ deleted = {}
  /\ revoked = [a \in Addr |-> 0]
  /\ snap = [a \in Addr |-> 0]
  /\ log = <<>> /\ torn = FALSE /\ logBytes = 0
  /\ tally = EmptyTally
  /\ answer = NoAnswer
  /\ acked = [a \in Addr |-> 0]
  /\ issued = 0 /\ faults = 0 /\ crashes = 0

-----------------------------------------------------------------------------
(* Sessions and admission: account.js *)

SessionLive(s) == clock < s.iat + SessionTTL

\* Sessions of a issued at or before it are revoked.
NotBefore(a) == IF revoked[a] < clock - RevocationKeep THEN 0 ELSE revoked[a]

\* requireSession
Admitted(s) == SessionLive(s) /\ s.iat > NotBefore(s.addr)

Login(a) ==
  /\ Cardinality(sessions) < MaxSessions
  /\ [addr |-> a, iat |-> clock] \notin sessions
  /\ sessions' = sessions \cup {[addr |-> a, iat |-> clock]}
  /\ UNCHANGED <<clock, diskVars, memVars, laneVars, answer, histVars, boundVars>>

\* POST /logout only clears the cookie: the client forgets a token that stays good.
Logout(s) ==
  /\ sessions' = sessions \ {s}
  /\ UNCHANGED <<clock, diskVars, memVars, laneVars, answer, histVars, boundVars>>

\* inLane: a request joins the lane, unless MaxPending already wait or run.
Enqueue(r) ==
  /\ up
  /\ issued < MaxRequests
  /\ Len(queue) < MaxPending
  /\ queue' = Append(queue, r)
  /\ issued' = issued + 1
  /\ answer' = NoAnswer
  /\ UNCHANGED <<clock, sessions, diskVars, memVars, pc, job, histVars, faults, crashes>>

\* PUT /vault, with any baseRev the client may have read.
AskPut(s, base, k, c) ==
  /\ Admitted(s)
  /\ Enqueue([op |-> "put", addr |-> s.addr, writer |-> s.iat, baseRev |-> base,
              keyId |-> k, ct |-> c, since |-> clock])

\* DELETE /vault
AskDelete(s, base) ==
  /\ Admitted(s)
  /\ Enqueue([op |-> "delete", addr |-> s.addr, writer |-> s.iat, baseRev |-> base,
              since |-> clock])

Expired(d) == KeepDeleted = 0 \/ d.at + KeepDeleted <= clock

\* maybePurge: a read that finds a kept copy expired has it erased in the lane.
AskPurge ==
  /\ \E d \in deleted : Expired(d)
  /\ Enqueue([op |-> "purge", since |-> clock])

-----------------------------------------------------------------------------
(* The write lane *)

Req == Head(queue)
Starts(op) == up /\ pc = "idle" /\ queue # <<>> /\ Req.op = op

\* The request that runs is answered, and the lane goes on whatever the answer.
Finish(result) ==
  /\ answer' = [op |-> Req.op, result |-> result]
  /\ queue' = Tail(queue)
  /\ pc' = "idle"
  /\ job' = NoJob

Goto(step) == pc' = step /\ UNCHANGED <<queue, answer>>

Erase(S) ==
  /\ deleted' = deleted \ S
  /\ tally' = [tally EXCEPT !.deleted = @ - MapThenSumSet(CopyBytes, S)]

Purge == Erase({d \in deleted : Expired(d)})

\* refuseRevoked: a DELETE that ran while this request waited revoked its session.
RefuseRevoked ==
  /\ Starts("put") \/ Starts("delete")
  /\ Req.writer <= revoked[Req.addr]
  /\ Finish("no_session")
  /\ UNCHANGED <<clock, sessions, diskVars, memVars, histVars, boundVars>>

RunPurge ==
  /\ Starts("purge")
  /\ Purge
  /\ Finish("purged")
  /\ UNCHANGED <<clock, sessions, main, prev, snap, log, torn, up, revoked, logBytes,
                 histVars, boundVars>>

-----------------------------------------------------------------------------
(* put *)

\* Mutant: every write rotates.
RotatesAlways(r) == main[r.addr] # NoRec

\* .prev takes the outgoing version only when another session wrote it, or when
\* there is no .prev yet.
Rotates(r) ==
  /\ main[r.addr] # NoRec
  /\ prev[r.addr] = NoRec \/ main[r.addr].writer # r.writer

Growth(r) ==
  Size[r.ct] - Bytes(main[r.addr])
    + IF Rotates(r) THEN Bytes(main[r.addr]) - Bytes(prev[r.addr]) ELSE 0

\* Mutant: the key of the list is not compared.
VerdictOnAnyKey(r) ==
  IF r.baseRev # Rev(main[r.addr]) THEN "conflict"
  ELSE IF main[r.addr] = NoRec /\ tally.accounts >= MaxAccounts THEN "store_full"
  ELSE IF Growth(r) > 0 /\ tally.live + Growth(r) > LiveBudget THEN "store_full"
  ELSE "ok"

PutVerdict(r) ==
  IF r.baseRev # Rev(main[r.addr]) THEN "conflict"
  ELSE IF main[r.addr] # NoRec /\ main[r.addr].keyId # r.keyId THEN "key_mismatch"
  ELSE IF main[r.addr] = NoRec /\ tally.accounts >= MaxAccounts THEN "store_full"
  ELSE IF Growth(r) > 0 /\ tally.live + Growth(r) > LiveBudget THEN "store_full"
  ELSE "ok"

\* Mutant: revocations are read when the request arrives, and not again in the lane.
PutAllowedUnchecked == Starts("put")

PutAllowed == Starts("put") /\ Req.writer > revoked[Req.addr]

RefusePut ==
  /\ PutAllowed
  /\ Purge
  /\ \/ PutVerdict(Req) # "ok" /\ Finish(PutVerdict(Req))
     \/ \* beforeCreate: this client's creates are used up
        /\ PutVerdict(Req) = "ok" /\ main[Req.addr] = NoRec
        /\ Finish("rate_limited")
  /\ UNCHANGED <<clock, sessions, main, prev, snap, log, torn, up, revoked, logBytes,
                 histVars, boundVars>>

\* Everything read and checked up to the first write: only the lane changes it.
StartPut ==
  /\ PutAllowed
  /\ PutVerdict(Req) = "ok"
  /\ Purge
  /\ job' = [NoJob EXCEPT !.old = main[Req.addr], !.prev = prev[Req.addr]]
  /\ Goto(IF Rotates(Req) THEN "rotate" ELSE "write")
  /\ UNCHANGED <<clock, sessions, main, prev, snap, log, torn, up, revoked, logBytes,
                 histVars, boundVars>>

RotatePrev ==
  /\ pc = "rotate"
  /\ prev' = [prev EXCEPT ![Req.addr] = job.old]
  /\ tally' = [tally EXCEPT !.live = @ + Bytes(job.old) - Bytes(job.prev)]
  /\ Goto("write")
  /\ UNCHANGED <<clock, sessions, main, deleted, snap, log, torn, up, revoked, logBytes,
                 job, histVars, boundVars>>

\* Mutant: an update counts as one more account.
WriteMainAsCreate ==
  /\ pc = "write"
  /\ main' = [main EXCEPT ![Req.addr] =
       [rev |-> Rev(job.old) + 1, writer |-> Req.writer, keyId |-> Req.keyId, ct |-> Req.ct]]
  /\ tally' = [tally EXCEPT !.live = @ + Size[Req.ct] - Bytes(job.old), !.accounts = @ + 1]
  /\ Finish("ok")
  /\ UNCHANGED <<clock, sessions, prev, deleted, snap, log, torn, up, revoked, logBytes,
                 histVars, boundVars>>

WriteMain ==
  /\ pc = "write"
  /\ main' = [main EXCEPT ![Req.addr] =
       [rev |-> Rev(job.old) + 1, writer |-> Req.writer, keyId |-> Req.keyId, ct |-> Req.ct]]
  /\ tally' = [tally EXCEPT !.live = @ + Size[Req.ct] - Bytes(job.old),
                            !.accounts = IF job.old = NoRec THEN @ + 1 ELSE @]
  /\ Finish("ok")
  /\ UNCHANGED <<clock, sessions, prev, deleted, snap, log, torn, up, revoked, logBytes,
                 acked, boundVars>>

-----------------------------------------------------------------------------
(* remove: revoke first, then keep a copy, then unlink *)

DeleteAllowed == Starts("delete") /\ Req.writer > revoked[Req.addr]

RefuseDelete ==
  /\ DeleteAllowed
  /\ Req.baseRev # Rev(main[Req.addr])
  /\ Finish("conflict")
  /\ UNCHANGED <<clock, sessions, diskVars, memVars, histVars, boundVars>>

StartDelete ==
  /\ DeleteAllowed
  /\ Req.baseRev = Rev(main[Req.addr])
  /\ revoked' = [revoked EXCEPT ![Req.addr] = clock]
  /\ job' = [NoJob EXCEPT !.at = clock, !.old = main[Req.addr]]
  /\ Goto(IF logBytes + 1 > LogCap THEN "snapshot" ELSE "append")
  /\ UNCHANGED <<clock, sessions, diskVars, up, logBytes, tally, histVars, boundVars>>

\* The revocation's line.  After half a line with no newline it completes a line
\* that does not parse, and is not read back.
LogWith(l) == IF torn THEN log ELSE Append(log, l)

AppendRevocation ==
  /\ pc = "append"
  /\ log' = LogWith([addr |-> Req.addr, at |-> job.at])
  /\ torn' = FALSE
  /\ logBytes' = logBytes + 1
  /\ Goto("gather")
  /\ UNCHANGED <<clock, sessions, main, prev, deleted, snap, up, revoked, tally, job,
                 histVars, boundVars>>

\* Mutant: a revocation is forgotten at once.
PrunedAll(rv) == [a \in Addr |-> IF rv[a] <= clock THEN 0 ELSE rv[a]]

\* pruneRevoked: forget revocations older than any session still live.
Pruned(rv) == [a \in Addr |-> IF rv[a] < clock - RevocationKeep THEN 0 ELSE rv[a]]

\* The log is at its cap: the whole map becomes the snapshot ...
WriteSnapshot ==
  /\ pc = "snapshot"
  /\ revoked' = Pruned(revoked)
  /\ snap' = Pruned(revoked)
  /\ Goto("unlinkLog")
  /\ UNCHANGED <<clock, sessions, main, prev, deleted, log, torn, up, logBytes, tally,
                 job, histVars, boundVars>>

\* ... and then the log goes.  An error here is ignored.
UnlinkLog ==
  /\ pc = "unlinkLog"
  /\ \/ log' = <<>> /\ torn' = FALSE /\ UNCHANGED faults
     \/ faults < MaxFaults /\ faults' = faults + 1 /\ UNCHANGED <<log, torn>>
  /\ logBytes' = 0
  /\ Goto("gather")
  /\ UNCHANGED <<clock, sessions, main, prev, deleted, snap, up, revoked, tally, job,
                 histVars, issued, crashes>>

KeptFor(a) == {d \in deleted : d.addr = a}
Oldest(S) == {d \in S : \A e \in S : d.at <= e.at}

\* Every kept copy of a but the first.
ButFirst(S) == {d \in S : \E e \in S : e.at < d.at}

AfterTrim == IF job.prev # NoRec THEN "unlinkPrev" ELSE "unlinkMain"

\* Expired copies go, and .prev is read.
GatherDeleted ==
  /\ pc = "gather"
  /\ Purge
  /\ \/ /\ main[Req.addr] = NoRec /\ prev[Req.addr] = NoRec
        /\ Finish("nothing")
        /\ acked' = [acked EXCEPT ![Req.addr] = job.at]
     \/ /\ main[Req.addr] # NoRec \/ prev[Req.addr] # NoRec
        /\ job' = [job EXCEPT !.prev = prev[Req.addr]]
        /\ Goto(IF KeepDeleted > 0 THEN "room"
                ELSE IF prev[Req.addr] # NoRec THEN "unlinkPrev" ELSE "unlinkMain")
        /\ UNCHANGED acked
  /\ UNCHANGED <<clock, sessions, main, prev, snap, log, torn, up, revoked, logBytes,
                 boundVars>>

NewCopyBytes == Bytes(job.old) + Bytes(job.prev)
Crowded(held) == held + NewCopyBytes > DeletedBudget

\* The kept copies of the address are listed, and makeDeletedRoom begins: expired
\* copies first ...
MakeRoom ==
  /\ pc = "room"
  /\ job' = [job EXCEPT !.kept = KeptFor(Req.addr), !.trim = ButFirst(KeptFor(Req.addr))]
  /\ IF Crowded(tally.deleted) THEN Purge ELSE UNCHANGED <<deleted, tally>>
  /\ Goto(IF Crowded(tally'.deleted) /\ deleted' # {} THEN "evict" ELSE "keep")
  /\ UNCHANGED <<clock, sessions, main, prev, snap, log, torn, up, revoked, logBytes,
                 histVars, boundVars>>

\* ... then the oldest that can be spared: no address's first copy before the
\* later copies of every address.
Spare == UNION {ButFirst(KeptFor(a)) : a \in Addr}

NextToEvict == IF Spare # {} THEN Oldest(Spare) ELSE Oldest(deleted)

Evict ==
  /\ pc = "evict"
  /\ \E d \in NextToEvict : Erase({d})
  /\ Goto(IF Crowded(tally'.deleted) /\ deleted' # {} THEN "evict" ELSE "keep")
  /\ UNCHANGED <<clock, sessions, main, prev, snap, log, torn, up, revoked, logBytes,
                 job, histVars, boundVars>>

\* keepDeleted: the copy is built aside and renamed in whole, under the first time
\* from now on that no other copy of the address has.
Taken(a, t) == \E d \in deleted : d.addr = a /\ d.at = t
FreeTimes(a) == {t \in clock..(clock + Cardinality(deleted)) :
                   ~ Taken(a, t) /\ \A u \in clock..(t - 1) : Taken(a, u)}

\* Mutant: the copy is of the list alone, without its .prev.
KeepListOnly ==
  /\ pc = "keep"
  /\ \E t \in FreeTimes(Req.addr) :
       deleted' = deleted \cup {[addr |-> Req.addr, at |-> t,
                                 cur |-> job.old, prev |-> NoRec]}
  /\ tally' = [tally EXCEPT !.deleted = @ + Bytes(job.old)]
  /\ Goto(IF job.trim # {} THEN "trim" ELSE AfterTrim)
  /\ UNCHANGED <<clock, sessions, main, prev, snap, log, torn, up, revoked, logBytes,
                 job, histVars, boundVars>>

KeepCopy ==
  /\ pc = "keep"
  /\ \E t \in FreeTimes(Req.addr) :
       deleted' = deleted \cup {[addr |-> Req.addr, at |-> t,
                                 cur |-> job.old, prev |-> job.prev]}
  /\ tally' = [tally EXCEPT !.deleted = @ + NewCopyBytes]
  /\ Goto(IF job.trim # {} THEN "trim" ELSE AfterTrim)
  /\ UNCHANGED <<clock, sessions, main, prev, snap, log, torn, up, revoked, logBytes,
                 job, histVars, boundVars>>

\* The copies the new one replaces go, oldest first, each under the name <a>.<at>
\* it was listed with.  eraseKept of a name that is no longer in the map reads a
\* field of undefined and throws.
Named(d) == {e \in deleted : e.addr = d.addr /\ e.at = d.at}

\* Mutant: a copy that is not there is looked for until it is.
TrimCopyRetries ==
  /\ pc = "trim"
  /\ \E d \in Oldest(job.trim) :
       IF Named(d) # {}
       THEN /\ Erase(Named(d))
            /\ job' = [job EXCEPT !.trim = @ \ {d}]
            /\ Goto(IF job.trim = {d} THEN AfterTrim ELSE "trim")
       ELSE Goto("trim") /\ UNCHANGED <<deleted, tally, job>>
  /\ UNCHANGED <<clock, sessions, main, prev, snap, log, torn, up, revoked, logBytes,
                 histVars, boundVars>>

TrimCopy ==
  /\ pc = "trim"
  /\ \E d \in Oldest(job.trim) :
       \/ /\ Named(d) # {}
          /\ Erase(Named(d))
          /\ job' = [job EXCEPT !.trim = @ \ {d}]
          /\ Goto(IF job.trim = {d} THEN AfterTrim ELSE "trim")
       \/ /\ Named(d) = {}
          /\ Finish("unavailable")
          /\ UNCHANGED <<deleted, tally>>
  /\ UNCHANGED <<clock, sessions, main, prev, snap, log, torn, up, revoked, logBytes,
                 histVars, boundVars>>

UnlinkPrev ==
  /\ pc = "unlinkPrev"
  /\ prev' = [prev EXCEPT ![Req.addr] = NoRec]
  /\ tally' = [tally EXCEPT !.live = @ - Bytes(job.prev)]
  /\ Goto("unlinkMain")
  /\ UNCHANGED <<clock, sessions, main, deleted, snap, log, torn, up, revoked, logBytes,
                 job, histVars, boundVars>>

UnlinkMain ==
  /\ pc = "unlinkMain"
  /\ main' = [main EXCEPT ![Req.addr] = NoRec]
  /\ tally' = [tally EXCEPT !.live = @ - Bytes(job.old),
                            !.accounts = IF job.old # NoRec THEN @ - 1 ELSE @]
  /\ acked' = [acked EXCEPT ![Req.addr] = job.at]
  /\ Finish(IF job.old # NoRec THEN "deleted" ELSE "nothing")
  /\ UNCHANGED <<clock, sessions, prev, deleted, snap, log, torn, up, revoked, logBytes,
                 boundVars>>

-----------------------------------------------------------------------------
(* Disk errors, crashes, restarts, time *)

\* An append that is interrupted leaves the log as it was, holds the line in
\* full, or ends in half of it.
InterruptedAppend ==
  LET l == [addr |-> Req.addr, at |-> job.at] IN
  \/ UNCHANGED <<log, torn>>
  \/ log' = LogWith(l) /\ torn' = FALSE
  \/ Tears /\ torn' = TRUE /\ UNCHANGED log

\* A disk error answers 503 'unavailable', and what was written before it stays.
DiskError ==
  /\ faults < MaxFaults
  /\ faults' = faults + 1
  /\ \/ (PutAllowed \/ DeleteAllowed \/ Starts("purge")) /\ UNCHANGED <<log, torn>>
     \/ pc \in {"rotate", "write", "snapshot", "gather", "evict", "keep", "trim",
                "unlinkPrev", "unlinkMain"} /\ UNCHANGED <<log, torn>>
     \/ pc = "append" /\ InterruptedAppend
  /\ Finish("unavailable")
  /\ UNCHANGED <<clock, sessions, main, prev, deleted, snap, memVars, histVars, issued,
                 crashes>>

\* The process stops between two disk steps, or in the middle of an append.
\* What was in memory is gone, the requests of the lane with it.
Crash ==
  /\ up
  /\ crashes < MaxCrashes
  /\ crashes' = crashes + 1
  /\ up' = FALSE
  /\ queue' = <<>> /\ pc' = "idle" /\ job' = NoJob
  /\ revoked' = [a \in Addr |-> 0]
  /\ logBytes' = 0
  /\ tally' = EmptyTally
  /\ IF pc = "append" THEN InterruptedAppend ELSE UNCHANGED <<log, torn>>
  /\ UNCHANGED <<clock, sessions, main, prev, deleted, snap, answer, histVars, issued,
                 faults>>

\* The snapshot, with the log's lines replayed over it: the last line wins.
Replayed == [a \in Addr |->
  LET lines == {i \in 1..Len(log) : log[i].addr = a}
  IN  IF lines = {} THEN snap[a]
      ELSE log[CHOOSE i \in lines : \A j \in lines : j <= i].at]

LiveBytesOf(a) == Bytes(main[a]) + Bytes(prev[a])

\* openStore: tally what is on disk, load the revocations, erase what expired.
Restart ==
  /\ ~up
  /\ up' = TRUE
  /\ revoked' = [a \in Addr |-> IF Replayed[a] < clock - RevocationKeep THEN 0
                                ELSE Replayed[a]]
  /\ logBytes' = Len(log)
  /\ deleted' = {d \in deleted : ~Expired(d)}
  /\ tally' = [accounts |-> Cardinality({a \in Addr : main[a] # NoRec}),
               live |-> MapThenSumSet(LiveBytesOf, Addr),
               deleted |-> MapThenSumSet(CopyBytes, deleted')]
  /\ UNCHANGED <<clock, sessions, main, prev, snap, log, torn, laneVars, answer,
                 histVars, boundVars>>

\* No write spends more than LaneWait in the lane.
Tick ==
  /\ clock < MaxClock
  /\ \A i \in 1..Len(queue) : clock < queue[i].since + LaneWait
  /\ clock' = clock + 1
  /\ UNCHANGED <<sessions, diskVars, memVars, laneVars, answer, histVars, boundVars>>

-----------------------------------------------------------------------------

LaneStep ==
  \/ RefuseRevoked \/ RunPurge
  \/ RefusePut \/ StartPut \/ RotatePrev \/ WriteMain
  \/ RefuseDelete \/ StartDelete \/ AppendRevocation \/ WriteSnapshot \/ UnlinkLog
  \/ GatherDeleted \/ MakeRoom \/ Evict \/ KeepCopy \/ TrimCopy
  \/ UnlinkPrev \/ UnlinkMain

Ask ==
  \/ \E s \in sessions, base \in 0..MaxRev :
       AskDelete(s, base) \/ \E k \in KeyIds, c \in Blobs : AskPut(s, base, k, c)
  \/ AskPurge

Next ==
  \/ \E a \in Addr : Login(a)
  \/ \E s \in sessions : Logout(s)
  \/ Ask
  \/ LaneStep
  \/ DiskError \/ Crash \/ Restart
  \/ Tick

Spec == Init /\ [][Next]_vars

\* The lane is a promise chain on Node's event loop: what is at its head goes on
\* as soon as its disk call settles, and every disk call settles.
Fairness == WF_vars(LaneStep) /\ WF_vars(Restart)
FairSpec == Spec /\ Fairness

-----------------------------------------------------------------------------
(* Properties *)

JobType == [at: Nat, old: File, prev: File, kept: SUBSET Copy, trim: SUBSET Copy]
Steps == {"idle", "rotate", "write", "append", "snapshot", "unlinkLog", "gather", "room",
          "evict", "keep", "trim", "unlinkPrev", "unlinkMain"}

StoreTypeOK ==
  /\ clock \in Nat
  /\ sessions \subseteq [addr: Addr, iat: Nat]
  /\ up \in BOOLEAN
  /\ queue \in Seq(Request)
  /\ pc \in Steps
  /\ job \in JobType
  /\ main \in [Addr -> File] /\ prev \in [Addr -> File]
  /\ deleted \subseteq Copy
  /\ revoked \in [Addr -> Nat] /\ snap \in [Addr -> Nat] /\ acked \in [Addr -> Nat]
  /\ log \in Seq(Line) /\ torn \in BOOLEAN
  /\ logBytes \in Nat

\* The types of the store's state: what each file, map and counter can hold.
TypeOK ==
  /\ StoreTypeOK
  /\ tally \in [accounts: Nat, live: Nat, deleted: Nat]

PutSteps == {"rotate", "write"}
CopySteps == {"room", "evict", "keep", "trim", "unlinkPrev"}
DeleteSteps == {"append", "snapshot", "unlinkLog", "gather", "unlinkMain"} \cup CopySteps

\* A step past the head of a write belongs to a request of the lane that asked
\* for it.
LaneShape ==
  /\ pc # "idle" => queue # <<>>
  /\ pc \in PutSteps => Req \in PutRequest
  /\ pc \in DeleteSteps => Req \in DeleteRequest

\* A .prev stands beside a list, and is an older version or a copy of it.
PrevIsOlder ==
  \A a \in Addr : prev[a] # NoRec =>
    main[a] # NoRec /\ (prev[a] = main[a] \/ prev[a].rev < main[a].rev)

\* The inductive invariant of the lane.  Between two disk steps of the request at
\* its head: what that request read is still what is on disk, the checks it
\* passed still pass, and an outgoing version of another session is in .prev
\* before it is written over.
LaneInv ==
  /\ LaneShape
  /\ pc # "idle" => /\ job.old = main[Req.addr]
                    /\ Req.baseRev = Rev(main[Req.addr])
  /\ pc \in PutSteps /\ main[Req.addr] # NoRec => main[Req.addr].keyId = Req.keyId
  /\ pc = "rotate" => Rotates(Req)
  /\ pc = "write" => \/ main[Req.addr] = NoRec
                     \/ main[Req.addr].writer = Req.writer
                     \/ prev[Req.addr] = main[Req.addr]
  /\ pc \in CopySteps => job.prev = prev[Req.addr]
  /\ pc = "unlinkMain" => prev[Req.addr] = NoRec
  /\ PrevIsOlder

\* A write or a DELETE that lands names the rev of the very list it replaces or
\* takes away, and a write keeps its key: between the check at the head of the
\* lane and the rename that lands it, nothing else changed the list.
ChangeNamesTheRevItReplaces ==
  [][\A a \in Addr : main'[a] # main[a] =>
       /\ Req.addr = a
       /\ Req.baseRev = Rev(main[a])
       /\ main'[a] # NoRec /\ main[a] # NoRec => main'[a].keyId = main[a].keyId]_vars

\* What a client reads.
Shown == [a \in Addr |->
  IF main[a] = NoRec THEN NoRec
  ELSE [rev |-> main[a].rev, keyId |-> main[a].keyId, ct |-> main[a].ct]]

Register == INSTANCE VaultRegister
              WITH list <- Shown, Contents <- Blobs, Account <- Addr, Keys <- KeyIds, NoList <- NoRec

\* With its lane, its files, its errors and its crashes, the store is a register
\* of one list per address that changes in one step: rev by rev, under one key
\* for as long as it stands, or away.
ImplementsRegister == Register!RegisterSpec

\* Once a DELETE of an address has been answered, no session issued up to that
\* DELETE changes its list again, also not a request that was already queued, and
\* also not after a crash and a restart.
RevokedSessionChangesNothing ==
  [][\A a \in Addr : main'[a] # main[a] => Req.writer > acked[a]]_vars

\* A listed copy of the address is named after a time that has not gone by: the
\* address was deleted in the same instant before, or the clock went back.
NameStillToCome(a) == \E e \in job.kept : e.addr = a /\ job.at <= e.at

\* No list and no .prev is unlinked before a copy of both is down in deleted/:
\* whatever step a DELETE is stopped at, what it was to take away can be restored.
\* (Except: evicting a listed copy to make room frees its name, and when the new copy
\* takes that name it is erased as the listed one.)
DeletedListIsKept ==
  [][\A a \in Addr :
       /\ main[a] # NoRec /\ main'[a] = NoRec =>
            \/ \E d \in deleted' : d.addr = a /\ d.cur = main[a] /\ d.prev = job.prev
            \/ NameStillToCome(a)
       /\ prev[a] # NoRec /\ prev'[a] = NoRec =>
            \/ \E d \in deleted' : d.addr = a /\ d.cur = main[a] /\ d.prev = prev[a]
            \/ NameStillToCome(a)]_vars

First(d, S) == \A e \in S : e.addr = d.addr => d.at <= e.at

\* The first kept copy of an address goes only when its time is up, or when
\* deleted/ is too full and every copy in it is the first of its address: a later
\* deletion, of this address or of another, never flushes it while a later copy
\* of anyone can be spared.  (A DELETE that had listed an older copy, whose time
\* ran out meanwhile, may still take this one for a later copy.)
FirstCopyOutlivesLaterOnes ==
  [][\A d \in deleted \ deleted' : First(d, deleted) =>
       \/ Expired(d)
       \/ Crowded(tally.deleted) /\ \A e \in deleted : First(e, deleted)
       \/ \E e \in job.kept : e.addr = d.addr /\ e.at < d.at]_vars

\* One session, however many writes, and whatever write of its fails halfway,
\* never takes away the newest version on disk that another session wrote.
NewestOther(a, w) ==
  {f \in {main[a], prev[a]} \ {NoRec} : f.writer # w
     /\ \A g \in {main[a], prev[a]} \ {NoRec} : g.writer # w => g.rev <= f.rev}
OneSessionKeepsTheOthersVersion ==
  [][(pc \in {"rotate", "write"} =>
        NewestOther(Req.addr, Req.writer) \subseteq {main'[Req.addr], prev'[Req.addr]})]_vars

\* The tallies the caps are checked against are what is on disk after every
\* step of every write, with failures between them, and after a restart.
TallyMatchesDisk ==
  up => tally = [accounts |-> Cardinality({a \in Addr : main[a] # NoRec}),
                 live |-> MapThenSumSet(LiveBytesOf, Addr),
                 deleted |-> MapThenSumSet(CopyBytes, deleted)]

\* A list goes only after the revocation of its sessions is on disk where a
\* restart finds it.
RevocationIsDownFirst ==
  [][\A a \in Addr : main[a] # NoRec /\ main'[a] = NoRec => Replayed[a] >= job.at]_vars

\* What the compacted snapshot holds is still in force after a restart.
SnapshotSurvivesRestart ==
  up => \A a \in Addr : snap[a] < clock - RevocationKeep \/ revoked[a] >= snap[a]

\* With the disk working, no DELETE is answered 'unavailable'.
DeleteIsNotRefused ==
  faults = 0 => answer # [op |-> "delete", result |-> "unavailable"]

\* The lane never wedges: every request in it is answered, or dropped by a crash.
LaneDrains == queue # <<>> ~> queue = <<>>
=============================================================================
