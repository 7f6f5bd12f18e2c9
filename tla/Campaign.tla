------------------------------- MODULE Campaign -------------------------------
(***************************************************************************)
(* V4's seasoning campaigns: backend/src/v4/runner.js over the campaign    *)
(* store of backend/src/v4/store.js, started by backend/src/routes/v4.js   *)
(* and re-armed at boot by backend/server.js.                              *)
(*                                                                         *)
(* A campaign pays every seed wallet of its plan once, from one funding    *)
(* wallet, over weeks.  The store is a cache over one file: a change goes  *)
(* into the cache first and persist() then writes the whole cache, so a    *)
(* write that fails leaves the change in memory and throws.  A job holds a *)
(* timer and the in-flight flag and nothing else; a crash loses the cache, *)
(* the jobs, the sends in flight and the POSTs that wait for the chain.    *)
(*                                                                         *)
(* Times are countdowns: a due of 0 is overdue.  One user; a split         *)
(* campaign differs only in claiming no seeds and is left out.             *)
(***************************************************************************)
EXTENDS Integers, Sequences, FiniteSets, SequencesExt

CONSTANTS
  Ids,         \* campaign ids; each is a fresh UUID, created at most once
  Masters,     \* the v4master wallets
  Seeds,       \* the v4seed wallets
  MaxAttempts, \* MAX_ATTEMPTS: failed sends of one transfer
  HaltAfter,   \* HALT_AFTER_CONSECUTIVE_FAILURES
  Horizon,     \* the latest slot a dueAt is put in, in ticks from now
  Files,       \* what the data directory may hold at the first boot
  NoCampaign, NoTimer, NoPost,
  MaxRequests, MaxFaults, MaxCrashes  \* bounds

Statuses == {"running", "paused", "halted", "complete", "cancelled"}
\* "none": the plan does not name the seed.  Due is 0 unless pending.
Transfer == {t \in [st: {"none", "pending", "sent", "abandoned"},
                    att: 0..MaxAttempts, due: 0..Horizon] :
               t.st = "pending" => t.att < MaxAttempts}
\* since orders the campaigns by startedAt.
CampaignRec == [status: Statuses, master: Masters, since: Nat, fails: Nat,
                tr: [Seeds -> Transfer]]
Store == [Ids -> CampaignRec \cup {NoCampaign}]
Job == [timer: 0..Horizon \cup {NoTimer}, inFlight: BOOLEAN]

ASSUME BoundAssumption ==
  /\ {MaxAttempts, HaltAfter, Horizon} \subseteq Nat \ {0}
  /\ {MaxRequests, MaxFaults, MaxCrashes} \subseteq Nat
  /\ IsFiniteSet(Seeds) /\ IsFiniteSet(Ids)
VARIABLES
  cache,     \* store.js: the campaigns in memory
  file,      \* the campaigns on disk
  job,       \* jobs: the timer and the in-flight flag of each campaign
  flight,    \* [Ids -> Seq(Seeds)]: sends that have not answered
  post,      \* POSTs of /v4/campaigns between the route's checks and start()
  up,        \* the process runs
  boot,      \* resumeAll()'s loop: the campaigns left, the wallets claimed
  \* What the properties speak of.
  edges,     \* [Seeds -> sends that answered and are not forgotten]
  sentNow,   \* campaigns that sent at this instant
  unarmed,   \* campaigns an error left running without a timer
  requests, faults, crashes
ghosts == <<edges, sentNow>>
bounds == <<requests, crashes>>
vars == <<cache, file, job, flight, post, up, boot, edges, sentNow, unarmed,
          requests, faults, crashes>>

----------------------------------------------------------------------------
\* Reading the store.

Exists(k, c) == k[c] # NoCampaign
Running(k) == {c \in Ids : Exists(k, c) /\ k[c].status = "running"}
Planned(r) == {s \in Seeds : r.tr[s].st # "none"}
Pending(r) == {s \in Seeds : r.tr[s].st = "pending"}
Overdue(r) == {s \in Pending(r) : r.tr[s].due = 0}
\* The transfers due soonest; among the overdue the model does not tell which.
NextPending(r) ==
  {s \in Pending(r) : \A u \in Pending(r) : r.tr[s].due <= r.tr[u].due}
ClaimedSeeds(k) == UNION {Planned(k[c]) : c \in {d \in Ids : Exists(k, d)}}

Sent(k, s) == \E c \in Ids : Exists(k, c) /\ k[c].tr[s].st = "sent"
\* No seed is in the plans of two campaigns.
ClaimedOnce(k) == \A c, d \in Ids : \A s \in Seeds :
  (/\ Exists(k, c) /\ s \in Planned(k[c])
   /\ Exists(k, d) /\ s \in Planned(k[d])) => c = d

ASSUME FileAssumption ==
  /\ Files \subseteq Store /\ \A f \in Files : ClaimedOnce(f)
  /\ NoCampaign \notin CampaignRec /\ NoTimer \notin Int
  /\ NoPost \notin [master: Masters, seeds: SUBSET Seeds]

\* One running campaign per funding wallet.
WalletFree(k, c, m) == \A d \in Running(k) \ {c} : k[d].master # m
SeedsUnclaimed(k, S) == S \cap ClaimedSeeds(k) = {}

\* A write of the whole cache: the value the store has after it.
Put(k, c, r) == [k EXCEPT ![c] = r]
SetStatus(k, c, st) == [k EXCEPT ![c].status = st]

----------------------------------------------------------------------------
\* Every stretch of code that runs without an await is a sequence ks of
\* persist() calls, each given by the cache it writes.

After(ks) == IF ks = <<>> THEN cache ELSE ks[Len(ks)]
AllDown(ks) == /\ cache' = After(ks)
               /\ file' = IF ks = <<>> THEN file ELSE After(ks)
               /\ UNCHANGED faults
\* The file once write i of ks has failed.
FileBefore(ks, i) == IF i = 1 THEN file ELSE ks[i - 1]

\* Slots not taken by a pending transfer outside S.
FreeSlots(r, S) == (1..Horizon) \ {r.tr[s].due : s \in Pending(r) \ S}
\* Where reslotOverdue() may put what is overdue: never two on one instant.
Spreads(r) == {g \in [Overdue(r) -> FreeSlots(r, Overdue(r))] :
                 \A s, u \in Overdue(r) : g[s] = g[u] => s = u}
\* The cursor walks forward: the n-th write moves the n-th earliest.
Moved(r, g, n) ==
  [r EXCEPT !.tr = [s \in Seeds |->
     IF s \in Overdue(r) /\ Cardinality({u \in Overdue(r) : g[u] <= g[s]}) <= n
     THEN [r.tr[s] EXCEPT !.due = g[s]] ELSE r.tr[s]]]
\* Mutation: arm() leaves the backlog where it is.
NoReslot(k, c, g) == <<>>
ReslotWrites(k, c, g) ==
  [n \in 1..Cardinality(Overdue(k[c])) |-> Put(k, c, Moved(k[c], g, n))]

\* arm(): re-slot the backlog, or complete a campaign that owes nothing.
ArmWrites(k, c, g) ==
  IF Pending(k[c]) = {} THEN <<SetStatus(k, c, "complete")>>
                        ELSE ReslotWrites(k, c, g)

NoJob == [timer |-> NoTimer, inFlight |-> FALSE]
\* Mutation: forget() drops the job of a send in flight.
ForgetAll(j) == NoJob
\* forget(): an in-flight job survives with its timer cleared.
Forget(j) == [j EXCEPT !.timer = NoTimer]
\* What arm() leaves: the single timer points at the next pending transfer.
Armed(j, r) == IF r.status = "running"
               THEN [j EXCEPT !.timer = Min({r.tr[s].due : s \in Pending(r)})]
               ELSE Forget(j)

\* Mutation: safeHalt() only drops the timer.
CallbackDropsTheJob(c, ks) ==
  /\ unarmed' = unarmed \ {c}
  /\ \/ /\ AllDown(ks)
        /\ job' = [job EXCEPT ![c] = Armed(NoJob, After(ks)[c])]
     \/ \E i \in DOMAIN ks :
          /\ cache' = ks[i] /\ file' = FileBefore(ks, i)
          /\ faults < MaxFaults /\ faults' = faults + 1
          /\ job' = [job EXCEPT ![c] = NoJob]
\* A stretch of fire() or of its timer: a write that fails is caught, and
\* safeHalt() halts the campaign in memory and tries to write that down.
InCallback(c, ks) ==
  /\ unarmed' = unarmed \ {c}
  /\ \/ /\ AllDown(ks)
        /\ job' = [job EXCEPT ![c] = Armed(NoJob, After(ks)[c])]
     \/ \E i \in DOMAIN ks, again \in BOOLEAN :
          LET h == SetStatus(ks[i], c, "halted")
          IN /\ cache' = h
             /\ file' = IF again THEN FileBefore(ks, i) ELSE h
             /\ faults' = faults + (IF again THEN 2 ELSE 1)
             /\ faults' <= MaxFaults
             /\ job' = [job EXCEPT ![c] = NoJob]

\* A stretch of a request: a write that fails reaches the caller, with the
\* change in memory and no timer set.
InRequest(c, ks) ==
  \/ /\ AllDown(ks)
     /\ job' = [job EXCEPT ![c] = Armed(@, After(ks)[c])]
     /\ unarmed' = unarmed \ {c}
  \/ \E i \in DOMAIN ks :
       /\ faults < MaxFaults
       /\ faults' = faults + 1
       /\ cache' = ks[i]
       /\ file' = FileBefore(ks, i)
       /\ job' = [job EXCEPT ![c] = Forget(@)]
       /\ unarmed' = unarmed \cup {c}

Idle == up /\ boot.left = {}
Request == Idle /\ requests < MaxRequests /\ requests' = requests + 1

----------------------------------------------------------------------------
Init ==
  /\ file \in Files
  /\ cache = [c \in Ids |-> NoCampaign]
  /\ job = [c \in Ids |-> NoJob]
  /\ flight = [c \in Ids |-> <<>>]
  /\ post = [c \in Ids |-> NoPost]
  /\ up = FALSE
  /\ boot = [left |-> {}, claimed |-> {}]
  /\ edges = [s \in Seeds |-> IF Sent(file, s) THEN 1 ELSE 0]
  /\ sentNow = {} /\ unarmed = {}
  /\ requests = 0 /\ faults = 0 /\ crashes = 0

\* POST /v4/campaigns: resolveCampaignStart() finds the seeds unclaimed and
\* goes on to ask the chain for fees and the balance.
Post(c, m, S) ==
  /\ Request
  /\ ~Exists(cache, c) /\ post[c] = NoPost
  /\ S # {} /\ SeedsUnclaimed(cache, S)
  /\ post' = [post EXCEPT ![c] = [master |-> m, seeds |-> S]]
  /\ UNCHANGED <<cache, file, job, flight, up, boot, ghosts, unarmed, faults,
                 crashes>>

\* The chain does not answer, the wallet is short, or start() refuses.
PostRefused(c) ==
  /\ Idle /\ post[c] # NoPost
  /\ post' = [post EXCEPT ![c] = NoPost]
  /\ UNCHANGED <<cache, file, job, flight, up, boot, ghosts, unarmed, faults,
                 bounds>>

\* start(): both rules are checked again, the campaign is written and armed.
\* The plan gives every transfer a due of its own.
\* Mutation: start() does not look at the funding wallet.
StartSeedsOnly(c) == SeedsUnclaimed(cache, post[c].seeds)
StartOk(c) == /\ WalletFree(cache, c, post[c].master)
              /\ SeedsUnclaimed(cache, post[c].seeds)
NewCampaign(p, due) ==
  [status |-> "running", master |-> p.master, fails |-> 0,
   since |-> Cardinality({d \in Ids : Exists(cache, d)}),
   tr |-> [s \in Seeds |-> [st |-> IF s \in p.seeds THEN "pending" ELSE "none",
                            att |-> 0, due |-> due[s]]]]
Start(c) ==
  /\ Idle /\ post[c] # NoPost /\ StartOk(c)
  /\ post' = [post EXCEPT ![c] = NoPost]
  /\ \E due \in [Seeds -> 0..Horizon] :
       /\ \A s \in Seeds : (due[s] = 0) <=> (s \notin post[c].seeds)
       /\ \A s, u \in post[c].seeds : due[s] = due[u] => s = u
       /\ InRequest(c, <<Put(cache, c, NewCampaign(post[c], due))>>)
  /\ UNCHANGED <<flight, up, boot, ghosts, bounds>>

\* The timer: fire() sends the transfer due soonest.
Fire(c, s) ==
  /\ Idle /\ job[c].timer = 0 /\ ~job[c].inFlight
  /\ c \in Running(cache) /\ s \in NextPending(cache[c])
  /\ job' = [job EXCEPT ![c] = [timer |-> NoTimer, inFlight |-> TRUE]]
  /\ flight' = [flight EXCEPT ![c] = Append(@, s)]
  /\ sentNow' = sentNow \cup {c}
  /\ UNCHANGED <<cache, file, post, up, boot, edges, unarmed, faults, bounds>>

\* The timer goes off while a send is out: fire() returns.
FireInFlight(c) ==
  /\ Idle /\ job[c].timer = 0 /\ job[c].inFlight
  /\ job' = [job EXCEPT ![c] = Forget(@)]
  /\ UNCHANGED <<cache, file, flight, post, up, boot, ghosts, unarmed, faults,
                 bounds>>

\* onSuccess(): the transfer is sent, the campaign's counter is cleared.
SentWrites(k, c, s) ==
  LET k1 == [k EXCEPT ![c].tr[s] = [st |-> "sent", att |-> k[c].tr[s].att,
                                    due |-> 0]]
  IN <<k1, [k1 EXCEPT ![c].fails = 0]>>
\* Mutation: both counters are dropped, a transfer is tried for ever.
FailedWritesForever(k, c, s, slot) == <<[k EXCEPT ![c].tr[s].due = slot]>>
\* onFailure(): the attempt is noted, the transfer re-slotted or abandoned,
\* and the campaign halted at the third failure in a row.
FailedWrites(k, c, s, slot) ==
  LET att == k[c].tr[s].att + 1
      given == att >= MaxAttempts
      k1 == [k EXCEPT ![c].tr[s] =
               [st |-> IF given THEN "abandoned" ELSE "pending", att |-> att,
                due |-> IF given THEN 0 ELSE slot]]
      k2 == [k1 EXCEPT ![c].fails = @ + 1]
  IN <<k1, k2>> \o (IF k2[c].fails >= HaltAfter
                    THEN <<SetStatus(k2, c, "halted")>> ELSE <<>>)

\* The rest of fire(): the bookkeeping, and the tail that arms a campaign
\* that is still running.
Settle(c, book) ==
  LET k == book[Len(book)]
  IN /\ flight' = [flight EXCEPT ![c] = Tail(@)]
     /\ IF k[c].status = "running"
        THEN \E g \in Spreads(k[c]) : InCallback(c, book \o ArmWrites(k, c, g))
        ELSE InCallback(c, book)
     /\ UNCHANGED <<post, up, boot, sentNow, bounds>>

SendSucceeds(c) ==
  /\ Idle /\ flight[c] # <<>>
  /\ LET s == Head(flight[c])
     IN /\ Settle(c, SentWrites(cache, c, s))
        /\ edges' = [edges EXCEPT ![s] = @ + 1]

SendFails(c) ==
  /\ Idle /\ flight[c] # <<>>
  /\ LET s == Head(flight[c])
     IN \E slot \in FreeSlots(cache[c], {s}) :
          Settle(c, FailedWrites(cache, c, s, slot))
  /\ UNCHANGED edges

\* POST /v4/campaigns/:id/pause and /cancel: the timer is dropped first.
Pause(c) ==
  /\ Request /\ c \in Running(cache)
  /\ InRequest(c, <<SetStatus(cache, c, "paused")>>)
  /\ UNCHANGED <<flight, post, up, boot, ghosts, crashes>>

Cancel(c) ==
  /\ Request /\ Exists(cache, c) /\ cache[c].status # "cancelled"
  /\ InRequest(c, <<SetStatus(cache, c, "cancelled")>>)
  /\ UNCHANGED <<flight, post, up, boot, ghosts, crashes>>

\* POST /v4/campaigns/:id/resume of a paused or halted campaign: running
\* again with a clean counter, its backlog re-slotted, armed.
Resume(c) ==
  /\ Request /\ Exists(cache, c) /\ cache[c].status \in {"paused", "halted"}
  /\ WalletFree(cache, c, cache[c].master)
  /\ LET k == [cache EXCEPT ![c] = [@ EXCEPT !.status = "running", !.fails = 0]]
     IN \E g \in Spreads(k[c]) : InRequest(c, <<k>> \o ArmWrites(k, c, g))
  /\ UNCHANGED <<flight, post, up, boot, ghosts, crashes>>

\* Resume of a running campaign arms it again.
Rearm(c) ==
  /\ Request /\ c \in Running(cache)
  /\ \E g \in Spreads(cache[c]) : InRequest(c, ArmWrites(cache, c, g))
  /\ UNCHANGED <<flight, post, up, boot, ghosts, crashes>>

\* A crash.  What the file does not say was sent is forgotten.
Crash ==
  /\ up /\ crashes < MaxCrashes
  /\ crashes' = crashes + 1
  /\ up' = FALSE
  /\ cache' = [c \in Ids |-> NoCampaign]
  /\ job' = [c \in Ids |-> NoJob]
  /\ flight' = [c \in Ids |-> <<>>]
  /\ post' = [c \in Ids |-> NoPost]
  /\ boot' = [left |-> {}, claimed |-> {}]
  /\ edges' = [s \in Seeds |-> IF Sent(file, s) THEN edges[s] ELSE 0]
  /\ unarmed' = {}
  /\ UNCHANGED <<file, sentNow, requests, faults>>

\* server.js at boot: resumeAll() reads the running campaigns.
Boot ==
  /\ ~up
  /\ up' = TRUE
  /\ cache' = file
  /\ boot' = [left |-> Running(file), claimed |-> {}]
  /\ UNCHANGED <<file, job, flight, post, ghosts, unarmed, faults, bounds>>

\* One campaign of resumeAll()'s loop, which goes by startedAt: parked when an
\* earlier one holds its wallet, else re-slotted and armed.  A write that fails
\* ends the loop, and the campaigns left in it stay running without a timer.
Oldest(k, S) == {c \in S : \A d \in S : k[c].since <= k[d].since}
BootOne ==
  /\ up
  /\ \E c \in Oldest(cache, boot.left) :
       LET r == cache[c]
           parked == r.master \in boot.claimed
       IN \E g \in Spreads(r) :
            LET ks == IF parked THEN <<SetStatus(cache, c, "paused")>>
                                ELSE ArmWrites(cache, c, g)
            IN \/ /\ AllDown(ks)
                  /\ job' = [job EXCEPT ![c] = Armed(@, After(ks)[c])]
                  /\ boot' = [left |-> boot.left \ {c},
                              claimed |-> boot.claimed \cup {r.master}]
                  /\ UNCHANGED unarmed
               \/ \E i \in DOMAIN ks :
                    /\ faults < MaxFaults
                    /\ faults' = faults + 1
                    /\ cache' = ks[i]
                    /\ file' = FileBefore(ks, i)
                    /\ boot' = [left |-> {}, claimed |-> {}]
                    /\ unarmed' = boot.left
                    /\ UNCHANGED job
  /\ UNCHANGED <<flight, post, up, ghosts, bounds>>

\* Time passes; a timer may be late, as after a suspend.
Less(n) == IF n = 0 THEN 0 ELSE n - 1
Later(k) == [c \in Ids |-> IF ~Exists(k, c) THEN NoCampaign ELSE
  [k[c] EXCEPT !.tr = [s \in Seeds |-> [k[c].tr[s] EXCEPT !.due = Less(@)]]]]
Tick ==
  /\ up => Idle
  /\ cache' = Later(cache) /\ file' = Later(file)
  /\ job' = [c \in Ids |-> IF job[c].timer = NoTimer THEN job[c]
                           ELSE [job[c] EXCEPT !.timer = Less(@)]]
  /\ sentNow' = {}
  /\ UNCHANGED <<flight, post, up, boot, edges, unarmed, faults, bounds>>

Next ==
  \/ \E c \in Ids :
       \/ \E m \in Masters, S \in SUBSET Seeds : Post(c, m, S)
       \/ \E s \in Seeds : Fire(c, s)
       \/ PostRefused(c) \/ Start(c) \/ FireInFlight(c) \/ SendSucceeds(c)
       \/ SendFails(c) \/ Pause(c) \/ Cancel(c) \/ Resume(c) \/ Rearm(c)
  \/ Crash \/ Boot \/ BootOne \/ Tick

Spec == Init /\ [][Next]_vars
\* Timers fire, sends answer, the process is started again, time passes.
FairSpec ==
  /\ Spec
  /\ WF_vars(Tick) /\ WF_vars(Boot) /\ WF_vars(BootOne)
  /\ \A c \in Ids : /\ WF_vars(\E s \in Seeds : Fire(c, s))
                    /\ WF_vars(SendSucceeds(c) \/ SendFails(c))

----------------------------------------------------------------------------
TypeOK ==
  /\ cache \in Store /\ file \in Store
  /\ job \in [Ids -> Job] /\ flight \in [Ids -> Seq(Seeds)]
  /\ post \in [Ids -> [master: Masters, seeds: SUBSET Seeds] \cup {NoPost}]
  /\ up \in BOOLEAN
  /\ boot \in [left: SUBSET Ids, claimed: SUBSET Masters]
  /\ edges \in [Seeds -> Nat] /\ sentNow \subseteq Ids /\ unarmed \subseteq Ids
  /\ requests \in 0..MaxRequests /\ faults \in 0..MaxFaults
  /\ crashes \in 0..MaxCrashes

\* A seed wallet is paid once: over every campaign, request, failed write and
\* restart, no two sends to it answer, save one whose record a crash lost.
FundedOnce == \A s \in Seeds : edges[s] <= 1

\* Once boot is over, two running campaigns never share a funding wallet,
\* whatever the file said, as long as no write fails: they would share its nonce.
RunningCampaignsShareNoWallet ==
  Idle /\ faults = 0 => \A c, d \in Running(cache) :
       c # d => cache[c].master # cache[d].master

\* A campaign that says it runs has a timer or a send that will set one; only
\* one whose own start, resume or boot failed with an error may have neither.
RunningMeansArmed ==
  Idle => \A c \in Running(cache) :
            job[c].timer # NoTimer \/ flight[c] # <<>> \/ c \in unarmed

\* Two sends of one campaign never leave at one instant: a backlog left by a
\* crash, a pause, a slow send or a late timer is spread out, never fired.
NeverABurst ==
  [][\A c \in Ids : Len(flight'[c]) > Len(flight[c]) => c \notin sentNow]_vars

\* A campaign that runs comes to an end, or stops for someone to look at it.
CampaignEnds ==
  \A c \in Ids : c \in Running(file) ~> (c \notin Running(file) \/ faults > 0)

\* routes/v4.js: "cancelling is final"; runner.js: "Terminal, and terminal in
\* one direction only".
CancelIsFinal ==
  [][\A c \in Ids : (Exists(cache, c) /\ Exists(cache', c)
       /\ cache[c].status = "cancelled") => cache'[c].status = "cancelled"]_vars
=============================================================================
