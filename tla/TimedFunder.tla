------------------------------ MODULE TimedFunder ------------------------------
(***************************************************************************)
(* The timed Relay funders: backend/src/relay/timedFunding.js (v2),        *)
(* v5/relayFundJob.js and v8/timedTransfer.js.                             *)
(*                                                                         *)
(* A job funds its wallets 1..N in order, a tick of one wallet (v2: up to  *)
(* PerTick) and then a pause of Interval.  One timer, one job per user in  *)
(* memory; start, stop and, but for v5, resume come at any await.  v5's    *)
(* routes let nothing else sign for the launcher while a job is active.    *)
(*                                                                         *)
(* There is no clock: every delay is what is left of it, and Tick counts   *)
(* all of them down.  The activity log never throws (store/activity.js),   *)
(* so neither does a tick: a failure is recorded against its wallet.       *)
(***************************************************************************)
EXTENDS Integers, FiniteSets

CONSTANTS
  Funders,   \* of {"v2", "v5", "v8"}
  N,         \* the wallets of a job
  PerTick,   \* walletsPerTick of v2
  Interval,  \* ticks of time between two wallets; v5 takes up to one more
  Grace,     \* RELAY_DRAIN_GRACE_MS of routes/v5.js
  MineTime,  \* environment: a deposit is mined within it
  MaxJobs, MaxStops, MaxRestarts   \* bounds

ASSUME FunderAssumption ==
  /\ Funders \subseteq {"v2", "v5", "v8"} /\ Funders # {}
  /\ {N, PerTick, Interval, MaxJobs} \subseteq Nat \ {0}
  /\ {Grace, MineTime, MaxStops, MaxRestarts} \subseteq Nat
  /\ MineTime < Grace

Job == 1..MaxJobs
Wallet == 1..N

\* A tick between two of its steps: the wallet it is at, the wallets before it in
\* this batch, and whether its call is out or it sleeps before the call.
TickRec == [job: Job, wallet: Wallet, n: Nat, at: {"call", "gap"}]

VARIABLES
  funder,    \* which of the three this is
  cur,       \* the user's job in the map (0: none)
  status,    \* of each job; "none" until it starts, "lost" after a restart
  busy,      \* ticking or inFlight: of each job
  index,     \* wallets attempted (currentIndex)
  armed,     \* the job has a timer
  left,      \* what is left until nextRunAt
  ticks,     \* the ticks that run
  unmined,   \* deposits of the job broadcast and not mined: how old the youngest is
  since,     \* time since a wallet of the job was last attempted, up to Interval
  quiet,     \* time since the job was stopped or completed, up to Grace
  tried,     \* history: calls made for each wallet, two or more being 2
  cutShort,  \* history: the last tick of the job ended when it was stopped
  stops, restarts  \* counters of the bounds

None == -1   \* no deposit is unmined

jobVars == <<cur, status, busy, index, armed, left, ticks>>
timeVars == <<since, quiet, unmined>>
histVars == <<tried, cutShort>>
boundVars == <<stops, restarts>>
vars == <<funder, jobVars, timeVars, histVars, boundVars>>

Init ==
  /\ funder \in Funders
  /\ cur = 0
  /\ status = [j \in Job |-> "none"]
  /\ busy = [j \in Job |-> FALSE]
  /\ index = [j \in Job |-> 0]
  /\ armed = [j \in Job |-> FALSE]
  /\ left = [j \in Job |-> 0]
  /\ ticks = {}
  /\ unmined = [j \in Job |-> None]
  /\ since = [j \in Job |-> Interval]
  /\ quiet = [j \in Job |-> Grace]
  /\ tried = [j \in Job |-> [w \in Wallet |-> 0]]
  /\ cutShort = [j \in Job |-> FALSE]
  /\ stops = 0 /\ restarts = 0

-----------------------------------------------------------------------------
(* start, stop, resume; schedule *)

\* Mutant: start asks only for the status, as v2's does.
RefusesRunning(j) == status[j] = "running"

\* v5 and v8 also refuse while a stopped job has a deposit in flight.
Refuses(j) == status[j] = "running" \/ (funder # "v2" /\ busy[j])

Arm(j, delay) ==
  /\ armed' = [armed EXCEPT ![j] = TRUE]
  /\ left' = [left EXCEPT ![j] = delay]

Start(j) ==
  /\ status[j] = "none" /\ \A k \in 1..(j - 1) : status[k] # "none"
  /\ cur # 0 => ~Refuses(cur)
  /\ cur' = j
  /\ status' = [status EXCEPT ![j] = "running"]
  /\ Arm(j, 0)
  /\ UNCHANGED <<funder, busy, index, ticks, timeVars, histVars, boundVars>>

Stop ==
  /\ stops < MaxStops
  /\ cur # 0 /\ status[cur] = "running"
  /\ stops' = stops + 1
  /\ status' = [status EXCEPT ![cur] = "stopped"]
  /\ armed' = [armed EXCEPT ![cur] = FALSE]
  /\ quiet' = [quiet EXCEPT ![cur] = 0]
  /\ UNCHANGED <<funder, cur, busy, index, left, ticks, unmined, since, histVars, restarts>>

\* Mutant: a resumed job goes on at once.
NothingLeft(j) == 0

\* resume honours what was left of the pause when the job was stopped.
LeftOver(j) == left[j]

Resume ==
  /\ funder # "v5"
  /\ cur # 0 /\ status[cur] = "stopped" /\ index[cur] < N
  /\ status' = [status EXCEPT ![cur] = "running"]
  /\ Arm(cur, LeftOver(cur))
  /\ UNCHANGED <<funder, cur, busy, index, ticks, timeVars, histVars, boundVars>>

\* The process restarts: the jobs are gone, and the ticks that ran with them.
Restart ==
  /\ restarts < MaxRestarts
  /\ restarts' = restarts + 1
  /\ cur' = 0
  /\ status' = [j \in Job |-> IF status[j] = "none" THEN "none" ELSE "lost"]
  /\ busy' = [j \in Job |-> FALSE]
  /\ armed' = [j \in Job |-> FALSE]
  /\ ticks' = {}
  /\ UNCHANGED <<funder, index, left, timeVars, histVars, stops>>

-----------------------------------------------------------------------------
(* runNext *)

\* relayFund is called for the wallet after those attempted.
Call(t) == tried' = [tried EXCEPT ![t.job][t.wallet] = IF @ = 0 THEN 1 ELSE 2]

\* The timer of j fires: runNext takes the job in the map, and does nothing when
\* it is not running or has a tick in flight.
TimerFires(j) ==
  /\ armed[j] /\ left[j] = 0
  /\ armed' = [armed EXCEPT ![j] = FALSE]
  /\ IF status[cur] = "running" /\ ~busy[cur]
     THEN LET t == [job |-> cur, wallet |-> index[cur] + 1, n |-> 0, at |-> "call"] IN
          /\ busy' = [busy EXCEPT ![cur] = TRUE]
          /\ ticks' = ticks \cup {t}
          /\ Call(t)
     ELSE UNCHANGED <<busy, ticks, tried>>
  /\ UNCHANGED <<funder, cur, status, index, left, timeVars, cutShort, boundVars>>

\* Mutant: a wallet that failed is tried again.
AdvanceIfSent(t, sent) ==
  index' = IF sent THEN [index EXCEPT ![t.job] = t.wallet] ELSE index

\* currentIndex passes the wallet whatever came of it.
Advance(t, sent) == index' = [index EXCEPT ![t.job] = t.wallet]

BatchSize == IF funder = "v2" THEN PerTick ELSE 1

EndTick(t) ==
  /\ ticks' = ticks \ {t}
  /\ busy' = [busy EXCEPT ![t.job] = FALSE]
  /\ cutShort' = [cutShort EXCEPT ![t.job] = status[t.job] # "running"]

\* After a batch: the next tick is scheduled, or the job is complete, unless it was
\* stopped meanwhile.  attempted: the wallets attempted by then.
GoOn(j, attempted) ==
  IF status[j] # "running" THEN UNCHANGED <<status, armed, left, quiet>>
  ELSE IF attempted = N
  THEN /\ status' = [status EXCEPT ![j] = "complete"]
       /\ quiet' = [quiet EXCEPT ![j] = 0]
       /\ UNCHANGED <<armed, left>>
  ELSE /\ \E delay \in Interval..(Interval + IF funder = "v5" THEN 1 ELSE 0) : Arm(j, delay)
       /\ UNCHANGED <<status, quiet>>

\* The call for a wallet settles: its deposit was broadcast, or it failed before.
CallSettles(t, sent) ==
  /\ t.at = "call"
  /\ Advance(t, sent)
  /\ since' = [since EXCEPT ![t.job] = 0]
  /\ unmined' = IF sent THEN [unmined EXCEPT ![t.job] = 0] ELSE unmined
  /\ IF t.n + 1 < BatchSize /\ status[t.job] = "running" /\ t.wallet < N
     THEN /\ ticks' = (ticks \ {t}) \cup
               {[t EXCEPT !.at = "gap", !.wallet = @ + 1, !.n = @ + 1]}
          /\ UNCHANGED <<status, armed, left, busy, cutShort, quiet>>
     ELSE EndTick(t) /\ GoOn(t.job, t.wallet)
  /\ UNCHANGED <<funder, cur, tried, boundVars>>

\* The sleep before the next wallet of a batch is over.
GapEnds(t) ==
  /\ t.at = "gap"
  /\ IF status[t.job] = "running"
     THEN /\ ticks' = (ticks \ {t}) \cup {[t EXCEPT !.at = "call"]}
          /\ Call(t)
          /\ UNCHANGED <<busy, cutShort>>
     ELSE EndTick(t) /\ UNCHANGED tried
  /\ UNCHANGED <<funder, cur, status, index, armed, left, timeVars, boundVars>>

-----------------------------------------------------------------------------
(* Time and the chain *)

DepositMined(j) ==
  /\ unmined[j] # None
  /\ unmined' = [unmined EXCEPT ![j] = None]
  /\ UNCHANGED <<funder, jobVars, since, quiet, histVars, boundVars>>

Down(n) == IF n = 0 THEN 0 ELSE n - 1
UpTo(n, top) == IF n < top THEN n + 1 ELSE n

\* Time passes; no deposit stays unmined longer than MineTime.
Tick ==
  /\ \A j \in Job : unmined[j] < MineTime
  /\ left' = [j \in Job |-> Down(left[j])]
  /\ since' = [j \in Job |-> UpTo(since[j], Interval)]
  /\ quiet' = [j \in Job |-> UpTo(quiet[j], Grace)]
  /\ unmined' = [j \in Job |-> IF unmined[j] = None THEN None ELSE unmined[j] + 1]
  /\ UNCHANGED <<funder, cur, status, busy, index, armed, ticks, histVars, boundVars>>

\* relayFundingActive of routes/v5.js: nothing else may sign for the launcher.
Active(j) == status[j] = "running" \/ busy[j] \/ quiet[j] < Grace

StepOn(t) == GapEnds(t) \/ \E sent \in BOOLEAN : CallSettles(t, sent)

Next ==
  \/ \E j \in Job : Start(j) \/ TimerFires(j) \/ DepositMined(j)
  \/ Stop \/ Resume \/ Restart
  \/ \E t \in ticks : StepOn(t)
  \/ Tick

Spec == Init /\ [][Next]_vars

\* Timers fire, calls settle and sleeps end (Node's event loop), and time passes;
\* nothing is assumed of the operator.
Fairness ==
  /\ WF_vars(Tick)
  /\ \A j \in Job : WF_vars(TimerFires(j)) /\ WF_vars(DepositMined(j))
  /\ \A j \in Job, w \in Wallet :
       WF_vars(\E t \in ticks : t.job = j /\ t.wallet = w /\ StepOn(t))
FairSpec == Spec /\ Fairness

-----------------------------------------------------------------------------
(* Properties *)

\* The types of the jobs' state: indexes inside the wallets, delays inside theirs.
TypeOK ==
  /\ funder \in Funders
  /\ cur \in 0..MaxJobs
  /\ status \in [Job -> {"none", "running", "stopped", "complete", "lost"}]
  /\ busy \in [Job -> BOOLEAN]
  /\ index \in [Job -> 0..N]
  /\ armed \in [Job -> BOOLEAN]
  /\ left \in [Job -> 0..(Interval + 1)]
  /\ ticks \subseteq TickRec
  /\ unmined \in [Job -> None..MineTime]
  /\ since \in [Job -> 0..Interval]
  /\ quiet \in [Job -> 0..Grace]
  /\ tried \in [Job -> [Wallet -> 0..2]]
  /\ cutShort \in [Job -> BOOLEAN]
  /\ stops \in 0..MaxStops /\ restarts \in 0..MaxRestarts

Calling(j, w) == \E t \in ticks : t.job = j /\ t.wallet = w /\ t.at = "call"

\* "A wallet that has been attempted can never be attempted again": however a job
\* is stopped and resumed, in a batch or in its gap, exactly the wallets up to
\* currentIndex have been tried, once each, and the one whose call is out.
EachWalletOnce ==
  \A j \in Job : status[j] # "lost" =>
    \A w \in Wallet : tried[j][w] = IF w <= index[j] \/ Calling(j, w) THEN 1 ELSE 0

\* No lost wakeup: a running job has a timer or a tick that will set one, whatever
\* a stop, a resume or a timer that found the job busy did to its timer.
Awake ==
  \A j \in Job : status[j] = "running" =>
    j = cur /\ (armed[j] \/ \E t \in ticks : t.job = j)

\* "Two schedulers signing the same main wallet would collide on a nonce": v5 and
\* v8 never have two calls out at once, also when a job is stopped, or lost its
\* timer, and another is started.
OneSigner == funder # "v2" => Cardinality(ticks) <= 1

\* A tick begins no sooner than Interval after the last wallet of its job, also when
\* the job is stopped in its pause and resumed, or resumed while its call is out.
\* Two exceptions: the tick before it ended in a stopped job, which leaves no pause
\* behind; and a timer that outlived its own job, since runNext is told the user.
TicksArePaced ==
  [][\A t \in ticks' \ ticks :
       t.n = 0 /\ ~ (\E u \in ticks : u.job = t.job) =>
         \/ since[t.job] = Interval
         \/ cutShort[t.job]
         \/ \E k \in Job \ {t.job} : armed[k] /\ ~armed'[k]]_vars

\* "On this sub-second-block chain the deposit mines well within" the grace: no
\* deposit of the funding job is unmined when something else may sign.
LauncherFreeMeansMined ==
  funder = "v5" /\ cur # 0 => Active(cur) \/ unmined[cur] = None

\* A job ends by itself: complete, or stopped.
JobEnds == \A j \in Job : status[j] = "running" ~> status[j] # "running"
=============================================================================
