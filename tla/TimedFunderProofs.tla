--------------------------- MODULE TimedFunderProofs ---------------------------
(***************************************************************************)
(* Proofs about TimedFunder, for any number of wallets, jobs, stops and    *)
(* restarts and any delays: no wallet is tried twice, no wakeup is lost,   *)
(* v5 and v8 never have two calls out at once, and no tick begins before   *)
(* the pause is over.                                                      *)
(*                                                                         *)
(* The invariant ties a job's tick to its index and its busy flag          *)
(* (TickInv), its timer to its status (RunInv), and, for v5 and v8, every  *)
(* tick to the user's current job (OnlySigner).  Of the pause (PaceInv):   *)
(* time since the last wallet and what is left to wait make up Interval.   *)
(***************************************************************************)
EXTENDS TimedFunder, FiniteSetTheorems, TLAPS

JobTypes ==
  /\ funder \in Funders
  /\ cur \in 0..MaxJobs
  /\ status \in [Job -> {"none", "running", "stopped", "complete", "lost"}]
  /\ busy \in [Job -> BOOLEAN]
  /\ index \in [Job -> 0..N]
  /\ armed \in [Job -> BOOLEAN]
  /\ left \in [Job -> 0..(Interval + 1)]
  /\ ticks \subseteq TickRec
  /\ tried \in [Job -> [Wallet -> 0..2]]

TimeTypes ==
  /\ unmined \in [Job -> None..MineTime]
  /\ since \in [Job -> 0..Interval]
  /\ quiet \in [Job -> 0..Grace]
  /\ cutShort \in [Job -> BOOLEAN]
  /\ stops \in 0..MaxStops /\ restarts \in 0..MaxRestarts

\* A busy job has one tick, at the first wallet not attempted.
TickInv ==
  /\ \A t \in ticks : busy[t.job] /\ t.wallet = index[t.job] + 1
  /\ \A t, u \in ticks : t.job = u.job => t = u
  /\ \A j \in Job : busy[j] => \E t \in ticks : t.job = j

\* A running job is the user's, has a wallet left, and a timer or a tick.
RunInv ==
  /\ \A j \in Job : status[j] = "running" => j = cur /\ index[j] < N /\ (armed[j] \/ busy[j])
  /\ \A j \in Job : status[j] = "none" => index[j] = 0 /\ ~busy[j]
  /\ \A j \in Job : armed[j] => cur # 0

\* v5 and v8: only the user's current job signs.
OnlySigner == funder # "v2" => \A t \in ticks : t.job = cur

IInv == JobTypes /\ TimeTypes /\ TickInv /\ RunInv /\ OnlySigner /\ EachWalletOnce

-----------------------------------------------------------------------------

\* What the assumption on the constants says of each.
LEMMA ConstantTypes ==
  /\ N \in Nat /\ N > 0 /\ PerTick \in Nat /\ PerTick > 0
  /\ Interval \in Nat /\ Interval > 0 /\ MaxJobs \in Nat /\ MaxJobs > 0
  /\ Grace \in Nat /\ MineTime \in Nat /\ MaxStops \in Nat /\ MaxRestarts \in Nat
BY FunderAssumption DEF FunderAssumption

LEMMA InitIInv == Init => IInv
<1> SUFFICES ASSUME Init PROVE IInv
  OBVIOUS
<1> USE ConstantTypes
<1>1. JobTypes
  BY DEF Init, JobTypes, Job, Wallet
<1>2. TimeTypes
  BY DEF Init, TimeTypes, Job, None
<1>3. TickInv /\ RunInv /\ OnlySigner
  BY DEF Init, TickInv, RunInv, OnlySigner
<1>4. EachWalletOnce
  BY DEF Init, EachWalletOnce, Calling, Wallet, Job
<1> QED
  BY <1>1, <1>2, <1>3, <1>4 DEF IInv

-----------------------------------------------------------------------------
(* Types *)

\* start, stop, resume, a restart, the chain and the clock keep the types.
LEMMA OperatorTypes ==
  ASSUME JobTypes, TimeTypes,
         (\E j \in Job : Start(j) \/ DepositMined(j)) \/ Stop \/ Resume \/ Restart \/ Tick
  PROVE  JobTypes' /\ TimeTypes'
<1> USE ConstantTypes
<1>1. CASE \E j \in Job : Start(j)
  <2>1. PICK j \in Job : Start(j)
    BY <1>1
  <2>2. j \in 0..MaxJobs /\ 0 \in 0..(Interval + 1)
    BY DEF Job
  <2> QED
    BY <2>1, <2>2 DEF JobTypes, TimeTypes, Start, Arm, timeVars, histVars, boundVars
<1>2. CASE \E j \in Job : DepositMined(j)
  BY <1>2 DEF JobTypes, TimeTypes, DepositMined, jobVars, histVars, boundVars, None
<1>3. CASE Stop
  <2>1. cur \in Job /\ stops + 1 \in 0..MaxStops /\ 0 \in 0..Grace
    BY <1>3 DEF Stop, JobTypes, TimeTypes, Job
  <2> QED
    BY <1>3, <2>1 DEF JobTypes, TimeTypes, Stop, histVars
<1>4. CASE Resume
  <2>1. cur \in Job /\ left[cur] \in 0..(Interval + 1)
    BY <1>4 DEF Resume, JobTypes, Job
  <2> QED
    BY <1>4, <2>1 DEF JobTypes, TimeTypes, Resume, Arm, LeftOver, timeVars, histVars, boundVars
<1>5. CASE Restart
  BY <1>5 DEF JobTypes, TimeTypes, Restart, timeVars, histVars
<1>6. CASE Tick
  <2>1. JobTypes'
    BY <1>6 DEF JobTypes, Tick, Down, histVars
  <2>2. unmined' \in [Job -> None..MineTime]
    <3> SUFFICES ASSUME NEW j \in Job
                 PROVE  (IF unmined[j] = None THEN None ELSE unmined[j] + 1) \in None..MineTime
      BY <1>6 DEF Tick
    <3>1. unmined[j] \in None..MineTime /\ unmined[j] < MineTime
      BY <1>6 DEF TimeTypes, Tick
    <3> QED
      BY <3>1 DEF None
  <2>3. since' \in [Job -> 0..Interval] /\ quiet' \in [Job -> 0..Grace]
    BY <1>6 DEF TimeTypes, Tick, UpTo
  <2> QED
    BY <1>6, <2>1, <2>2, <2>3 DEF TimeTypes, Tick, histVars, boundVars
<1> QED
  BY <1>1, <1>2, <1>3, <1>4, <1>5, <1>6

\* The timer keeps them: the wallet it takes is one of the job's.
LEMMA TimerTypes ==
  ASSUME IInv, NEW j \in Job, TimerFires(j)
  PROVE  JobTypes' /\ TimeTypes'
<1> USE ConstantTypes
<1>1. cur \in Job
  BY DEF IInv, RunInv, TimerFires, JobTypes, Job
<1>2. CASE status[cur] = "running" /\ ~busy[cur]
  <2> DEFINE t == [job |-> cur, wallet |-> index[cur] + 1, n |-> 0, at |-> "call"]
  <2>1. index[cur] \in 0..N /\ index[cur] < N
    BY <1>1, <1>2 DEF IInv, RunInv, JobTypes
  <2>2. t \in TickRec
    BY <1>1, <2>1 DEF TickRec, Wallet
  <2>3. ticks' = ticks \cup {t} /\ busy' = [busy EXCEPT ![cur] = TRUE] /\ Call(t)
    BY <1>2 DEF TimerFires
  <2>4. tried' \in [Job -> [Wallet -> 0..2]]
    <3>1. tried' = [tried EXCEPT ![cur][index[cur] + 1] = IF @ = 0 THEN 1 ELSE 2]
      BY <2>3 DEF Call
    <3>2. tried \in [Job -> [Wallet -> 0..2]]
      BY DEF IInv, JobTypes
    <3>3. index[cur] + 1 \in Wallet
      BY <2>1 DEF Wallet
    <3> HIDE DEF t
    <3> DEFINE w == index[cur] + 1
    <3>4. w \in Wallet /\ tried' = [tried EXCEPT ![cur][w] = IF @ = 0 THEN 1 ELSE 2]
      BY <3>1, <3>3
    <3> HIDE DEF w
    <3> QED
      BY <1>1, <3>2, <3>4
  <2> HIDE DEF t
  <2> QED
    BY <2>2, <2>3, <2>4 DEF IInv, JobTypes, TimeTypes, TimerFires, timeVars, boundVars
<1>3. CASE ~(status[cur] = "running" /\ ~busy[cur])
  BY <1>3 DEF IInv, JobTypes, TimeTypes, TimerFires, timeVars, boundVars
<1> QED
  BY <1>2, <1>3

\* What follows a batch keeps them.
LEMMA GoOnTypes ==
  ASSUME JobTypes, TimeTypes, NEW j \in Job, NEW n \in Nat, GoOn(j, n)
  PROVE  /\ status' \in [Job -> {"none", "running", "stopped", "complete", "lost"}]
         /\ armed' \in [Job -> BOOLEAN]
         /\ left' \in [Job -> 0..(Interval + 1)]
         /\ quiet' \in [Job -> 0..Grace]
<1> USE ConstantTypes
<1>1. CASE status[j] # "running"
  BY <1>1 DEF GoOn, JobTypes, TimeTypes
<1>3. CASE status[j] = "running" /\ n = N
  BY <1>3 DEF GoOn, JobTypes, TimeTypes
<1>2. CASE status[j] = "running" /\ n # N
  <2>1. PICK delay \in Interval..(Interval + IF funder = "v5" THEN 1 ELSE 0) : Arm(j, delay)
    BY <1>2 DEF GoOn
  <2>2. delay \in 0..(Interval + 1)
    OBVIOUS
  <2>3. UNCHANGED <<status, quiet>>
    BY <1>2 DEF GoOn
  <2> QED
    BY <2>1, <2>2, <2>3 DEF Arm, JobTypes, TimeTypes
<1> QED
  BY <1>1, <1>2, <1>3

\* A call that settles and a gap that ends keep them.
LEMMA StepTypes ==
  ASSUME IInv, NEW t \in ticks, StepOn(t)
  PROVE  JobTypes' /\ TimeTypes'
<1> USE ConstantTypes
<1>0. /\ JobTypes /\ TimeTypes
      /\ t \in TickRec /\ t.job \in Job /\ t.wallet \in Wallet /\ t.wallet \in 0..N /\ t.n \in Nat
  BY DEF IInv, JobTypes, TickRec, Wallet
<1>1. CASE GapEnds(t)
  <2>1. CASE status[t.job] = "running"
    <3> DEFINE u == [t EXCEPT !.at = "call"]
    <3>1. u \in TickRec /\ ticks' = (ticks \ {t}) \cup {u} /\ Call(t) /\ UNCHANGED <<busy, cutShort>>
      BY <1>0, <1>1, <2>1 DEF GapEnds, TickRec
    <3>2. tried' \in [Job -> [Wallet -> 0..2]]
      BY <1>0, <3>1 DEF Call, JobTypes
    <3> HIDE DEF u
    <3> QED
      BY <1>0, <1>1, <3>1, <3>2 DEF GapEnds, JobTypes, TimeTypes, timeVars, boundVars
  <2>2. CASE status[t.job] # "running"
    BY <1>0, <1>1, <2>2 DEF GapEnds, EndTick, JobTypes, TimeTypes, timeVars, boundVars
  <2> QED
    BY <2>1, <2>2
<1>2. CASE \E sent \in BOOLEAN : CallSettles(t, sent)
  <2>1. PICK sent \in BOOLEAN : CallSettles(t, sent)
    BY <1>2
  <2>2. index' \in [Job -> 0..N] /\ since' \in [Job -> 0..Interval]
    BY <1>0, <2>1 DEF CallSettles, Advance, JobTypes, TimeTypes
  <2>3. unmined' \in [Job -> None..MineTime]
    BY <1>0, <2>1 DEF CallSettles, TimeTypes, None
  <2>4. /\ UNCHANGED <<funder, cur, tried, stops, restarts>>
    BY <2>1 DEF CallSettles, boundVars
  <2>5. CASE t.n + 1 < BatchSize /\ status[t.job] = "running" /\ t.wallet < N
    <3> DEFINE u == [t EXCEPT !.at = "gap", !.wallet = @ + 1, !.n = @ + 1]
    <3>0. t.wallet + 1 \in Wallet /\ t.n + 1 \in Nat
      BY <1>0, <2>5 DEF Wallet
    <3>1. u \in TickRec
      BY <1>0, <3>0 DEF TickRec
    <3>2. ticks' = (ticks \ {t}) \cup {u}
          /\ UNCHANGED <<status, armed, left, busy, cutShort, quiet>>
      BY <2>1, <2>5 DEF CallSettles
    <3> HIDE DEF u
    <3> QED
      BY <1>0, <2>2, <2>3, <2>4, <3>1, <3>2 DEF JobTypes, TimeTypes
  <2>6. CASE ~(t.n + 1 < BatchSize /\ status[t.job] = "running" /\ t.wallet < N)
    <3>1. EndTick(t) /\ GoOn(t.job, t.wallet)
      BY <2>1, <2>6 DEF CallSettles
    <3>2. /\ status' \in [Job -> {"none", "running", "stopped", "complete", "lost"}]
          /\ armed' \in [Job -> BOOLEAN]
          /\ left' \in [Job -> 0..(Interval + 1)]
          /\ quiet' \in [Job -> 0..Grace]
      BY <1>0, <3>1, GoOnTypes
    <3> QED
      BY <1>0, <2>2, <2>3, <2>4, <3>1, <3>2 DEF EndTick, JobTypes, TimeTypes
  <2> QED
    BY <2>5, <2>6
<1> QED
  BY <1>1, <1>2 DEF StepOn

-----------------------------------------------------------------------------
(* The invariant *)

\* start, stop, resume, a restart, the chain and the clock leave no job without
\* its tick or its timer.
LEMMA OperatorKeepsIInv ==
  ASSUME IInv,
         (\E j \in Job : Start(j) \/ DepositMined(j)) \/ Stop \/ Resume \/ Restart \/ Tick
  PROVE  IInv'
<1> USE ConstantTypes
<1>0. JobTypes /\ TimeTypes /\ TickInv /\ RunInv /\ OnlySigner /\ EachWalletOnce
  BY DEF IInv
<1>1. JobTypes' /\ TimeTypes'
  BY <1>0, OperatorTypes
<1>2. CASE \E j \in Job : Start(j)
  <2>1. PICK j \in Job : Start(j)
    BY <1>2
  <2>2. j # 0 /\ (cur # 0 => cur \in Job)
    BY <1>0 DEF Job, JobTypes
  <2>3. UNCHANGED <<funder, busy, index, ticks, tried>> /\ cur' = j
    BY <2>1 DEF Start, histVars
  <2>4. /\ status' = [status EXCEPT ![j] = "running"]
        /\ armed' = [armed EXCEPT ![j] = TRUE]
        /\ status[j] = "none"
    BY <2>1 DEF Start, Arm
  <2>5. \A k \in Job : status[k] # "running" \/ k = j
    <3> SUFFICES ASSUME NEW k \in Job, status[k] = "running" PROVE FALSE
      OBVIOUS
    <3>1. k = cur /\ cur # 0
      BY <1>0 DEF RunInv, Job
    <3> QED
      BY <2>1, <3>1 DEF Start, Refuses
  <2>6. TickInv'
    BY <1>0, <2>3 DEF TickInv
  <2>7. RunInv'
    BY <1>0, <2>2, <2>3, <2>4, <2>5 DEF RunInv, JobTypes
  <2>8. OnlySigner'
    <3>1. funder # "v2" => ticks = {}
      <4> SUFFICES ASSUME funder # "v2", NEW t \in ticks PROVE FALSE
        OBVIOUS
      <4>1. t.job = cur /\ t.job \in Job /\ busy[t.job]
        BY <1>0 DEF OnlySigner, TickInv, JobTypes, TickRec
      <4> QED
        BY <2>1, <4>1 DEF Start, Refuses, Job
    <3> QED
      BY <2>3, <3>1 DEF OnlySigner
  <2>9. EachWalletOnce'
    BY <1>0, <2>3, <2>4 DEF EachWalletOnce, Calling, JobTypes
  <2> QED
    BY <1>1, <2>6, <2>7, <2>8, <2>9 DEF IInv
<1>3. CASE Stop
  BY <1>0, <1>1, <1>3 DEF IInv, TickInv, RunInv, OnlySigner, EachWalletOnce, Calling, JobTypes,
     Stop, histVars
<1>4. CASE Resume
  BY <1>0, <1>1, <1>4 DEF IInv, TickInv, RunInv, OnlySigner, EachWalletOnce, Calling, JobTypes,
     Resume, Arm, histVars
<1>5. CASE Restart
  <2>1. /\ ticks' = {} /\ UNCHANGED <<funder, index, tried>>
        /\ busy' = [j \in Job |-> FALSE] /\ armed' = [j \in Job |-> FALSE]
        /\ status' = [j \in Job |-> IF status[j] = "none" THEN "none" ELSE "lost"]
    BY <1>5 DEF Restart, histVars
  <2>2. \A j \in Job : /\ status'[j] # "running"
                       /\ status'[j] # "lost" => status[j] = "none" /\ status[j] # "lost"
    BY <2>1
  <2>3. TickInv' /\ OnlySigner'
    BY <2>1 DEF TickInv, OnlySigner
  <2>4. RunInv'
    BY <1>0, <2>1, <2>2 DEF RunInv
  <2>5. \A j \in Job : status[j] = "none" => ~ \E t \in ticks : t.job = j
    BY <1>0 DEF TickInv, RunInv
  <2>6. EachWalletOnce'
    BY <1>0, <2>1, <2>2, <2>5 DEF EachWalletOnce, Calling
  <2> QED
    BY <1>1, <2>3, <2>4, <2>6 DEF IInv
<1>6. CASE Tick \/ \E j \in Job : DepositMined(j)
  <2>1. UNCHANGED <<funder, cur, status, busy, index, armed, ticks, tried>>
    BY <1>6 DEF Tick, DepositMined, jobVars, histVars
  <2> QED
    BY <1>0, <1>1, <2>1 DEF IInv, TickInv, RunInv, OnlySigner, EachWalletOnce, Calling
<1> QED
  BY <1>2, <1>3, <1>4, <1>5, <1>6

\* A timer starts one tick, at a wallet not tried, or none.
LEMMA TimerKeepsIInv ==
  ASSUME IInv, NEW j \in Job, TimerFires(j)
  PROVE  IInv'
<1> USE ConstantTypes
<1>0. JobTypes /\ TimeTypes /\ TickInv /\ RunInv /\ OnlySigner /\ EachWalletOnce
  BY DEF IInv
<1>1. JobTypes' /\ TimeTypes' /\ cur \in Job
  <2>1. JobTypes' /\ TimeTypes'
    BY TimerTypes
  <2>2. cur \in Job
    BY <1>0 DEF RunInv, TimerFires, JobTypes, Job
  <2> QED
    BY <2>1, <2>2
<1>2. UNCHANGED <<funder, cur, status, index>> /\ armed' = [armed EXCEPT ![j] = FALSE]
  BY DEF TimerFires
<1>3. CASE status[cur] = "running" /\ ~busy[cur]
  <2> DEFINE w == index[cur] + 1
             t == [job |-> cur, wallet |-> w, n |-> 0, at |-> "call"]
  <2>1. ticks' = ticks \cup {t} /\ busy' = [busy EXCEPT ![cur] = TRUE]
        /\ tried' = [tried EXCEPT ![cur][w] = IF @ = 0 THEN 1 ELSE 2]
    BY <1>3 DEF TimerFires, Call
  <2>2. \A u \in ticks : u.job # cur
    BY <1>0, <1>3 DEF TickInv
  <2>3. t.job = cur /\ t.wallet = w /\ t.at = "call"
    OBVIOUS
  <2>4. w \in Wallet /\ index[cur] \in Nat /\ w > index[cur]
    BY <1>0, <1>1, <1>3 DEF RunInv, JobTypes, Wallet
  <2>5. tried[cur][w] = 0
    BY <1>0, <1>1, <1>3, <2>2, <2>4 DEF EachWalletOnce, Calling
  <2>6. TickInv'
    <3> HIDE DEF t
    <3>1. \A u \in ticks' : busy'[u.job] /\ u.wallet = index'[u.job] + 1
      BY <1>0, <1>1, <1>2, <2>1, <2>2, <2>3 DEF TickInv, JobTypes
    <3>2. \A u, v \in ticks' : u.job = v.job => u = v
      BY <1>0, <2>1, <2>2, <2>3 DEF TickInv
    <3>3. \A k \in Job : busy'[k] => \E u \in ticks' : u.job = k
      BY <1>0, <1>1, <2>1, <2>3 DEF TickInv, JobTypes
    <3> QED
      BY <3>1, <3>2, <3>3 DEF TickInv
  <2>7. RunInv'
    BY <1>0, <1>1, <1>2, <1>3, <2>1 DEF RunInv, JobTypes
  <2>8. OnlySigner'
    BY <1>0, <1>2, <2>1, <2>3 DEF OnlySigner
  <2>9. EachWalletOnce'
    <3> HIDE DEF w, t
    <3>1. \A k \in Job, x \in Wallet :
            tried'[k][x] = IF k = cur /\ x = w THEN 1 ELSE tried[k][x]
      BY <1>0, <1>1, <2>1, <2>4, <2>5 DEF JobTypes
    <3>2. \A k \in Job, x \in Wallet :
            Calling(k, x)' <=> (k = cur /\ x = w) \/ Calling(k, x)
      BY <2>1, <2>3 DEF Calling
    <3> QED
      BY <1>0, <1>2, <3>1, <3>2 DEF EachWalletOnce
  <2> QED
    BY <1>1, <2>6, <2>7, <2>8, <2>9 DEF IInv
<1>4. CASE ~(status[cur] = "running" /\ ~busy[cur])
  <2>1. UNCHANGED <<busy, ticks, tried>>
    BY <1>4 DEF TimerFires
  <2>2. RunInv'
    BY <1>0, <1>1, <1>2, <1>4, <2>1 DEF RunInv, JobTypes
  <2> QED
    BY <1>0, <1>1, <1>2, <2>1, <2>2 DEF IInv, TickInv, OnlySigner, EachWalletOnce, Calling
<1> QED
  BY <1>3, <1>4


\* A call that is over counts as a wallet attempted.
LEMMA AttemptKeepsTries ==
  ASSUME EachWalletOnce, JobTypes, NEW j \in Job, NEW w \in Wallet, w = index[j] + 1,
         tried' = tried, Calling(j, w),
         index'[j] = w, \A k \in Job \ {j} : index'[k] = index[k],
         \A k \in Job, x \in Wallet : Calling(k, x)' <=> Calling(k, x) /\ ~(k = j /\ x = w),
         \A k \in Job : status'[k] = "lost" <=> status[k] = "lost",
         \A x \in Wallet : Calling(j, x) => x = w
  PROVE  EachWalletOnce'
<1> SUFFICES ASSUME NEW k \in Job, status'[k] # "lost", NEW x \in Wallet
             PROVE  tried'[k][x] = IF x <= index'[k] \/ Calling(k, x)' THEN 1 ELSE 0
  BY DEF EachWalletOnce
<1>1. tried[k][x] = IF x <= index[k] \/ Calling(k, x) THEN 1 ELSE 0
  BY DEF EachWalletOnce
<1>2. CASE k # j
  BY <1>1, <1>2
<1>3. CASE k = j
  <2>1. x \in Nat /\ index[j] \in Nat
    BY ConstantTypes DEF Wallet, JobTypes
  <2>2. (x <= index[j] \/ x = w) <=> x <= w
    BY <2>1
  <2>3. Calling(j, x) <=> x = w
    OBVIOUS
  <2> QED
    BY <1>1, <1>3, <2>2, <2>3
<1> QED
  BY <1>2, <1>3

\* The call for a wallet settles: its wallet counts as attempted, and the tick goes
\* on to the next one, or ends and leaves a timer or no job that runs.
LEMMA SettleKeepsIInv ==
  ASSUME IInv, NEW t \in ticks, NEW sent \in BOOLEAN, CallSettles(t, sent)
  PROVE  IInv'
<1> USE ConstantTypes
<1> DEFINE j == t.job
           w == t.wallet
<1>0. JobTypes /\ TimeTypes /\ TickInv /\ RunInv /\ OnlySigner /\ EachWalletOnce
  BY DEF IInv
<1>1. JobTypes' /\ TimeTypes'
  BY StepTypes DEF StepOn
<1>2. /\ j \in Job /\ w \in Wallet /\ w \in 1..N /\ busy[j] /\ w = index[j] + 1
      /\ \A u \in ticks : u.job = j => u = t
      /\ t \in TickRec /\ t.at = "call"
  BY <1>0 DEF TickInv, JobTypes, TickRec, CallSettles, Wallet
<1>3. /\ UNCHANGED <<funder, cur, tried>> /\ index' = [index EXCEPT ![j] = w]
  BY DEF CallSettles, Advance
<1>4. /\ index'[j] = w /\ \A k \in Job \ {j} : index'[k] = index[k]
  BY <1>0, <1>2, <1>3 DEF JobTypes
<1>4a. Calling(j, w) /\ \A x \in Wallet : Calling(j, x) => x = w
  BY <1>2 DEF Calling
<1>5. CASE t.n + 1 < BatchSize /\ status[j] = "running" /\ w < N
  <2> DEFINE u == [t EXCEPT !.at = "gap", !.wallet = @ + 1, !.n = @ + 1]
  <2>1. ticks' = (ticks \ {t}) \cup {u} /\ UNCHANGED <<status, armed, busy>>
    BY <1>5 DEF CallSettles
  <2>2. u.job = j /\ u.wallet = w + 1 /\ u.at = "gap"
    BY <1>2 DEF TickRec
  <2> HIDE DEF u
  <2>3. TickInv'
    <3>1. \A v \in ticks' : busy'[v.job] /\ v.wallet = index'[v.job] + 1
      BY <1>0, <1>2, <1>4, <2>1, <2>2 DEF TickInv, JobTypes, TickRec
    <3>2. \A v, x \in ticks' : v.job = x.job => v = x
      BY <1>0, <1>2, <2>1, <2>2 DEF TickInv
    <3>3. \A k \in Job : busy'[k] => \E v \in ticks' : v.job = k
      BY <1>0, <1>2, <2>1, <2>2 DEF TickInv
    <3> QED
      BY <3>1, <3>2, <3>3 DEF TickInv
  <2>4. RunInv'
    BY <1>0, <1>2, <1>3, <1>4, <1>5, <2>1 DEF RunInv
  <2>5. OnlySigner'
    BY <1>0, <1>2, <1>3, <2>1, <2>2 DEF OnlySigner
  <2>6. \A k \in Job, x \in Wallet : Calling(k, x)' <=> Calling(k, x) /\ ~(k = j /\ x = w)
    BY <1>2, <2>1, <2>2 DEF Calling
  <2>7. EachWalletOnce'
    <3> HIDE DEF j, w
    <3> QED
      BY <1>0, <1>2, <1>3, <1>4, <1>4a, <2>1, <2>6, AttemptKeepsTries
  <2> QED
    BY <1>1, <2>3, <2>4, <2>5, <2>7 DEF IInv
<1>6. CASE ~(t.n + 1 < BatchSize /\ status[j] = "running" /\ w < N)
  <2>1. EndTick(t) /\ GoOn(j, w)
    BY <1>6 DEF CallSettles
  <2>2. ticks' = ticks \ {t} /\ busy' = [busy EXCEPT ![j] = FALSE]
    BY <2>1 DEF EndTick
  <2>3. TickInv'
    BY <1>0, <1>2, <1>4, <2>2 DEF TickInv, JobTypes, TickRec
  <2>4. \/ status[j] # "running" /\ UNCHANGED <<status, armed>>
        \/ status[j] = "running" /\ w = N /\ status' = [status EXCEPT ![j] = "complete"]
           /\ armed' = armed
        \/ status[j] = "running" /\ w # N /\ status' = status
           /\ armed' = [armed EXCEPT ![j] = TRUE]
    BY <2>1 DEF GoOn, Arm
  <2>5. RunInv'
    <3>1. \A k \in Job : status'[k] = "running" =>
            k = cur' /\ index'[k] < N /\ (armed'[k] \/ busy'[k])
      BY <1>0, <1>2, <1>3, <1>4, <2>2, <2>4 DEF RunInv, JobTypes
    <3>2. \A k \in Job : status'[k] = "none" => index'[k] = 0 /\ ~busy'[k]
      BY <1>0, <1>2, <1>4, <2>2, <2>4 DEF RunInv, JobTypes
    <3>3. \A k \in Job : armed'[k] => cur' # 0
      BY <1>0, <1>2, <1>3, <2>4 DEF RunInv, JobTypes, Job
    <3> QED
      BY <3>1, <3>2, <3>3 DEF RunInv
  <2>6. OnlySigner'
    BY <1>0, <1>3, <2>2 DEF OnlySigner
  <2>7. \A k \in Job, x \in Wallet : Calling(k, x)' <=> Calling(k, x) /\ ~(k = j /\ x = w)
    BY <1>2, <2>2 DEF Calling
  <2>8. \A k \in Job : status'[k] = "lost" <=> status[k] = "lost"
    BY <1>0, <1>2, <2>4 DEF JobTypes
  <2>9. EachWalletOnce'
    <3> HIDE DEF j, w
    <3> QED
      BY <1>0, <1>2, <1>3, <1>4, <1>4a, <2>7, <2>8, AttemptKeepsTries
  <2> QED
    BY <1>1, <2>3, <2>5, <2>6, <2>9 DEF IInv
<1> QED
  BY <1>5, <1>6

\* The sleep of a batch is over: the next wallet is called for, or the tick ends in
\* a stopped job.
LEMMA GapKeepsIInv ==
  ASSUME IInv, NEW t \in ticks, GapEnds(t)
  PROVE  IInv'
<1> USE ConstantTypes
<1> DEFINE j == t.job
           w == t.wallet
<1>0. JobTypes /\ TimeTypes /\ TickInv /\ RunInv /\ OnlySigner /\ EachWalletOnce
  BY DEF IInv
<1>1. JobTypes' /\ TimeTypes'
  BY StepTypes DEF StepOn
<1>2. /\ j \in Job /\ w \in Wallet /\ busy[j] /\ w = index[j] + 1 /\ index[j] \in Nat
      /\ \A u \in ticks : u.job = j => u = t
      /\ t \in TickRec /\ t.at = "gap"
  BY <1>0 DEF TickInv, JobTypes, TickRec, GapEnds
<1>3. UNCHANGED <<funder, cur, status, index, armed>>
  BY DEF GapEnds
<1>4. CASE status[j] = "running"
  <2> DEFINE u == [t EXCEPT !.at = "call"]
  <2>1. ticks' = (ticks \ {t}) \cup {u} /\ busy' = busy
        /\ tried' = [tried EXCEPT ![j][w] = IF @ = 0 THEN 1 ELSE 2]
    BY <1>4 DEF GapEnds, Call
  <2>2. u.job = j /\ u.wallet = w /\ u.at = "call"
    BY <1>2 DEF TickRec
  <2> HIDE DEF u
  <2>3. TickInv'
    BY <1>0, <1>2, <1>3, <2>1, <2>2 DEF TickInv
  <2>4. RunInv' /\ OnlySigner'
    BY <1>0, <1>2, <1>3, <2>1, <2>2 DEF RunInv, OnlySigner
  <2>5. tried[j][w] = 0
    BY <1>0, <1>2, <1>4 DEF EachWalletOnce, Calling
  <2>6. EachWalletOnce'
    <3>1. \A k \in Job, x \in Wallet :
            tried'[k][x] = IF k = j /\ x = w THEN 1 ELSE tried[k][x]
      BY <1>0, <1>2, <2>1, <2>5 DEF JobTypes
    <3>2. \A k \in Job, x \in Wallet : Calling(k, x)' <=> (k = j /\ x = w) \/ Calling(k, x)
      BY <1>2, <2>1, <2>2 DEF Calling
    <3> QED
      BY <1>0, <1>3, <3>1, <3>2 DEF EachWalletOnce
  <2> QED
    BY <1>1, <2>3, <2>4, <2>6 DEF IInv
<1>5. CASE status[j] # "running"
  <2>1. ticks' = ticks \ {t} /\ busy' = [busy EXCEPT ![j] = FALSE] /\ tried' = tried
    BY <1>5 DEF GapEnds, EndTick
  <2>2. TickInv'
    BY <1>0, <1>2, <1>3, <2>1 DEF TickInv, JobTypes, TickRec
  <2>3. RunInv' /\ OnlySigner'
    BY <1>0, <1>2, <1>3, <1>5, <2>1 DEF RunInv, OnlySigner, JobTypes
  <2>4. \A k \in Job, x \in Wallet : Calling(k, x)' <=> Calling(k, x)
    BY <1>2, <2>1 DEF Calling
  <2>5. EachWalletOnce'
    BY <1>0, <1>3, <2>1, <2>4 DEF EachWalletOnce
  <2> QED
    BY <1>1, <2>2, <2>3, <2>5 DEF IInv
<1> QED
  BY <1>4, <1>5

LEMMA NextIInv == IInv /\ [Next]_vars => IInv'
<1> SUFFICES ASSUME IInv, [Next]_vars PROVE IInv'
  OBVIOUS
<1>1. CASE (\E j \in Job : Start(j) \/ DepositMined(j)) \/ Stop \/ Resume \/ Restart \/ Tick
  BY <1>1, OperatorKeepsIInv
<1>2. CASE \E j \in Job : TimerFires(j)
  BY <1>2, TimerKeepsIInv
<1>3. CASE \E t \in ticks : StepOn(t)
  BY <1>3, SettleKeepsIInv, GapKeepsIInv DEF StepOn
<1>4. CASE UNCHANGED vars
  BY <1>4 DEF IInv, JobTypes, TimeTypes, TickInv, RunInv, OnlySigner, EachWalletOnce, Calling,
     vars, jobVars, timeVars, histVars, boundVars
<1> QED
  BY <1>1, <1>2, <1>3, <1>4 DEF Next

\* The invariant holds in every state a scheduler can reach.
LEMMA SpecIInv == Spec => []IInv
BY InitIInv, NextIInv, PTL DEF Spec

\* Types: the index stays inside the wallets and every delay inside its own, for any
\* number of wallets, jobs, stops and restarts.
THEOREM FunderTypes == Spec => []TypeOK
<1>1. IInv => TypeOK
  BY DEF IInv, JobTypes, TimeTypes, TypeOK
<1> QED
  BY <1>1, SpecIInv, PTL

\* "A wallet that has been attempted can never be attempted again", wherever a job
\* of any size is stopped and resumed.
THEOREM WalletsOnce == Spec => []EachWalletOnce
<1>1. IInv => EachWalletOnce
  BY DEF IInv
<1> QED
  BY <1>1, SpecIInv, PTL

\* A running job has a timer, or a tick that will set one.
THEOREM NoLostWakeup == Spec => []Awake
<1>1. IInv => Awake
  BY DEF IInv, Awake, RunInv, TickInv
<1> QED
  BY <1>1, SpecIInv, PTL

\* v5 and v8 never have two calls out at once.
THEOREM SingleSigner == Spec => []OneSigner
<1>1. IInv => OneSigner
  <2> SUFFICES ASSUME IInv, funder # "v2" PROVE Cardinality(ticks) <= 1
    BY DEF OneSigner
  <2>1. \A t, u \in ticks : t = u
    BY DEF IInv, OnlySigner, TickInv
  <2>2. CASE ticks = {}
    BY <2>2, FS_EmptySet
  <2>3. CASE \E t \in ticks : TRUE
    <3>1. PICK t \in ticks : ticks = {t}
      BY <2>1, <2>3
    <3> QED
      BY <3>1, FS_Singleton
  <2> QED
    BY <2>2, <2>3
<1> QED
  BY <1>1, SpecIInv, PTL

-----------------------------------------------------------------------------
(* The pause between two wallets *)

\* A job that is not busy has had its pause, or what is left of it makes it up; but
\* for one whose last tick was cut short.
PaceInv ==
  /\ \A j \in Job : status[j] = "none" => since[j] = Interval
  /\ \A j \in Job : status[j] \in {"running", "stopped"} /\ ~busy[j] =>
       cutShort[j] \/ since[j] + left[j] >= Interval

LEMMA OperatorKeepsPace ==
  ASSUME IInv, PaceInv,
         (\E j \in Job : Start(j) \/ DepositMined(j)) \/ Stop \/ Resume \/ Restart
  PROVE  PaceInv'
<1> USE ConstantTypes
<1>0. JobTypes /\ TimeTypes
  BY DEF IInv
<1>1. CASE \E j \in Job : Start(j)
  <2>1. PICK j \in Job : Start(j)
    BY <1>1
  <2>2. since[j] = Interval /\ left'[j] = 0 /\ status'[j] = "running"
    BY <1>0, <2>1 DEF PaceInv, Start, Arm, JobTypes
  <2>3. \A k \in Job \ {j} : status'[k] = status[k] /\ left'[k] = left[k]
    BY <1>0, <2>1 DEF Start, Arm, JobTypes
  <2>4. UNCHANGED <<busy, since, cutShort>>
    BY <2>1 DEF Start, timeVars, histVars
  <2> QED
    BY <2>2, <2>3, <2>4 DEF PaceInv
<1>2. CASE \E j \in Job : DepositMined(j)
  BY <1>2 DEF PaceInv, DepositMined, jobVars, histVars
<1>3. CASE Stop
  BY <1>0, <1>3 DEF PaceInv, Stop, JobTypes, Job, histVars
<1>4. CASE Resume
  <2>1. /\ cur \in Job /\ status[cur] = "stopped" /\ left' = [left EXCEPT ![cur] = left[cur]]
        /\ status' = [status EXCEPT ![cur] = "running"]
        /\ UNCHANGED <<busy, since, cutShort>>
    BY <1>0, <1>4 DEF Resume, Arm, LeftOver, JobTypes, Job, timeVars, histVars
  <2>2. left' = left
    BY <1>0, <2>1 DEF JobTypes
  <2> QED
    BY <1>0, <2>1, <2>2 DEF PaceInv, JobTypes
<1>5. CASE Restart
  BY <1>0, <1>5 DEF PaceInv, Restart, JobTypes, timeVars, histVars
<1> QED
  BY <1>1, <1>2, <1>3, <1>4, <1>5

LEMMA ClockKeepsPace ==
  ASSUME IInv, PaceInv, Tick
  PROVE  PaceInv'
<1> USE ConstantTypes
<1>1. /\ UNCHANGED <<status, busy, cutShort>>
      /\ left' = [j \in Job |-> Down(left[j])]
      /\ since' = [j \in Job |-> UpTo(since[j], Interval)]
  BY DEF Tick, histVars
<1>2. \A j \in Job : left[j] \in Nat /\ since[j] \in 0..Interval
  BY DEF IInv, JobTypes, TimeTypes
<1>3. \A j \in Job : since[j] = Interval => since'[j] = Interval
  BY <1>1, <1>2 DEF UpTo
<1>4. ASSUME NEW j \in Job, since[j] + left[j] >= Interval
      PROVE  since'[j] + left'[j] >= Interval
  <2>1. CASE left[j] = 0
    BY <1>1, <1>2, <1>4, <2>1 DEF UpTo, Down
  <2>2. CASE left[j] # 0
    BY <1>1, <1>2, <1>4, <2>2 DEF UpTo, Down
  <2> QED
    BY <2>1, <2>2
<1> QED
  BY <1>1, <1>3, <1>4 DEF PaceInv

LEMMA TimerKeepsPace ==
  ASSUME IInv, PaceInv, NEW j \in Job, TimerFires(j)
  PROVE  PaceInv'
<1>1. /\ UNCHANGED <<status, left, since, cutShort>>
      /\ busy' = busy \/ busy' = [busy EXCEPT ![cur] = TRUE]
  BY DEF TimerFires, timeVars
<1>2. \A k \in Job : ~busy'[k] => ~busy[k]
  BY <1>1 DEF IInv, JobTypes
<1> QED
  BY <1>1, <1>2 DEF PaceInv

LEMMA StepKeepsPace ==
  ASSUME IInv, PaceInv, NEW t \in ticks, StepOn(t)
  PROVE  PaceInv'
<1> USE ConstantTypes
<1>0. /\ JobTypes /\ TimeTypes /\ t.job \in Job /\ busy[t.job] /\ status[t.job] # "none"
  <2>1. t.job \in Job /\ busy[t.job]
    BY DEF IInv, JobTypes, TickRec, TickInv
  <2> QED
    BY <2>1 DEF IInv, RunInv
<1>1. ASSUME NEW sent \in BOOLEAN, CallSettles(t, sent) PROVE PaceInv'
  <2>1. since' = [since EXCEPT ![t.job] = 0]
    BY <1>1 DEF CallSettles
  <2>2. CASE UNCHANGED <<status, left, busy, cutShort>>
    BY <1>0, <2>1, <2>2 DEF PaceInv, TimeTypes
  <2>3. CASE EndTick(t) /\ GoOn(t.job, t.wallet)
    <3>1. /\ busy' = [busy EXCEPT ![t.job] = FALSE]
          /\ cutShort' = [cutShort EXCEPT ![t.job] = status[t.job] # "running"]
      BY <2>3 DEF EndTick
    <3>2. ASSUME NEW k \in Job, k # t.job
          PROVE  /\ status'[k] = status[k] /\ left'[k] = left[k] /\ busy'[k] = busy[k]
                 /\ cutShort'[k] = cutShort[k] /\ since'[k] = since[k]
      BY <1>0, <2>1, <2>3, <3>1, <3>2 DEF GoOn, Arm, JobTypes, TimeTypes
    <3>3. status'[t.job] # "none"
      BY <1>0, <2>3 DEF GoOn, JobTypes
    <3>4. status'[t.job] \in {"running", "stopped"} =>
            cutShort'[t.job] \/ since'[t.job] + left'[t.job] >= Interval
      <4>1. CASE status[t.job] # "running"
        BY <1>0, <3>1, <4>1 DEF TimeTypes
      <4>2. CASE status[t.job] = "running" /\ t.wallet = N
        BY <1>0, <2>3, <4>2 DEF GoOn, JobTypes
      <4>3. CASE status[t.job] = "running" /\ t.wallet # N
        <5>1. PICK delay \in Interval..(Interval + 1) : left' = [left EXCEPT ![t.job] = delay]
          BY <2>3, <4>3 DEF GoOn, Arm
        <5>2. left'[t.job] = delay /\ since'[t.job] = 0
          BY <1>0, <2>1, <5>1 DEF JobTypes, TimeTypes
        <5> QED
          BY <5>1, <5>2
      <4> QED
        BY <4>1, <4>2, <4>3
    <3> QED
      BY <3>2, <3>3, <3>4 DEF PaceInv
  <2> QED
    BY <1>1, <2>2, <2>3 DEF CallSettles
<1>2. CASE GapEnds(t)
  <2>1. UNCHANGED <<status, left, since>>
    BY <1>2 DEF GapEnds, timeVars
  <2>2. CASE UNCHANGED <<busy, cutShort>>
    BY <2>1, <2>2 DEF PaceInv
  <2>3. CASE EndTick(t) /\ status[t.job] # "running"
    <3>1. /\ busy' = [busy EXCEPT ![t.job] = FALSE]
          /\ cutShort' = [cutShort EXCEPT ![t.job] = TRUE]
      BY <2>3 DEF EndTick
    <3>2. cutShort'[t.job] /\ \A k \in Job \ {t.job} : busy'[k] = busy[k] /\ cutShort'[k] = cutShort[k]
      BY <1>0, <3>1 DEF JobTypes, TimeTypes
    <3> QED
      BY <2>1, <3>2 DEF PaceInv
  <2> QED
    BY <1>2, <2>2, <2>3 DEF GapEnds
<1> QED
  BY <1>1, <1>2 DEF StepOn

LEMMA NextPace == IInv /\ PaceInv /\ [Next]_vars => PaceInv'
<1> SUFFICES ASSUME IInv, PaceInv, [Next]_vars PROVE PaceInv'
  OBVIOUS
<1>1. CASE (\E j \in Job : Start(j) \/ DepositMined(j)) \/ Stop \/ Resume \/ Restart
  BY <1>1, OperatorKeepsPace
<1>2. CASE \E j \in Job : TimerFires(j)
  BY <1>2, TimerKeepsPace
<1>3. CASE \E t \in ticks : StepOn(t)
  BY <1>3, StepKeepsPace
<1>4. CASE Tick
  BY <1>4, ClockKeepsPace
<1>5. CASE UNCHANGED vars
  BY <1>5 DEF vars, jobVars, timeVars, histVars, PaceInv
<1> QED
  BY <1>1, <1>2, <1>3, <1>4, <1>5 DEF Next

\* The pace holds of every step: only a timer begins a tick, and it finds the pause
\* over, the last tick cut short, or belongs to another job.
LEMMA BeginsPaced ==
  ASSUME IInv, PaceInv, Next, NEW t \in ticks' \ ticks,
         t.n = 0, ~ \E u \in ticks : u.job = t.job
  PROVE  \/ since[t.job] = Interval \/ cutShort[t.job]
         \/ \E k \in Job \ {t.job} : armed[k] /\ ~armed'[k]
<1> USE ConstantTypes
<1>0. JobTypes /\ TimeTypes /\ RunInv
  BY DEF IInv
<1>1. ASSUME NEW u \in ticks, StepOn(u) PROVE FALSE
  <2>1. \A x \in ticks' : x \in ticks \/ x.job = u.job
    <3>1. u \in TickRec
      BY <1>0 DEF JobTypes
    <3> DEFINE next == [u EXCEPT !.at = "gap", !.wallet = @ + 1, !.n = @ + 1]
               again == [u EXCEPT !.at = "call"]
    <3>2. next.job = u.job /\ again.job = u.job
      BY <3>1 DEF TickRec
    <3> HIDE DEF next, again
    <3>3. ASSUME NEW sent \in BOOLEAN, CallSettles(u, sent)
          PROVE  ticks' = ticks \ {u} \/ ticks' = (ticks \ {u}) \cup {next}
      BY <3>3 DEF CallSettles, EndTick, next
    <3>4. GapEnds(u) => ticks' = ticks \ {u} \/ ticks' = (ticks \ {u}) \cup {again}
      BY DEF GapEnds, EndTick, again
    <3> QED
      BY <1>1, <3>2, <3>3, <3>4 DEF StepOn
  <2> QED
    BY <2>1
<1>2. ASSUME NEW j \in Job, TimerFires(j)
      PROVE  \/ since[t.job] = Interval \/ cutShort[t.job]
             \/ \E k \in Job \ {t.job} : armed[k] /\ ~armed'[k]
  <2>1. /\ armed[j] /\ left[j] = 0 /\ armed' = [armed EXCEPT ![j] = FALSE]
        /\ status[cur] = "running" /\ ~busy[cur] /\ t.job = cur
    BY <1>2 DEF TimerFires
  <2>2. cur \in Job
    BY <1>0, <2>1 DEF RunInv, JobTypes, Job
  <2>3. CASE j = cur
    <3>1. cutShort[cur] \/ since[cur] + 0 >= Interval
      BY <2>1, <2>2, <2>3 DEF PaceInv
    <3>2. since[cur] \in 0..Interval
      BY <1>0, <2>2 DEF TimeTypes
    <3> QED
      BY <2>1, <3>1, <3>2
  <2>4. CASE j # cur
    <3>1. armed[j] /\ ~armed'[j] /\ j \in Job \ {t.job}
      BY <1>0, <2>1, <2>4 DEF JobTypes
    <3> QED
      BY <3>1
  <2> QED
    BY <2>3, <2>4
<1>3. CASE (\E j \in Job : Start(j) \/ DepositMined(j)) \/ Stop \/ Resume \/ Restart \/ Tick
  <2>1. ticks' \subseteq ticks
    BY <1>3 DEF Start, DepositMined, Stop, Resume, Restart, Tick, jobVars
  <2> QED
    BY <2>1
<1> QED
  BY <1>1, <1>2, <1>3 DEF Next

\* A tick begins no sooner than Interval after the last wallet of its job, however it
\* is stopped and resumed (timedFunding.js schedule(), resume(); relayFundJob.js,
\* timedTransfer.js), with the two exceptions TicksArePaced names.
THEOREM Paced == Spec => TicksArePaced
<1>1. Init => PaceInv
  BY ConstantTypes DEF Init, PaceInv
<1>2. IInv /\ PaceInv /\ [Next]_vars =>
        [\A t \in ticks' \ ticks :
           t.n = 0 /\ ~ (\E u \in ticks : u.job = t.job) =>
             \/ since[t.job] = Interval
             \/ cutShort[t.job]
             \/ \E k \in Job \ {t.job} : armed[k] /\ ~armed'[k]]_vars
  BY BeginsPaced
<1> QED
  BY <1>1, <1>2, NextPace, SpecIInv, PTL DEF Spec, TicksArePaced
=============================================================================
