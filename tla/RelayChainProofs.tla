--------------------------- MODULE RelayChainProofs ---------------------------
(***************************************************************************)
(* Proofs about RelayChain, for any number of wallets, jobs, faults and    *)
(* resumes: one cycle of a job at a time, no lost wakeup, a fill of v6 and *)
(* v7 that is an order's, and, when every receipt comes in time, no step   *)
(* of a cycle that lands twice and none left out of a run that says it is  *)
(* complete.                                                               *)
(*                                                                         *)
(* Every step of a cycle does one of three things to the table of jobs: it *)
(* ends the cycle (Finish), halts the run (Throw), or moves the cycle on   *)
(* (Goto).  What the proofs need of the many steps is in StepKinds and     *)
(* StepTypes; the invariant is then shown for the three, and for what the  *)
(* operator and the timer do.                                              *)
(***************************************************************************)
EXTENDS RelayChain, TLAPS

\* Types of the table of jobs, and of the rest.
JobTypes ==
  /\ cur \in 0..MaxJobs
  /\ status \in [Job -> {"none", "running", "stopped", "failed", "complete", "lost"}]
  /\ inFlight \in [Job -> BOOLEAN]
  /\ timer \in [Job -> BOOLEAN]
  /\ index \in [Job -> 0..(N + 1)]
  /\ flights \subseteq Flight

DataTypes ==
  /\ rec \in [Job -> [Cycle -> Rec]]
  /\ position \in Nat
  /\ ether \in [Wallet -> Nat]
  /\ orders \in Tally /\ sold \in Tally /\ sent \in Tally
  /\ filled \in Tally /\ bought \in Tally /\ blind \in Tally
  /\ late \subseteq Tx
  /\ faults \in Nat /\ resumes \in Nat /\ restarts \in Nat

\* A job that runs is the user's, and has its timer armed or a cycle in flight; a
\* timer is armed only for a job that runs; a job in flight has a cycle, and
\* just one, of the index it has reached.
ChainInv ==
  /\ OneCyclePerJob
  /\ NeverIdle
  /\ \A j \in Job : inFlight[j] => \E f \in flights : f.job = j
  /\ \A j \in Job : timer[j] => status[j] = "running"
  /\ \A j \in Job : status[j] = "running" \/ inFlight[j] => index[j] <= N
  /\ \A j \in Job : status[j] = "none" => index[j] = 0 /\ ~inFlight[j]

\* The steps of cycles, wallets 1..N only after cycle 0.
CycleInv == \A f \in flights : f.at # "bigBuy" => f.cycle \in Wallet

-----------------------------------------------------------------------------

\* What the assumption on the constants says of each.
LEMMA ConstantTypes ==
  /\ N \in Nat /\ N > 0 /\ BigBuy \in Nat /\ Fund \in Nat /\ Gas \in Nat
  /\ MaxJobs \in Nat /\ MaxJobs > 0
  /\ Ether0 \in [Wallet -> Nat]
BY RunAssumption DEF RunAssumption, Wallet

\* TypeOK is the types of the two parts.
LEMMA TypeParts == TypeOK <=> JobTypes /\ DataTypes
BY DEF TypeOK, JobTypes, DataTypes

\* A flight is one record.
LEMMA FlightFields ==
  ASSUME NEW f \in Flight
  PROVE  /\ f.job \in Job /\ f.cycle \in Cycle /\ f.at \in Points /\ f.amt \in Nat
         /\ \A point \in Points, n \in Nat :
              LET g == [f EXCEPT !.at = point, !.amt = n]
              IN g \in Flight /\ g.job = f.job /\ g.cycle = f.cycle /\ g.at = point
BY DEF Flight

\* Counting what a cycle did gives a count again.
LEMMA PlusTyped ==
  ASSUME NEW t \in Tally, NEW j \in Job, NEW i \in Cycle, NEW n \in Int,
         t[j][i] + n >= 0
  PROVE  /\ Plus(t, j, i, n) \in Tally
         /\ \A k \in Job, c \in Cycle : Plus(t, j, i, n)[k][c] =
              IF k = j /\ c = i THEN t[k][c] + n ELSE t[k][c]
<1>1. t[j] \in [Cycle -> Nat] /\ t[j][i] + n \in Nat
  BY DEF Tally
<1>2. [t[j] EXCEPT ![i] = @ + n] \in [Cycle -> Nat]
  BY <1>1
<1> QED
  BY <1>1, <1>2 DEF Plus, Tally

-----------------------------------------------------------------------------
(* What the steps of a cycle do to the table of jobs *)

\* Each of the sixteen steps of a cycle ends it, halts the run, or moves it on.
LEMMA StepKinds ==
  ASSUME TypeOK, CycleInv, NEW f \in flights, StepOn(f) \/ StepOff(f)
  PROVE  Finish(f) \/ Throw(f) \/ \E point \in Points \ {"bigBuy"}, n \in Nat :
                                     Goto(f, point, n) /\ f.at # "bigBuy"
<1> USE ConstantTypes DEF Points
<1>0. f \in Flight /\ f.cycle \in Cycle /\ position \in Nat
      /\ (f.cycle \in Wallet => ether[f.cycle] \in Nat)
  BY FlightFields DEF TypeOK
<1>1. CASE BigBuyLands(f) \/ BuyLands(f) \/ BigBuyPending(f) \/ BuyPending(f)
  BY <1>1 DEF BigBuyLands, BuyLands, BigBuyPending, BuyPending
<1>2. CASE StepFails(f) \/ StepLandsAndThrows(f) \/ FillTimeout(f) \/ Reverts(f)
  BY <1>2 DEF StepFails, StepLandsAndThrows, FillTimeout, Reverts
<1>3. CASE SizeSell(f)
  BY <1>0, <1>3 DEF SizeSell, Slice
<1>4. CASE SizeTransfer(f) \/ SellLands(f) \/ TransferLands(f) \/ FillSeen(f)
        \/ Refilled(f) \/ SellPending(f)
  BY <1>4 DEF SizeTransfer, SellLands, TransferLands, FillSeen, Refilled, SellPending
<1>5. CASE SizeBuy(f)
  <2>1. f.cycle \in Wallet /\ ether[f.cycle] \in Nat
    BY <1>0, <1>5 DEF SizeBuy, CycleInv
  <2>2. ether[f.cycle] > Gas => ether[f.cycle] - Gas \in Nat
    BY <2>1
  <2> QED
    BY <1>5, <2>2 DEF SizeBuy
<1> QED
  BY <1>1, <1>2, <1>3, <1>4, <1>5 DEF StepOn, StepOff

-----------------------------------------------------------------------------
(* The invariant of the table of jobs *)

JobInv == JobTypes /\ ChainInv /\ CycleInv

\* A cycle that ends leaves its job with the next index, no cycle, and a timer if
\* it still runs.
LEMMA FinishKeepsJobInv ==
  ASSUME JobInv, NEW f \in flights, Finish(f)
  PROVE  JobInv'
<1> USE ConstantTypes
<1> DEFINE j == f.job
<1>0. /\ f \in Flight /\ j \in Job /\ f.cycle \in 0..N /\ index[j] = f.cycle
      /\ inFlight[j]
      /\ \A g \in flights : g.job = j => g = f
  BY FlightFields DEF JobInv, JobTypes, ChainInv, OneCyclePerJob, Cycle
<1>1. /\ flights' = flights \ {f} /\ cur' = cur
      /\ index' = [index EXCEPT ![j] = f.cycle + 1]
      /\ inFlight' = [inFlight EXCEPT ![j] = FALSE]
  BY DEF Finish
<1>2. \/ status[j] # "running" /\ status' = status /\ timer' = timer
      \/ /\ status' = [status EXCEPT ![j] = "complete"]
         /\ timer' = [timer EXCEPT ![j] = FALSE]
      \/ /\ f.cycle # N /\ timer' = [timer EXCEPT ![j] = TRUE]
         /\ status' = status /\ status[j] = "running"
  BY DEF Finish
<1>3. JobTypes'
  <2>1. index' \in [Job -> 0..(N + 1)]
    BY <1>0, <1>1 DEF JobInv, JobTypes
  <2>2. timer' \in [Job -> BOOLEAN] /\ inFlight' \in [Job -> BOOLEAN]
    BY <1>0, <1>1, <1>2 DEF JobInv, JobTypes
  <2>3. status' \in [Job -> {"none", "running", "stopped", "failed", "complete", "lost"}]
    BY <1>0, <1>2 DEF JobInv, JobTypes
  <2> QED
    BY <1>1, <2>1, <2>2, <2>3 DEF JobInv, JobTypes
<1>4. \A g \in flights' : g \in flights /\ g.job # j /\ g.job \in Job
  BY <1>0, <1>1, FlightFields DEF JobInv, JobTypes
<1>5. OneCyclePerJob'
  BY <1>1, <1>4 DEF JobInv, ChainInv, OneCyclePerJob, JobTypes
<1>6. NeverIdle'
  BY <1>0, <1>1, <1>2 DEF JobInv, ChainInv, NeverIdle, JobTypes
<1>7. \A k \in Job : inFlight'[k] => \E g \in flights' : g.job = k
  BY <1>0, <1>1 DEF JobInv, ChainInv, JobTypes
<1>8. \A k \in Job : timer'[k] => status'[k] = "running"
  BY <1>0, <1>1, <1>2 DEF JobInv, ChainInv, JobTypes
<1>9. \A k \in Job : status'[k] = "running" \/ inFlight'[k] => index'[k] <= N
  BY <1>0, <1>1, <1>2 DEF JobInv, ChainInv, JobTypes
<1>10. \A k \in Job : status'[k] = "none" => index'[k] = 0 /\ ~inFlight'[k]
  BY <1>0, <1>1, <1>2 DEF JobInv, ChainInv, JobTypes
<1>11. CycleInv'
  BY <1>4 DEF JobInv, CycleInv
<1> QED
  BY <1>3, <1>5, <1>6, <1>7, <1>8, <1>9, <1>10, <1>11 DEF JobInv, ChainInv

\* A cycle that throws leaves its job failed, with no cycle and no timer.
LEMMA ThrowKeepsJobInv ==
  ASSUME JobInv, NEW f \in flights, Throw(f)
  PROVE  JobInv'
<1> USE ConstantTypes
<1> DEFINE j == f.job
<1>0. /\ f \in Flight /\ j \in Job /\ inFlight[j]
      /\ \A g \in flights : g.job = j => g = f
  BY FlightFields DEF JobInv, JobTypes, ChainInv, OneCyclePerJob
<1>1. /\ flights' = flights \ {f} /\ cur' = cur /\ index' = index
      /\ inFlight' = [inFlight EXCEPT ![j] = FALSE]
      /\ status' = [status EXCEPT ![j] = "failed"]
      /\ timer' = [timer EXCEPT ![j] = FALSE]
  BY DEF Throw
<1>2. JobTypes'
  BY <1>0, <1>1 DEF JobInv, JobTypes
<1>3. \A g \in flights' : g \in flights /\ g.job # j /\ g.job \in Job
  BY <1>0, <1>1, FlightFields DEF JobInv, JobTypes
<1>4. OneCyclePerJob'
  BY <1>1, <1>3 DEF JobInv, ChainInv, OneCyclePerJob, JobTypes
<1>5. NeverIdle'
  BY <1>0, <1>1 DEF JobInv, ChainInv, NeverIdle, JobTypes
<1>6. \A k \in Job : inFlight'[k] => \E g \in flights' : g.job = k
  BY <1>0, <1>1 DEF JobInv, ChainInv, JobTypes
<1>7. /\ \A k \in Job : timer'[k] => status'[k] = "running"
      /\ \A k \in Job : status'[k] = "running" \/ inFlight'[k] => index'[k] <= N
      /\ \A k \in Job : status'[k] = "none" => index'[k] = 0 /\ ~inFlight'[k]
  BY <1>0, <1>1 DEF JobInv, ChainInv, JobTypes
<1>8. CycleInv'
  BY <1>3 DEF JobInv, CycleInv
<1> QED
  BY <1>2, <1>4, <1>5, <1>6, <1>7, <1>8 DEF JobInv, ChainInv

\* A cycle that goes on is the same cycle of the same job.
LEMMA GotoKeepsJobInv ==
  ASSUME JobInv, NEW f \in flights, NEW point \in Points \ {"bigBuy"}, NEW n \in Nat,
         Goto(f, point, n), f.at # "bigBuy"
  PROVE  JobInv'
<1> DEFINE g == [f EXCEPT !.at = point, !.amt = n]
<1>0. /\ f \in Flight /\ f.job \in Job
      /\ g \in Flight /\ g.job = f.job /\ g.cycle = f.cycle /\ g.at = point
  <2>1. f \in Flight
    BY DEF JobInv, JobTypes
  <2> QED
    BY <2>1 DEF Flight
<1>1. /\ flights' = (flights \ {f}) \cup {g}
      /\ UNCHANGED <<cur, status, inFlight, timer, index>>
  BY DEF Goto, jobVars
<1> HIDE DEF g
<1>2. JobTypes'
  BY <1>0, <1>1 DEF JobInv, JobTypes
<1>3. OneCyclePerJob'
  BY <1>0, <1>1 DEF JobInv, ChainInv, OneCyclePerJob
<1>4. NeverIdle'
  BY <1>1 DEF JobInv, ChainInv, NeverIdle
<1>5. \A k \in Job : inFlight'[k] => \E h \in flights' : h.job = k
  BY <1>0, <1>1 DEF JobInv, ChainInv
<1>6. CycleInv'
  BY <1>0, <1>1 DEF JobInv, CycleInv
<1> QED
  BY <1>1, <1>2, <1>3, <1>4, <1>5, <1>6 DEF JobInv, ChainInv

\* start takes a job that was never started, and only when the user's runs no more.
LEMMA StartKeepsJobInv ==
  ASSUME JobInv, NEW j \in Job, Start(j)
  PROVE  JobInv'
<1> USE ConstantTypes
<1>1. /\ cur' = j /\ status[j] = "none" /\ (cur # 0 => status[cur] # "running")
      /\ status' = [status EXCEPT ![j] = "running"]
      /\ timer' = [timer EXCEPT ![j] = TRUE]
      /\ UNCHANGED <<inFlight, index, flights>>
  BY DEF Start
<1>2. \A k \in Job : status[k] # "running"
  BY <1>1 DEF JobInv, ChainInv, NeverIdle, Job
<1>3. JobTypes'
  BY <1>1 DEF JobInv, JobTypes, Job
<1>4. NeverIdle'
  BY <1>1, <1>2 DEF JobInv, JobTypes, NeverIdle
<1>5. /\ \A k \in Job : timer'[k] => status'[k] = "running"
      /\ \A k \in Job : status'[k] = "running" \/ inFlight'[k] => index'[k] <= N
      /\ \A k \in Job : status'[k] = "none" => index'[k] = 0 /\ ~inFlight'[k]
  BY <1>1, <1>2 DEF JobInv, ChainInv, JobTypes
<1>6. OneCyclePerJob' /\ CycleInv' /\ \A k \in Job : inFlight'[k] => \E f \in flights' : f.job = k
  BY <1>1 DEF JobInv, ChainInv, OneCyclePerJob, CycleInv
<1> QED
  BY <1>3, <1>4, <1>5, <1>6 DEF JobInv, ChainInv

\* stop and resume leave a cycle in flight alone.
LEMMA StopKeepsJobInv ==
  ASSUME JobInv, Stop \/ Resume
  PROVE  JobInv'
<1> USE ConstantTypes
<1>1. /\ cur \in Job /\ index[cur] <= N /\ status[cur] \in {"running", "stopped", "failed"}
      /\ UNCHANGED <<cur, inFlight, index, flights>>
      /\ \/ /\ status' = [status EXCEPT ![cur] = "stopped"]
            /\ timer' = [timer EXCEPT ![cur] = FALSE]
         \/ /\ status' = [status EXCEPT ![cur] = "running"]
            /\ timer' = [timer EXCEPT ![cur] = TRUE]
  BY DEF Stop, Resume, JobInv, JobTypes, ChainInv, Job
<1>2. JobTypes'
  BY <1>1 DEF JobInv, JobTypes
<1>3. NeverIdle'
  BY <1>1 DEF JobInv, JobTypes, ChainInv, NeverIdle
<1>4. /\ \A k \in Job : timer'[k] => status'[k] = "running"
      /\ \A k \in Job : status'[k] = "running" \/ inFlight'[k] => index'[k] <= N
      /\ \A k \in Job : status'[k] = "none" => index'[k] = 0 /\ ~inFlight'[k]
  BY <1>1 DEF JobInv, ChainInv, JobTypes
<1>5. OneCyclePerJob' /\ CycleInv' /\ \A k \in Job : inFlight'[k] => \E f \in flights' : f.job = k
  BY <1>1 DEF JobInv, ChainInv, OneCyclePerJob, CycleInv
<1> QED
  BY <1>2, <1>3, <1>4, <1>5 DEF JobInv, ChainInv

\* A restart leaves no job running and no cycle in flight.
LEMMA RestartKeepsJobInv ==
  ASSUME JobInv, Restart
  PROVE  JobInv'
BY ConstantTypes DEF Restart, JobInv, JobTypes, ChainInv, CycleInv, OneCyclePerJob, NeverIdle

\* runNext takes a cycle only for a job without one.
LEMMA TimerKeepsJobInv ==
  ASSUME JobInv, NEW j \in Job, TimerFires(j)
  PROVE  JobInv'
<1> USE ConstantTypes
<1>0. timer[j] /\ timer' = [timer EXCEPT ![j] = FALSE] /\ UNCHANGED <<cur, status, index>>
      /\ status[j] = "running" /\ cur = j
  BY DEF TimerFires, JobInv, ChainInv, NeverIdle
<1>1. CASE ~Runnable(cur)
  <2>1. inFlight[j] /\ UNCHANGED <<inFlight, flights>>
    BY <1>0, <1>1 DEF TimerFires, Runnable, Job
  <2> QED
    BY <1>0, <2>1 DEF JobInv, JobTypes, ChainInv, CycleInv, OneCyclePerJob, NeverIdle
<1>2. CASE Runnable(cur)
  <2> DEFINE f == [job |-> cur, cycle |-> index[cur], amt |-> 0,
                   at |-> IF index[cur] = 0 THEN "bigBuy" ELSE NextStep(rec[cur][index[cur]])]
  <2>1. ~inFlight[j] /\ inFlight' = [inFlight EXCEPT ![j] = TRUE] /\ flights' = flights \cup {f}
    BY <1>0, <1>2 DEF TimerFires, Runnable
  <2>2. index[j] \in 0..N
    BY <1>0 DEF JobInv, JobTypes, ChainInv
  <2>3. \A r : NextStep(r) \in {"sell", "transfer", "fill", "buy"}
    BY DEF NextStep
  <2>4. f.at \in Points /\ (f.at # "bigBuy" => index[j] # 0)
    BY <1>0, <2>3 DEF Points
  <2>5. f \in Flight /\ f.job = j /\ f.cycle = index[j] /\ (f.at # "bigBuy" => f.cycle \in Wallet)
    BY <1>0, <2>2, <2>4 DEF Flight, Cycle, Wallet
  <2> HIDE DEF f
  <2>6. JobTypes'
    BY <1>0, <2>1, <2>5 DEF JobInv, JobTypes
  <2>7. OneCyclePerJob'
    <3>1. \A g \in flights : g.job \in Job /\ g.job # j
      <4>1. \A g \in flights : g.job \in Job
        BY DEF JobInv, JobTypes, Flight
      <4> QED
        BY <2>1, <4>1 DEF JobInv, ChainInv, OneCyclePerJob
    <3> QED
      BY <1>0, <2>1, <2>5, <3>1 DEF JobInv, JobTypes, ChainInv, OneCyclePerJob
  <2>8. NeverIdle'
    BY <1>0, <2>1 DEF JobInv, JobTypes, ChainInv, NeverIdle
  <2>9. \A k \in Job : inFlight'[k] => \E g \in flights' : g.job = k
    BY <2>1, <2>5 DEF JobInv, JobTypes, ChainInv
  <2>10. /\ \A k \in Job : timer'[k] => status'[k] = "running"
         /\ \A k \in Job : status'[k] = "running" \/ inFlight'[k] => index'[k] <= N
         /\ \A k \in Job : status'[k] = "none" => index'[k] = 0 /\ ~inFlight'[k]
    BY <1>0, <2>1 DEF JobInv, JobTypes, ChainInv
  <2>11. CycleInv'
    BY <2>1, <2>5 DEF JobInv, CycleInv
  <2> QED
    BY <2>6, <2>7, <2>8, <2>9, <2>10, <2>11 DEF JobInv, ChainInv
<1> QED
  BY <1>1, <1>2

-----------------------------------------------------------------------------
(* The types of the rest *)

\* The record of a cycle with flags set, or with what the sell raised.
LEMMA MarkTyped ==
  ASSUME JobInv, DataTypes, NEW f \in flights, NEW r \in Rec, Mark(f, r)
  PROVE  rec' \in [Job -> [Cycle -> Rec]]
<1>1. f.job \in Job /\ f.cycle \in Cycle /\ rec \in [Job -> [Cycle -> Rec]]
  BY FlightFields DEF JobInv, JobTypes, DataTypes
<1>2. [rec[f.job] EXCEPT ![f.cycle] = r] \in [Cycle -> Rec]
  BY <1>1
<1> QED
  BY <1>1, <1>2 DEF Mark

\* No step of a cycle takes more from the position or a wallet than is there.
LEMMA StepTypes ==
  ASSUME JobInv, DataTypes, NEW f \in flights, StepOn(f) \/ StepOff(f)
  PROVE  DataTypes'
<1> USE ConstantTypes
<1>0. /\ f \in Flight /\ f.job \in Job /\ f.cycle \in Cycle /\ f.amt \in Nat
      /\ R(f) \in Rec
      /\ (f.at # "bigBuy" => f.cycle \in Wallet)
  <2>1. f \in Flight
    BY DEF JobInv, JobTypes
  <2>2. f.job \in Job /\ f.cycle \in Cycle /\ f.amt \in Nat
    BY <2>1, FlightFields
  <2> QED
    BY <2>1, <2>2 DEF JobInv, DataTypes, R, CycleInv
<1>1. \A t \in Tally, n \in Nat : Plus(t, f.job, f.cycle, n) \in Tally
  <2> TAKE t \in Tally, n \in Nat
  <2>1. t[f.job][f.cycle] \in Nat
    BY <1>0 DEF Tally
  <2> QED
    BY <1>0, <2>1, PlusTyped
<1>2. \A t \in Tally : Plus(t, f.job, 0, 1) \in Tally
  <2> TAKE t \in Tally
  <2>1. 0 \in Cycle /\ t[f.job][0] \in Nat
    BY <1>0 DEF Tally, Cycle
  <2> QED
    BY <1>0, <2>1, PlusTyped
<1>3. /\ [R(f) EXCEPT !.transfer = TRUE] \in Rec /\ [R(f) EXCEPT !.fill = TRUE] \in Rec
      /\ [R(f) EXCEPT !.buy = TRUE] \in Rec
      /\ \A eth \in Nat : [R(f) EXCEPT !.sell = TRUE, !.raised = eth] \in Rec
      /\ \A n \in Nat : [R(f) EXCEPT !.base = n] \in Rec
  BY <1>0 DEF Rec
<1>4. CASE BigBuyLands(f)
  BY <1>2, <1>4 DEF BigBuyLands, DataTypes, boundVars
<1>5. CASE SizeSell(f) \/ FillTimeout(f) \/ SizeBuy(f) \/ Refilled(f) \/ Reverts(f)
  BY <1>5 DEF SizeSell, FillTimeout, SizeBuy, Refilled, Reverts, DataTypes, boundVars,
              chainVars, histVars
<1>6. CASE SellLands(f)
  <2>1. PICK eth \in {0, Fund} : Mark(f, [R(f) EXCEPT !.sell = TRUE, !.raised = eth])
    BY <1>6 DEF SellLands
  <2>2. rec' \in [Job -> [Cycle -> Rec]]
    BY <1>3, <2>1, MarkTyped
  <2>3. position' \in Nat
    BY <1>0, <1>6 DEF SellLands, DataTypes
  <2> QED
    BY <1>1, <1>6, <2>2, <2>3 DEF SellLands, DataTypes, boundVars
<1>7. CASE SizeTransfer(f)
  <2>1. f.cycle \in Wallet /\ ether[f.cycle] \in Nat
    BY <1>0, <1>7 DEF SizeTransfer, DataTypes
  <2>2. rec' \in [Job -> [Cycle -> Rec]]
    BY <1>3, <1>7, <2>1, MarkTyped DEF SizeTransfer, DataTypes
  <2> QED
    BY <1>7, <2>2 DEF SizeTransfer, DataTypes, chainVars, histVars, boundVars
<1>8. CASE TransferLands(f)
  <2>1. rec' \in [Job -> [Cycle -> Rec]]
    BY <1>3, <1>8, MarkTyped DEF TransferLands
  <2> QED
    BY <1>1, <1>8, <2>1 DEF TransferLands, DataTypes, boundVars
<1>9. CASE FillSeen(f)
  <2>1. rec' \in [Job -> [Cycle -> Rec]]
    BY <1>3, <1>9, MarkTyped DEF FillSeen
  <2> QED
    BY <1>9, <2>1 DEF FillSeen, DataTypes, chainVars, histVars, boundVars
<1>10. CASE BuyLands(f)
  <2>1. rec' \in [Job -> [Cycle -> Rec]]
    BY <1>3, <1>10, MarkTyped DEF BuyLands
  <2>2. ether' \in [Wallet -> Nat]
    BY <1>0, <1>10 DEF BuyLands, DataTypes
  <2> QED
    BY <1>1, <1>10, <2>1, <2>2 DEF BuyLands, DataTypes, boundVars
<1>11. CASE StepFails(f)
  BY <1>11 DEF StepFails, DataTypes, chainVars, histVars
<1>12. CASE StepLandsAndThrows(f)
  <2>1. position' \in Nat
    BY <1>0, <1>12 DEF StepLandsAndThrows, DataTypes
  <2>2. ether' \in [Wallet -> Nat]
    BY <1>0, <1>12 DEF StepLandsAndThrows, DataTypes
  <2>3. orders' \in Tally /\ sent' \in Tally /\ sold' \in Tally /\ bought' \in Tally
        /\ blind' \in Tally
    BY <1>1, <1>12 DEF StepLandsAndThrows, DataTypes
  <2> QED
    BY <1>12, <2>1, <2>2, <2>3 DEF StepLandsAndThrows, DataTypes
<1>13. ASSUME NEW kind \in {"bigBuy", "sell", "buy"}, Pending(f, kind)
       PROVE  /\ late' \subseteq Tx /\ faults' \in Nat
              /\ UNCHANGED <<position, ether, orders, sold, sent, filled, bought, resumes, restarts>>
  BY <1>0, <1>13 DEF Pending, DataTypes, Tx
<1>14. CASE BigBuyPending(f)
  BY <1>13, <1>14 DEF BigBuyPending, DataTypes
<1>15. CASE SellPending(f)
  <2>1. rec' \in [Job -> [Cycle -> Rec]]
    BY <1>3, <1>15, MarkTyped DEF SellPending, DataTypes
  <2> QED
    BY <1>1, <1>13, <1>15, <2>1 DEF SellPending, DataTypes
<1>16. CASE BuyPending(f)
  <2>1. rec' \in [Job -> [Cycle -> Rec]]
    BY <1>3, <1>16, MarkTyped DEF BuyPending
  <2> QED
    BY <1>13, <1>16, <2>1 DEF BuyPending, DataTypes
<1> QED
  BY <1>4, <1>5, <1>6, <1>7, <1>8, <1>9, <1>10, <1>11, <1>12, <1>14, <1>15, <1>16
  DEF StepOn, StepOff

\* What the chain does to ether and position.
LEMMA ChainTypes ==
  ASSUME DataTypes, Chain
  PROVE  DataTypes'
<1> USE ConstantTypes
<1>1. ASSUME NEW j \in Job, NEW i \in Wallet, FillArrives(j, i)
      PROVE  DataTypes'
  <2>1. i \in Cycle
    BY DEF Wallet, Cycle
  <2>2. orders[j][i] \in Nat /\ filled[j][i] \in Nat
    BY <2>1 DEF DataTypes, Tally
  <2>3. orders' \in Tally /\ filled' \in Tally
    BY <1>1, <2>1, <2>2, PlusTyped DEF FillArrives, DataTypes
  <2>4. ether' \in [Wallet -> Nat]
    BY <1>1 DEF FillArrives, DataTypes
  <2> QED
    BY <1>1, <2>3, <2>4 DEF FillArrives, DataTypes, boundVars
<1>2. ASSUME NEW t \in late, LateLands(t)
      PROVE  DataTypes'
  <2>1. t \in Tx /\ t.job \in Job /\ t.cycle \in Cycle /\ t.amt \in Nat
    BY DEF DataTypes, Tx
  <2>2. sold[t.job][t.cycle] \in Nat /\ bought[t.job][t.cycle] \in Nat
    BY <2>1 DEF DataTypes, Tally
  <2>3. sold' \in Tally /\ bought' \in Tally
    BY <1>2, <2>1, <2>2, PlusTyped DEF LateLands, DataTypes
  <2>4. position' \in Nat
    BY <1>2, <2>1 DEF LateLands, DataTypes
  <2>5. ether' \in [Wallet -> Nat]
    <3>1. ether \in [Wallet -> Nat]
      BY DEF DataTypes
    <3>2. CASE t.kind = "buy" /\ t.cycle \in Wallet
      <4>1. ether[t.cycle] - t.amt \in Nat
        BY <1>2, <2>1, <3>1, <3>2 DEF LateLands
      <4> QED
        BY <1>2, <3>1, <3>2, <4>1 DEF LateLands
    <3>3. CASE ~(t.kind = "buy" /\ t.cycle \in Wallet)
      BY <1>2, <3>1, <3>3 DEF LateLands
    <3> QED
      BY <3>2, <3>3
  <2> QED
    BY <1>2, <2>3, <2>4, <2>5 DEF LateLands, DataTypes, boundVars
<1>3. ASSUME NEW t \in late, LateDrops(t)
      PROVE  DataTypes'
  BY <1>3 DEF LateDrops, DataTypes, histVars, boundVars
<1> QED
  BY <1>1, <1>2, <1>3 DEF Chain

-----------------------------------------------------------------------------
(* One cycle of a job at a time, and no lost wakeup *)

IInv == JobInv /\ DataTypes

\* A process that has run nothing satisfies the invariant.
LEMMA InitIInv == Init => IInv
<1> SUFFICES ASSUME Init PROVE IInv
  OBVIOUS
<1> USE ConstantTypes
<1>1. NoneYet \in Tally
  BY DEF NoneYet, Tally
<1>2. NewRec \in Rec
  BY DEF NewRec, Rec
<1>3. DataTypes
  BY <1>1, <1>2 DEF Init, DataTypes
<1>4. JobTypes
  BY DEF Init, JobTypes
<1>5. ChainInv /\ CycleInv
  BY DEF Init, ChainInv, CycleInv, OneCyclePerJob, NeverIdle, Job
<1> QED
  BY <1>3, <1>4, <1>5 DEF IInv, JobInv

\* Every step of the operator, the timer, a cycle or the chain keeps it.
LEMMA NextIInv == IInv /\ [Next]_vars => IInv'
<1> SUFFICES ASSUME IInv, [Next]_vars PROVE IInv'
  OBVIOUS
<1>0. JobInv /\ DataTypes /\ TypeOK
  BY TypeParts DEF IInv, JobInv
<1>1. CASE Operator
  <2>1. JobInv'
    BY <1>0, <1>1, StartKeepsJobInv, StopKeepsJobInv DEF Operator
  <2>2. DataTypes'
    BY <1>0, <1>1 DEF Operator, Start, Stop, Resume, DataTypes, chainVars, histVars, boundVars
  <2> QED
    BY <2>1, <2>2 DEF IInv
<1>2. CASE Restart
  <2>1. JobInv'
    BY <1>0, <1>2, RestartKeepsJobInv
  <2>2. DataTypes'
    BY <1>0, <1>2 DEF Restart, DataTypes, chainVars, histVars
  <2> QED
    BY <2>1, <2>2 DEF IInv
<1>3. ASSUME NEW j \in Job, TimerFires(j)
      PROVE  IInv'
  <2>1. JobInv'
    BY <1>0, <1>3, TimerKeepsJobInv
  <2>2. DataTypes'
    BY <1>0, <1>3 DEF TimerFires, DataTypes, chainVars, histVars, boundVars
  <2> QED
    BY <2>1, <2>2 DEF IInv
<1>4. ASSUME NEW f \in flights, StepOn(f) \/ StepOff(f)
      PROVE  IInv'
  <2>1. JobInv'
    BY <1>0, <1>4, StepKinds, FinishKeepsJobInv, ThrowKeepsJobInv, GotoKeepsJobInv DEF JobInv
  <2>2. DataTypes'
    BY <1>0, <1>4, StepTypes
  <2> QED
    BY <2>1, <2>2 DEF IInv
<1>5. CASE Chain
  <2>1. UNCHANGED <<cur, status, inFlight, timer, index, flights>>
    BY <1>5 DEF Chain, FillArrives, LateLands, LateDrops, jobVars
  <2>2. JobInv'
    BY <1>0, <2>1 DEF JobInv, JobTypes, ChainInv, CycleInv, OneCyclePerJob, NeverIdle
  <2> QED
    BY <1>0, <1>5, <2>2, ChainTypes DEF IInv
<1>6. CASE UNCHANGED vars
  BY <1>0, <1>6 DEF vars, jobVars, chainVars, histVars, boundVars, IInv, JobInv, JobTypes,
     DataTypes, ChainInv, CycleInv, OneCyclePerJob, NeverIdle
<1> QED
  BY <1>1, <1>2, <1>3, <1>4, <1>5, <1>6 DEF Next

\* The invariant holds in every state the engine can reach.
LEMMA SpecIInv == Spec => []IInv
BY InitIInv, NextIInv, PTL DEF Spec

\* Types: index, the records and the counts stay within their sets for any number
\* of wallets, jobs and faults.
THEOREM ChainTypesHold == Spec => []TypeOK
<1>1. IInv => TypeOK
  BY TypeParts DEF IInv, JobInv
<1> QED
  BY <1>1, SpecIInv, PTL

\* Whatever stop, resume, another start and a restart do while a cycle is in
\* flight, a job runs one cycle at a time.
THEOREM OneCycle == Spec => []OneCyclePerJob
<1>1. IInv => OneCyclePerJob
  BY DEF IInv, JobInv, ChainInv
<1> QED
  BY <1>1, SpecIInv, PTL

\* A run that says it is running has a timer armed or a cycle in flight.
THEOREM NoLostWakeup == Spec => []NeverIdle
<1>1. IInv => NeverIdle
  BY DEF IInv, JobInv, ChainInv
<1> QED
  BY <1>1, SpecIInv, PTL

-----------------------------------------------------------------------------
(* No step lands twice, when every receipt comes in time *)

\* A step was landed by the run that recorded it, or blindly.
AtMost(n, recorded, b) == n <= (IF recorded THEN 1 ELSE 0) + b

\* Where a cycle is, its record says which steps are done.
AtRec(point, cycle, r) ==
  /\ point = "bigBuy" => cycle = 0
  /\ point \in {"sell", "selling"} => ~r.sell /\ ~r.transfer
  /\ point \in {"transfer", "sending"} => r.sell /\ ~r.transfer

AtInv == \A f \in flights : AtRec(f.at, f.cycle, R(f))

\* The big buy and the buys are recorded by index, which passes them; a transfer
\* is recorded only after its sell.
Counts ==
  \A j \in Job, i \in Cycle :
    /\ AtMost(sold[j][i], rec[j][i].sell, blind[j][i])
    /\ AtMost(sent[j][i], rec[j][i].transfer, blind[j][i])
    /\ AtMost(bought[j][i], i < index[j], blind[j][i])
    /\ rec[j][i].transfer => rec[j][i].sell

LandInv == AtInv /\ late = {} /\ Counts

\* Another cycle's flight is another job's.
LEMMA OthersApart ==
  ASSUME IInv, NEW f \in flights, NEW g \in flights, g # f
  PROVE  g.job # f.job
BY DEF IInv, JobInv, ChainInv, OneCyclePerJob

\* The cycle that ends or throws takes its flight with it.
LEMMA LeaveKeepsAt ==
  ASSUME IInv, AtInv, NEW f \in flights, flights' = flights \ {f},
         \/ rec' = rec
         \/ \E r \in Rec : Mark(f, r)
  PROVE  AtInv'
<1>1. \A g \in flights' : g \in flights /\ R(g)' = R(g)
  <2> TAKE g \in flights'
  <2>1. g \in flights /\ g.job # f.job
    BY OthersApart
  <2>2. f.job \in Job /\ g.job \in Job /\ rec \in [Job -> [Cycle -> Rec]]
    BY <2>1 DEF IInv, JobInv, JobTypes, DataTypes, Flight
  <2> QED
    BY <2>1, <2>2 DEF R, Mark
<1> QED
  BY <1>1 DEF AtInv

\* The cycle that goes on comes to a step that its record allows.
LEMMA GotoKeepsAt ==
  ASSUME IInv, AtInv, NEW f \in flights, NEW point \in Points, NEW n \in Nat,
         Goto(f, point, n), NEW r \in Rec, (rec' = rec /\ r = R(f)) \/ Mark(f, r),
         AtRec(point, f.cycle, r)
  PROVE  AtInv'
<1> DEFINE h == [f EXCEPT !.at = point, !.amt = n]
<1>1. /\ f.job \in Job /\ f.cycle \in Cycle /\ rec \in [Job -> [Cycle -> Rec]]
      /\ h.job = f.job /\ h.cycle = f.cycle /\ h.at = point
  BY DEF IInv, JobInv, JobTypes, DataTypes, Flight
<1>2. flights' = (flights \ {f}) \cup {h}
  BY DEF Goto
<1> HIDE DEF h
<1>3. R(h)' = r
  <2>1. CASE rec' = rec /\ r = R(f)
    BY <1>1, <2>1 DEF R
  <2>2. CASE Mark(f, r)
    BY <1>1, <2>2 DEF R, Mark
  <2> QED
    BY <2>1, <2>2
<1>4. \A g \in flights \ {f} : R(g)' = R(g)
  <2> TAKE g \in flights \ {f}
  <2>1. g.job # f.job
    BY OthersApart
  <2>2. g.job \in Job
    BY DEF IInv, JobInv, JobTypes, Flight
  <2> QED
    BY <1>1, <2>1, <2>2 DEF R, Mark
<1> QED
  BY <1>1, <1>2, <1>3, <1>4 DEF AtInv

\* A step that touches the counts and the record of one cycle only.
LEMMA CountsOfOne ==
  ASSUME Counts, NEW j \in Job, NEW c \in Cycle,
         \A k \in Job, i \in Cycle : k # j \/ i # c =>
           /\ sold'[k][i] = sold[k][i] /\ sent'[k][i] = sent[k][i]
           /\ bought'[k][i] = bought[k][i] /\ blind'[k][i] = blind[k][i]
           /\ rec'[k][i] = rec[k][i] /\ ((i < index'[k]) = (i < index[k])),
         AtMost(sold'[j][c], rec'[j][c].sell, blind'[j][c]),
         AtMost(sent'[j][c], rec'[j][c].transfer, blind'[j][c]),
         AtMost(bought'[j][c], c < index'[j], blind'[j][c]),
         rec'[j][c].transfer => rec'[j][c].sell
  PROVE  Counts'
<1> SUFFICES ASSUME NEW k \in Job, NEW i \in Cycle
             PROVE  /\ AtMost(sold'[k][i], rec'[k][i].sell, blind'[k][i])
                    /\ AtMost(sent'[k][i], rec'[k][i].transfer, blind'[k][i])
                    /\ AtMost(bought'[k][i], i < index'[k], blind'[k][i])
                    /\ rec'[k][i].transfer => rec'[k][i].sell
  BY DEF Counts
<1>1. CASE k = j /\ i = c
  BY <1>1
<1>2. CASE k # j \/ i # c
  BY <1>2 DEF Counts
<1> QED
  BY <1>1, <1>2

\* A cycle that ends is passed by index, and no other is.
LEMMA IndexPasses ==
  ASSUME index \in [Job -> 0..(N + 1)], NEW j \in Job, NEW c \in Cycle, c = index[j],
         index' = [index EXCEPT ![j] = c + 1]
  PROVE  /\ ~(c < index[j]) /\ c < index'[j]
         /\ \A k \in Job, i \in Cycle : k # j \/ i # c => (i < index'[k]) = (i < index[k])
<1> USE ConstantTypes DEF Cycle
<1>1. index'[j] = c + 1 /\ \A k \in Job : k # j => index'[k] = index[k]
  OBVIOUS
<1>2. \A i \in Cycle : i # c => (i < c + 1) = (i < c)
  OBVIOUS
<1> QED
  BY <1>1, <1>2

\* A step that lands is counted and recorded together, or counted and blind.
LEMMA StepKeepsLandInv ==
  ASSUME IInv, LandInv, ~Slow, NEW f \in flights, StepOn(f) \/ StepOff(f)
  PROVE  LandInv'
<1> USE ConstantTypes
<1> DEFINE j == f.job
           c == f.cycle
<1>0. /\ j \in Job /\ c \in Cycle /\ c = index[j] /\ R(f) = rec[j][c] /\ R(f) \in Rec
      /\ rec \in [Job -> [Cycle -> Rec]] /\ f.at \in Points /\ f.amt \in Nat
      /\ index \in [Job -> 0..(N + 1)]
      /\ sold \in Tally /\ sent \in Tally /\ bought \in Tally /\ blind \in Tally
  BY DEF IInv, JobInv, JobTypes, DataTypes, ChainInv, OneCyclePerJob, Flight, R
<1>0a. j \in Job /\ c \in Cycle /\ c = index[j] /\ index \in [Job -> 0..(N + 1)]
  BY <1>0
<1>1. AtInv /\ late = {} /\ Counts /\ AtRec(f.at, c, R(f))
  BY DEF LandInv, AtInv
<1>2. \A t \in Tally, k \in Job, i \in Cycle : t[k][i] \in Nat
  BY DEF Tally
<1>3. \A t \in Tally, n \in Nat : \A k \in Job, i \in Cycle :
        Plus(t, j, c, n)[k][i] = IF k = j /\ i = c THEN t[k][i] + n ELSE t[k][i]
  <2> TAKE t \in Tally, n \in Nat
  <2>1. t[j][c] \in Nat
    BY <1>0, <1>2
  <2>2. t[j][c] + n >= 0
    BY <2>1
  <2> QED
    BY <1>0, <2>2, PlusTyped
<1>4. ASSUME NEW r \in Rec, Mark(f, r)
      PROVE  \A k \in Job, i \in Cycle :
               rec'[k][i] = IF k = j /\ i = c THEN r ELSE rec[k][i]
  BY <1>0, <1>4 DEF Mark
<1>5. /\ [R(f) EXCEPT !.transfer = TRUE] \in Rec /\ [R(f) EXCEPT !.fill = TRUE] \in Rec
      /\ [R(f) EXCEPT !.buy = TRUE] \in Rec
      /\ \A eth \in Nat : [R(f) EXCEPT !.sell = TRUE, !.raised = eth] \in Rec
      /\ \A n \in Nat : [R(f) EXCEPT !.base = n] \in Rec
  BY <1>0 DEF Rec
<1>6. \A k \in Job, i \in Cycle : rec[k][i] \in Rec /\ index[k] \in Nat /\ i \in Nat
  BY <1>0 DEF Cycle
<1>7. CASE Throw(f) /\ UNCHANGED <<rec, late, sold, sent, bought, blind>>
  <2>1. flights' = flights \ {f} /\ index' = index
    BY <1>7 DEF Throw
  <2>2. AtInv'
    BY <1>1, <1>7, <2>1, LeaveKeepsAt
  <2> QED
    BY <1>1, <1>7, <2>1, <2>2 DEF LandInv, Counts
<1>8. CASE BigBuyLands(f)
  <2>1. c = 0 /\ flights' = flights \ {f} /\ index' = [index EXCEPT ![j] = c + 1]
    BY <1>1, <1>8 DEF BigBuyLands, AtRec, Finish
  <2>2. AtInv'
    BY <1>1, <1>8, <2>1, LeaveKeepsAt DEF BigBuyLands
  <2>3. Counts'
    <3>1. \A k \in Job, i \in Cycle :
            bought'[k][i] = IF k = j /\ i = c THEN bought[k][i] + 1 ELSE bought[k][i]
      <4>1. bought' = Plus(bought, j, c, 1)
        BY <1>8, <2>1 DEF BigBuyLands
      <4>2. bought \in Tally /\ 1 \in Nat
        BY <1>0
      <4> HIDE DEF j, c
      <4> QED
        BY <1>3, <4>1, <4>2
    <3>2. UNCHANGED <<rec, sold, sent, blind>>
      BY <1>8 DEF BigBuyLands
    <3>3. ~(c < index[j]) /\ c < index'[j]
          /\ \A k \in Job, i \in Cycle : k # j \/ i # c => (i < index'[k]) = (i < index[k])
      <4>1. index' = [index EXCEPT ![j] = c + 1]
        BY <2>1
      <4> HIDE DEF j, c
      <4> QED
        BY <1>0a, <4>1, IndexPasses
    <3>4. AtMost(bought'[j][c], c < index'[j], blind'[j][c])
      <4>1. AtMost(bought[j][c], c < index[j], blind[j][c])
        BY <1>0, <1>1 DEF Counts
      <4>2. bought'[j][c] = bought[j][c] + 1 /\ blind'[j][c] = blind[j][c]
            /\ bought[j][c] \in Nat /\ blind[j][c] \in Nat
        BY <1>0, <1>2, <3>1, <3>2
      <4> QED
        BY <3>3, <4>1, <4>2 DEF AtMost
    <3> QED
      BY <1>0, <1>1, <3>1, <3>2, <3>3, <3>4, CountsOfOne DEF Counts
  <2> QED
    BY <1>1, <1>8, <2>2, <2>3 DEF BigBuyLands, LandInv
<1>9. CASE SizeSell(f) /\ ~Throw(f)
  <2>1. PICK n \in Slice(f) : Goto(f, "selling", n)
    BY <1>9 DEF SizeSell
  <2>2. n \in Nat
    BY DEF Slice, IInv, DataTypes
  <2>3. AtRec("selling", c, R(f))
    BY <1>1, <1>9 DEF SizeSell, AtRec
  <2>4. AtInv'
    BY <1>0, <1>1, <1>9, <2>1, <2>2, <2>3, GotoKeepsAt DEF SizeSell, Points
  <2> QED
    BY <1>1, <1>9, <2>1, <2>4
    DEF SizeSell, LandInv, Counts, Goto, jobVars, chainVars, histVars
<1>10. CASE SellLands(f)
  <2>1. PICK eth \in {0, Fund} : Mark(f, [R(f) EXCEPT !.sell = TRUE, !.raised = eth])
    BY <1>10 DEF SellLands
  <2> DEFINE r == [R(f) EXCEPT !.sell = TRUE, !.raised = eth]
  <2>2. r \in Rec /\ r.sell /\ r.transfer = R(f).transfer /\ Mark(f, r)
    BY <1>0, <1>5, <2>1 DEF Rec
  <2>3. ~R(f).sell /\ ~R(f).transfer
    BY <1>1, <1>10 DEF SellLands, AtRec
  <2> HIDE DEF r
  <2>4. AtInv'
    BY <1>1, <1>10, <2>2, <2>3, GotoKeepsAt DEF SellLands, Points, AtRec
  <2>5. Counts'
    <3>1. \A k \in Job, i \in Cycle :
            sold'[k][i] = IF k = j /\ i = c THEN sold[k][i] + 1 ELSE sold[k][i]
      <4>1. sold' = Plus(sold, f.job, f.cycle, 1)
        BY <1>10 DEF SellLands
      <4>2. \A k \in Job, i \in Cycle :
              Plus(sold, j, c, 1)[k][i] = IF k = j /\ i = c THEN sold[k][i] + 1 ELSE sold[k][i]
        BY <1>0, <1>3
      <4> QED
        BY <4>1, <4>2
    <3>2. UNCHANGED <<index, bought, sent, blind>>
      BY <1>10 DEF SellLands, Goto, jobVars
    <3>3. \A k \in Job, i \in Cycle :
            rec'[k][i] = IF k = j /\ i = c THEN r ELSE rec[k][i]
      BY <1>4, <2>2
    <3> QED
      BY <1>0, <1>1, <1>2, <1>6, <2>2, <2>3, <3>1, <3>2, <3>3 DEF Counts, AtMost
  <2> QED
    BY <1>1, <1>10, <2>4, <2>5 DEF SellLands, LandInv
<1>11. CASE SizeTransfer(f) /\ ~(R(f).raised <= Gas)
  <2> DEFINE r == [R(f) EXCEPT !.base = IF Engine = "v3" THEN 0 ELSE ether[f.cycle]]
  <2>1. Goto(f, "sending", Fund) /\ Mark(f, r) /\ f.at = "transfer"
        /\ UNCHANGED <<chainVars, histVars>>
    BY <1>11 DEF SizeTransfer
  <2>2. r \in Rec /\ r.sell = R(f).sell /\ r.transfer = R(f).transfer
    <3>1. f.cycle \in Wallet
      BY <2>1 DEF IInv, JobInv, CycleInv
    <3>2. ether[f.cycle] \in Nat
      BY <3>1 DEF IInv, DataTypes
    <3> QED
      BY <1>0, <1>5, <3>2 DEF Rec
  <2>3. AtRec("sending", c, r)
    BY <1>1, <2>1, <2>2 DEF AtRec
  <2> HIDE DEF r
  <2>4. AtInv'
    BY <1>1, <2>1, <2>2, <2>3, GotoKeepsAt DEF Points
  <2>5. Counts'
    BY <1>0, <1>1, <1>2, <1>4, <1>6, <2>1, <2>2
    DEF Counts, AtMost, Goto, jobVars, histVars
  <2> QED
    BY <1>1, <2>1, <2>4, <2>5 DEF LandInv, chainVars
<1>12. CASE TransferLands(f)
  <2> DEFINE r == [R(f) EXCEPT !.transfer = TRUE]
  <2>1. r \in Rec /\ r.sell = R(f).sell /\ r.transfer /\ Mark(f, r)
    BY <1>0, <1>5, <1>12 DEF TransferLands, Rec
  <2>2. R(f).sell /\ ~R(f).transfer
    BY <1>1, <1>12 DEF TransferLands, AtRec
  <2> HIDE DEF r
  <2>3. AtInv'
    BY <1>1, <1>12, <2>1, GotoKeepsAt DEF TransferLands, Points, AtRec
  <2>4. Counts'
    <3>1. \A k \in Job, i \in Cycle :
            sent'[k][i] = IF k = j /\ i = c THEN sent[k][i] + 1 ELSE sent[k][i]
      <4>1. sent' = Plus(sent, j, c, 1)
        BY <1>12 DEF TransferLands
      <4> QED
        BY <1>0, <1>3, <4>1
    <3>2. UNCHANGED <<index, bought, sold, blind>>
      BY <1>12 DEF TransferLands, Goto, jobVars
    <3>3. \A k \in Job, i \in Cycle :
            rec'[k][i] = IF k = j /\ i = c THEN r ELSE rec[k][i]
      BY <1>4, <2>1
    <3> QED
      <4>1. AtMost(sent'[j][c], rec'[j][c].transfer, blind'[j][c])
        <5>1. AtMost(sent[j][c], rec[j][c].transfer, blind[j][c])
          BY <1>0, <1>1 DEF Counts
        <5>2. sent'[j][c] = sent[j][c] + 1 /\ blind'[j][c] = blind[j][c] /\ rec'[j][c] = r
              /\ sent[j][c] \in Nat /\ blind[j][c] \in Nat
          BY <1>0, <1>2, <3>1, <3>2, <3>3
        <5> QED
          BY <1>0, <2>1, <2>2, <5>1, <5>2 DEF AtMost
      <4>2. rec'[j][c].sell = rec[j][c].sell /\ rec[j][c].sell
        BY <1>0, <2>1, <2>2, <3>3
      <4>3. AtMost(sold'[j][c], rec'[j][c].sell, blind'[j][c])
            /\ AtMost(bought'[j][c], c < index'[j], blind'[j][c])
        BY <1>0a, <1>1, <3>2, <4>2 DEF Counts
      <4>4. \A k \in Job, i \in Cycle : k # j \/ i # c =>
              /\ sold'[k][i] = sold[k][i] /\ sent'[k][i] = sent[k][i]
              /\ bought'[k][i] = bought[k][i] /\ blind'[k][i] = blind[k][i]
              /\ rec'[k][i] = rec[k][i] /\ (i < index'[k]) = (i < index[k])
        BY <3>1, <3>2, <3>3
      <4>5. rec'[j][c].transfer => rec'[j][c].sell
        BY <4>2
      <4> HIDE DEF j, c
      <4> QED
        BY <1>0a, <1>1, <4>1, <4>3, <4>4, <4>5, CountsOfOne
  <2> QED
    BY <1>1, <1>12, <2>3, <2>4 DEF TransferLands, LandInv
<1>13. CASE FillSeen(f)
  <2> DEFINE r == [R(f) EXCEPT !.fill = TRUE]
  <2>1. r \in Rec /\ r.sell = R(f).sell /\ r.transfer = R(f).transfer /\ Mark(f, r)
    BY <1>0, <1>5, <1>13 DEF FillSeen, Rec
  <2> HIDE DEF r
  <2>2. AtInv'
    BY <1>1, <1>13, <2>1, GotoKeepsAt DEF FillSeen, Points, AtRec
  <2>3. Counts'
    BY <1>0, <1>1, <1>2, <1>4, <1>6, <1>13, <2>1
    DEF FillSeen, Counts, AtMost, Goto, jobVars, histVars
  <2> QED
    BY <1>1, <1>13, <2>2, <2>3 DEF FillSeen, LandInv, chainVars
<1>14. CASE (SizeBuy(f) \/ Refilled(f)) /\ ~Throw(f)
  <2>1. PICK point \in {"buying", "refill", "rebuy"}, n \in Nat : Goto(f, point, n)
    <3>1. f.cycle \in Wallet
      BY <1>14 DEF SizeBuy, Refilled, IInv, JobInv, CycleInv
    <3>2. ether[f.cycle] > Gas => ether[f.cycle] - Gas \in Nat
      BY <3>1 DEF IInv, DataTypes
    <3> QED
      BY <1>14, <3>2 DEF SizeBuy, Refilled
  <2>2. UNCHANGED <<rec, late, sold, sent, bought, blind>>
    BY <1>14 DEF SizeBuy, Refilled, chainVars, histVars
  <2>3. AtInv'
    BY <1>0, <1>1, <2>1, <2>2, GotoKeepsAt DEF Points, AtRec
  <2> QED
    BY <1>1, <2>1, <2>2, <2>3 DEF LandInv, Counts, Goto, jobVars
<1>15. CASE BuyLands(f)
  <2> DEFINE r == [R(f) EXCEPT !.buy = TRUE]
  <2>1. r \in Rec /\ r.sell = R(f).sell /\ r.transfer = R(f).transfer /\ Mark(f, r)
    BY <1>0, <1>5, <1>15 DEF BuyLands, Rec
  <2>2. flights' = flights \ {f} /\ index' = [index EXCEPT ![j] = c + 1]
    BY <1>15 DEF BuyLands, Finish
  <2> HIDE DEF r
  <2>3. AtInv'
    BY <1>1, <2>1, <2>2, LeaveKeepsAt
  <2>4. Counts'
    <3>1. \A k \in Job, i \in Cycle :
            bought'[k][i] = IF k = j /\ i = c THEN bought[k][i] + 1 ELSE bought[k][i]
      <4>1. bought' = Plus(bought, j, c, 1)
        BY <1>15 DEF BuyLands
      <4>2. bought \in Tally /\ 1 \in Nat
        BY <1>0
      <4> HIDE DEF j, c
      <4> QED
        BY <1>3, <4>1, <4>2
    <3>2. UNCHANGED <<sold, sent, blind>>
      BY <1>15 DEF BuyLands
    <3>3. \A k \in Job, i \in Cycle :
            rec'[k][i] = IF k = j /\ i = c THEN r ELSE rec[k][i]
      BY <1>4, <2>1
    <3> QED
      <4>1. ~(c < index[j]) /\ c < index'[j]
            /\ \A k \in Job, i \in Cycle : k # j \/ i # c => (i < index'[k]) = (i < index[k])
        <5>1. index' = [index EXCEPT ![j] = c + 1]
          BY <2>2
        <5> HIDE DEF j, c
        <5> QED
          BY <1>0a, <5>1, IndexPasses
      <4>2. AtMost(bought'[j][c], c < index'[j], blind'[j][c])
        <5>1. AtMost(bought[j][c], c < index[j], blind[j][c])
          BY <1>0, <1>1 DEF Counts
        <5>2. bought'[j][c] = bought[j][c] + 1 /\ blind'[j][c] = blind[j][c]
              /\ bought[j][c] \in Nat /\ blind[j][c] \in Nat
          BY <1>0, <1>2, <3>1, <3>2
        <5> QED
          BY <4>1, <5>1, <5>2 DEF AtMost
      <4> QED
        BY <1>0, <1>1, <2>1, <3>1, <3>2, <3>3, <4>1, <4>2, CountsOfOne DEF Counts
  <2> QED
    BY <1>1, <1>15, <2>3, <2>4 DEF BuyLands, LandInv
<1>16. CASE StepLandsAndThrows(f)
  <2>1. /\ flights' = flights \ {f} /\ index' = index
        /\ UNCHANGED <<rec, late>>
    BY <1>16 DEF StepLandsAndThrows, Throw
  <2>2. AtInv'
    BY <1>1, <2>1, LeaveKeepsAt
  <2>3. \E a, b, d \in {0, 1} :
          /\ sent' = Plus(sent, j, c, a) /\ sold' = Plus(sold, j, c, b)
          /\ bought' = Plus(bought, j, c, d) /\ blind' = Plus(blind, j, c, 1)
    BY <1>16 DEF StepLandsAndThrows
  <2>4. Counts'
    <3>1. PICK a, b, d \in {0, 1} :
            /\ sent' = Plus(sent, j, c, a) /\ sold' = Plus(sold, j, c, b)
            /\ bought' = Plus(bought, j, c, d) /\ blind' = Plus(blind, j, c, 1)
      BY <2>3
    <3>2. \A k \in Job, i \in Cycle :
            /\ sent'[k][i] = IF k = j /\ i = c THEN sent[k][i] + a ELSE sent[k][i]
            /\ sold'[k][i] = IF k = j /\ i = c THEN sold[k][i] + b ELSE sold[k][i]
            /\ bought'[k][i] = IF k = j /\ i = c THEN bought[k][i] + d ELSE bought[k][i]
            /\ blind'[k][i] = IF k = j /\ i = c THEN blind[k][i] + 1 ELSE blind[k][i]
      BY <1>0, <1>3, <3>1
    <3> QED
      BY <1>0, <1>1, <1>2, <1>6, <2>1, <3>2 DEF Counts, AtMost
  <2> QED
    BY <1>1, <2>1, <2>2, <2>4 DEF LandInv
<1>17. ~(BigBuyPending(f) \/ SellPending(f) \/ BuyPending(f))
  BY DEF BigBuyPending, SellPending, BuyPending, Pending
<1>18. CASE StepFails(f) \/ FillTimeout(f) \/ Reverts(f)
  BY <1>7, <1>18 DEF StepFails, FillTimeout, Reverts, chainVars, histVars
<1>19. CASE (SizeSell(f) \/ SizeBuy(f)) /\ Throw(f)
  <2>1. UNCHANGED <<rec, late, sold, sent, bought, blind>>
    BY <1>19 DEF SizeSell, SizeBuy, chainVars, histVars
  <2> QED
    BY <1>7, <1>19, <2>1
<1>20. CASE SizeTransfer(f) /\ R(f).raised <= Gas
  BY <1>7, <1>20 DEF SizeTransfer, chainVars, histVars
<1>21. Refilled(f) => ~Throw(f) \/ UNCHANGED <<rec, late, sold, sent, bought, blind>>
  BY DEF Refilled, chainVars, histVars
<1> QED
  BY <1>7, <1>8, <1>9, <1>10, <1>11, <1>12, <1>13, <1>14, <1>15, <1>16, <1>17, <1>18, <1>19,
     <1>20, <1>21
  DEF StepOn, StepOff

\* runNext takes a cycle at the first step its record does not have.
LEMMA TimerKeepsLandInv ==
  ASSUME IInv, LandInv, NEW j \in Job, TimerFires(j)
  PROVE  LandInv'
<1>1. UNCHANGED <<rec, late, sold, sent, bought, blind, index>>
  BY DEF TimerFires, chainVars, histVars
<1>2. late' = {} /\ Counts'
  BY <1>1 DEF LandInv, Counts
<1>3. \A f \in flights : R(f)' = R(f)
  BY <1>1 DEF R
<1>4. CASE ~Runnable(cur)
  BY <1>2, <1>3, <1>4 DEF TimerFires, LandInv, AtInv
<1>5. CASE Runnable(cur)
  <2> DEFINE f == [job |-> cur, cycle |-> index[cur], amt |-> 0,
                   at |-> IF index[cur] = 0 THEN "bigBuy" ELSE NextStep(rec[cur][index[cur]])]
             r == rec[cur][index[cur]]
  <2>1. flights' = flights \cup {f}
    BY <1>5 DEF TimerFires
  <2>2. rec'[f.job][f.cycle] = r
    BY <1>1
  <2>3. r.transfer => r.sell
    <3>1. cur \in Job /\ status[cur] = "running"
      BY <1>5 DEF Runnable, IInv, JobInv, JobTypes, Job
    <3>2. index[cur] \in Cycle
      BY <3>1 DEF IInv, JobInv, JobTypes, ChainInv, Cycle
    <3> QED
      BY <3>1, <3>2 DEF LandInv, Counts
  <2>4. AtRec(f.at, f.cycle, r)
    <3>1. CASE index[cur] = 0
      BY <3>1 DEF AtRec
    <3>2. CASE index[cur] # 0
      <4>1. AtRec(NextStep(r), f.cycle, r)
        BY <2>3 DEF AtRec, NextStep
      <4> QED
        BY <3>2, <4>1
    <3> QED
      BY <3>1, <3>2
  <2> HIDE DEF f, r
  <2>5. AtInv'
    <3>1. \A g \in flights' : rec'[g.job][g.cycle] = IF g = f THEN r ELSE rec[g.job][g.cycle]
      BY <1>1, <2>1, <2>2
    <3> QED
      BY <2>1, <2>2, <2>4, <3>1 DEF LandInv, AtInv, R
  <2> QED
    BY <1>2, <2>5 DEF LandInv
<1> QED
  BY <1>4, <1>5

\* The counts are kept by every step, as long as no receipt is late.
LEMMA NextLandInv == ~Slow /\ IInv /\ LandInv /\ [Next]_vars => LandInv'
<1> SUFFICES ASSUME ~Slow, IInv, LandInv, [Next]_vars PROVE LandInv'
  OBVIOUS
<1>1. CASE Operator \/ Restart \/ Chain \/ UNCHANGED vars
  <2>1. UNCHANGED <<rec, late, sold, sent, bought, blind, index>> /\ flights' \subseteq flights
    <3>1. CASE Operator \/ Restart
      BY <3>1 DEF Operator, Start, Stop, Resume, Restart, chainVars, histVars
    <3>2. CASE Chain
      BY <3>2 DEF Chain, FillArrives, LateLands, LateDrops, LandInv, jobVars
    <3>3. CASE UNCHANGED vars
      BY <3>3 DEF vars, jobVars, chainVars, histVars
    <3> QED
      BY <1>1, <3>1, <3>2, <3>3
  <2> QED
    BY <2>1 DEF LandInv, AtInv, Counts, R
<1>2. ASSUME NEW j \in Job, TimerFires(j)
      PROVE  LandInv'
  BY <1>2, TimerKeepsLandInv
<1>3. ASSUME NEW f \in flights, StepOn(f) \/ StepOff(f)
      PROVE  LandInv'
  BY <1>3, StepKeepsLandInv
<1> QED
  BY <1>1, <1>2, <1>3 DEF Next

\* Nothing has landed before the first run.
LEMMA InitLandInv == Init => LandInv
BY ConstantTypes DEF Init, LandInv, AtInv, Counts, AtMost, NoneYet, NewRec, Job, Cycle

\* What the record and the blind steps account for is at most one each.
LEMMA LandInvLands == IInv /\ LandInv => StepsLandOnce
<1> SUFFICES ASSUME IInv, LandInv, NEW j \in Job, NEW i \in Cycle
             PROVE  {sold[j][i], sent[j][i], bought[j][i]} \subseteq 0..(1 + blind[j][i])
  BY DEF StepsLandOnce
<1>1. sold[j][i] \in Nat /\ sent[j][i] \in Nat /\ bought[j][i] \in Nat /\ blind[j][i] \in Nat
  BY DEF IInv, DataTypes, Tally
<1> QED
  BY <1>1 DEF LandInv, Counts, AtMost

\* Whatever fails, lands without returning, is stopped, resumed or lost in a
\* restart: no cycle sells, transfers or buys twice but for the steps that did not
\* return.  This is where every receipt comes in time.
THEOREM StepsLand == ~Slow => (Spec => []StepsLandOnce)
<1> SUFFICES ASSUME ~Slow PROVE Spec => []StepsLandOnce
  OBVIOUS
<1>1. IInv /\ LandInv /\ [Next]_vars => LandInv'
  BY NextLandInv
<1> QED
  BY <1>1, SpecIInv, InitLandInv, LandInvLands, PTL DEF Spec

-----------------------------------------------------------------------------
(* A fill is taken as arrived only when there was one *)

\* No order for the wallet, of any run, has been filled.
NoFillYet(i) == \A k \in Job : filled[k][i] = 0

\* Without a fill a wallet holds no more than when its base was read, so the rise
\* that v6 and v7 wait for does not come.
FillInv ==
  /\ \A f \in flights : f.at = "fill" => R(f).transfer
  /\ \A f \in flights : f.at = "sending" /\ NoFillYet(f.cycle) => ether[f.cycle] <= R(f).base
  /\ \A j \in Job, i \in Wallet :
       rec[j][i].transfer /\ NoFillYet(i) => ether[i] <= rec[j][i].base
  /\ \A j \in Job, i \in Wallet : rec[j][i].fill => ~NoFillYet(i)

\* What a cycle marks is its own record.
LEMMA RecOfOne ==
  ASSUME IInv, NEW f \in flights, NEW r \in Rec, Mark(f, r)
  PROVE  \A k \in Job, i \in Cycle :
           rec'[k][i] = IF k = f.job /\ i = f.cycle THEN r ELSE rec[k][i]
BY FlightFields DEF IInv, JobInv, JobTypes, DataTypes, Mark

\* The record of a flight that stays is not touched by another's step.
LEMMA OthersKeepTheirs ==
  ASSUME IInv, NEW f \in flights, NEW g \in flights, g # f,
         rec' = rec \/ \E r \in Rec : Mark(f, r)
  PROVE  R(g)' = R(g)
<1>1. g.job # f.job /\ g.job \in Job /\ g.cycle \in Cycle
  BY OthersApart DEF IInv, JobInv, JobTypes, Flight
<1> QED
  BY <1>1, RecOfOne DEF R

\* A step of a cycle fills nothing and never adds to what a wallet holds.
LEMMA StepSpends ==
  ASSUME IInv, NEW f \in flights, StepOn(f) \/ StepOff(f)
  PROVE  filled' = filled /\ \A i \in Wallet : ether'[i] \in Nat /\ ether'[i] <= ether[i]
<1>1. ether \in [Wallet -> Nat] /\ f.amt \in Nat /\ DataTypes'
  BY StepTypes DEF IInv, JobInv, JobTypes, DataTypes, Flight
<1>2. filled' = filled /\ (ether' = ether \/ ether' = [ether EXCEPT ![f.cycle] = @ - f.amt])
  BY DEF StepOn, StepOff, BigBuyLands, SizeSell, SellLands, SizeTransfer, TransferLands,
         FillSeen, FillTimeout, SizeBuy, Refilled, BuyLands, Reverts, StepFails,
         StepLandsAndThrows, BigBuyPending, SellPending, BuyPending, Pending, chainVars, histVars
<1>3. ether' \in [Wallet -> Nat]
  BY <1>1 DEF DataTypes
<1> QED
  BY <1>1, <1>2, <1>3

\* A step that leaves the transfer and the base of its cycle as they are, and does not
\* bring it to its transfer or its fill, keeps FillInv.
LEMMA OtherStepsKeepFillInv ==
  ASSUME IInv, FillInv, NEW f \in flights, StepOn(f) \/ StepOff(f),
         \/ rec' = rec
         \/ \E r \in Rec : /\ Mark(f, r) /\ r.base = R(f).base
                           /\ r.transfer = R(f).transfer /\ r.fill = R(f).fill,
         \A g \in flights' : g \in flights \ {f} \/ g.at \notin {"sending", "fill"}
  PROVE  FillInv'
<1>1. filled' = filled /\ \A i \in Wallet : ether'[i] \in Nat /\ ether'[i] <= ether[i]
  BY StepSpends
<1>2. \A i : NoFillYet(i)' <=> NoFillYet(i)
  BY <1>1 DEF NoFillYet
<1>3. \A j \in Job, i \in Cycle : /\ rec'[j][i].base = rec[j][i].base
                                 /\ rec'[j][i].transfer = rec[j][i].transfer
                                 /\ rec'[j][i].fill = rec[j][i].fill
  BY RecOfOne DEF R
<1>4. \A g \in flights \ {f} : R(g)' = R(g)
  BY OthersKeepTheirs
<1>5. /\ \A g \in flights : g.at = "sending" => g.cycle \in Wallet
      /\ ether \in [Wallet -> Nat] /\ rec \in [Job -> [Cycle -> Rec]]
      /\ Wallet \subseteq Cycle
  BY DEF IInv, JobInv, CycleInv, DataTypes, Wallet, Cycle
<1>6. \A g \in flights : R(g).base \in Nat
  BY <1>5 DEF R, Rec, IInv, JobInv, JobTypes, Flight
<1>7. \A j \in Job, i \in Wallet : rec[j][i].base \in Nat
  BY <1>5 DEF Rec
<1>8. \A g \in flights' : g.at = "fill" => R(g)'.transfer
  BY <1>4 DEF FillInv
<1>9. \A g \in flights' :
        g.at = "sending" /\ NoFillYet(g.cycle)' => ether'[g.cycle] <= R(g)'.base
  <2> SUFFICES ASSUME NEW g \in flights', g.at = "sending", NoFillYet(g.cycle)
               PROVE  ether'[g.cycle] <= R(g)'.base
    BY <1>2
  <2>1. g \in flights \ {f} /\ R(g)' = R(g) /\ g.cycle \in Wallet
    BY <1>4, <1>5
  <2>2. ether[g.cycle] <= R(g).base
    BY <2>1 DEF FillInv
  <2> QED
    BY <1>1, <1>5, <1>6, <2>1, <2>2
<1>10. \A j \in Job, i \in Wallet :
         rec'[j][i].transfer /\ NoFillYet(i)' => ether'[i] <= rec'[j][i].base
  <2> SUFFICES ASSUME NEW j \in Job, NEW i \in Wallet, rec[j][i].transfer, NoFillYet(i)
               PROVE  ether'[i] <= rec[j][i].base
    BY <1>2, <1>3, <1>5
  <2> QED
    BY <1>1, <1>5, <1>7 DEF FillInv
<1>11. \A j \in Job, i \in Wallet : rec'[j][i].fill => ~NoFillYet(i)'
  BY <1>2, <1>3, <1>5 DEF FillInv
<1> QED
  BY <1>8, <1>9, <1>10, <1>11 DEF FillInv

\* A record with one flag or number changed is a record.
LEMMA RecChanges ==
  ASSUME NEW r \in Rec
  PROVE  /\ LET s == [r EXCEPT !.transfer = TRUE]
            IN s \in Rec /\ s = [r EXCEPT !.transfer = TRUE] /\ s.transfer /\ s.sell = r.sell
                 /\ s.base = r.base /\ s.fill = r.fill
         /\ LET s == [r EXCEPT !.fill = TRUE]
            IN s \in Rec /\ s.fill /\ s.sell = r.sell /\ s.base = r.base /\ s.transfer = r.transfer
         /\ LET s == [r EXCEPT !.buy = TRUE]
            IN s \in Rec /\ s.sell = r.sell /\ s.base = r.base /\ s.transfer = r.transfer
                 /\ s.fill = r.fill
         /\ \A eth \in Nat : LET s == [r EXCEPT !.sell = TRUE, !.raised = eth]
            IN s \in Rec /\ s.sell /\ s.base = r.base /\ s.transfer = r.transfer
                 /\ s.fill = r.fill
         /\ \A n \in Nat : LET s == [r EXCEPT !.base = n]
            IN s \in Rec /\ s.sell = r.sell /\ s.base = n /\ s.transfer = r.transfer
                 /\ s.fill = r.fill
BY DEF Rec

\* The base is read when nothing is under way for the wallet, and the fill that is
\* seen is a rise above it.
LEMMA StepKeepsFillInv ==
  ASSUME IInv, FillInv, Engine = "v6", NEW f \in flights, StepOn(f) \/ StepOff(f)
  PROVE  FillInv'
<1> USE ConstantTypes
<1> DEFINE j == f.job
           c == f.cycle
<1>0. /\ f \in Flight /\ j \in Job /\ c \in Cycle /\ f.at \in Points /\ f.amt \in Nat
      /\ R(f) \in Rec /\ R(f) = rec[j][c] /\ rec \in [Job -> [Cycle -> Rec]]
      /\ ether \in [Wallet -> Nat] /\ Wallet \subseteq Cycle
      /\ (f.at # "bigBuy" => c \in Wallet)
  BY DEF IInv, JobInv, JobTypes, CycleInv, DataTypes, Flight, R, Wallet, Cycle
<1>1. filled' = filled /\ \A i \in Wallet : ether'[i] \in Nat /\ ether'[i] <= ether[i]
  BY StepSpends
<1>2. \A i : NoFillYet(i)' <=> NoFillYet(i)
  BY <1>1 DEF NoFillYet
<1>3. \A r \in Rec : Mark(f, r) => /\ \A g \in flights \ {f} : R(g)' = R(g)
                                  /\ \A k \in Job, i \in Cycle :
                                       rec'[k][i] = IF k = j /\ i = c THEN r ELSE rec[k][i]
  BY OthersKeepTheirs, RecOfOne
<1>4. \A k \in Job, i \in Wallet : rec[k][i].base \in Nat
  BY <1>0 DEF Rec
<1>5. \A g \in flights \ {f} : g.at = "sending" => g.cycle \in Wallet
  BY DEF IInv, JobInv, CycleInv
<1>6. CASE SizeTransfer(f) /\ ~(R(f).raised <= Gas)
  <2> DEFINE r == [R(f) EXCEPT !.base = ether[c]]
             h == [f EXCEPT !.at = "sending", !.amt = Fund]
  <2>1. f.at = "transfer" /\ flights' = (flights \ {f}) \cup {h} /\ Mark(f, r) /\ ether' = ether
    BY <1>6 DEF SizeTransfer, Goto, chainVars
  <2>2. c \in Wallet /\ ether[c] \in Nat
    BY <1>0, <2>1
  <2>3. r \in Rec /\ r.base = ether[c] /\ r.transfer = R(f).transfer /\ r.fill = R(f).fill
    BY <1>0, <2>2, RecChanges
  <2>4. h.job = j /\ h.cycle = c /\ h.at = "sending"
    BY <1>0 DEF Flight
  <2> HIDE DEF r, h
  <2>5. R(h)' = r
    BY <1>0, <1>3, <2>1, <2>3, <2>4 DEF R
  <2>6. \A g \in flights' : g.at = "fill" => R(g)'.transfer
    BY <1>3, <2>1, <2>3, <2>4 DEF FillInv
  <2>7. \A g \in flights' :
          g.at = "sending" /\ NoFillYet(g.cycle)' => ether'[g.cycle] <= R(g)'.base
    BY <1>2, <1>3, <2>1, <2>2, <2>3, <2>4, <2>5 DEF FillInv
  <2>8. \A k \in Job, i \in Wallet :
          rec'[k][i].transfer /\ NoFillYet(i)' => ether'[i] <= rec'[k][i].base
    BY <1>0, <1>2, <1>3, <2>1, <2>2, <2>3 DEF FillInv
  <2>9. \A k \in Job, i \in Wallet : rec'[k][i].fill => ~NoFillYet(i)'
    BY <1>0, <1>2, <1>3, <2>1, <2>2, <2>3 DEF FillInv
  <2> QED
    BY <2>6, <2>7, <2>8, <2>9 DEF FillInv
<1>7. CASE TransferLands(f)
  <2> DEFINE r == [R(f) EXCEPT !.transfer = TRUE]
             h == [f EXCEPT !.at = "fill", !.amt = 0]
  <2>1. f.at = "sending" /\ flights' = (flights \ {f}) \cup {h} /\ Mark(f, r) /\ ether' = ether
    BY <1>7 DEF TransferLands, Goto
  <2>2. r \in Rec /\ r.base = R(f).base /\ r.transfer /\ r.fill = R(f).fill
    BY <1>0, RecChanges
  <2>3. h.job = j /\ h.cycle = c /\ h.at = "fill"
    BY <1>0 DEF Flight
  <2>4. NoFillYet(c) => ether[c] <= R(f).base
    BY <2>1 DEF FillInv
  <2> HIDE DEF r, h
  <2>5. R(h)' = r
    BY <1>0, <1>3, <2>1, <2>2, <2>3 DEF R
  <2>6. \A g \in flights' : g.at = "fill" => R(g)'.transfer
    BY <1>3, <2>1, <2>2, <2>3, <2>5 DEF FillInv
  <2>7. \A g \in flights' :
          g.at = "sending" /\ NoFillYet(g.cycle)' => ether'[g.cycle] <= R(g)'.base
    BY <1>2, <1>3, <2>1, <2>2, <2>3 DEF FillInv
  <2>8. \A k \in Job, i \in Wallet :
          rec'[k][i].transfer /\ NoFillYet(i)' => ether'[i] <= rec'[k][i].base
    BY <1>0, <1>2, <1>3, <2>1, <2>2, <2>4 DEF FillInv
  <2>9. \A k \in Job, i \in Wallet : rec'[k][i].fill => ~NoFillYet(i)'
    BY <1>0, <1>2, <1>3, <2>1, <2>2 DEF FillInv
  <2> QED
    BY <2>6, <2>7, <2>8, <2>9 DEF FillInv
<1>8. CASE FillSeen(f)
  <2> DEFINE r == [R(f) EXCEPT !.fill = TRUE]
             h == [f EXCEPT !.at = "buy", !.amt = 0]
  <2>1. /\ f.at = "fill" /\ Filled(f) /\ flights' = (flights \ {f}) \cup {h} /\ Mark(f, r)
        /\ ether' = ether
    BY <1>8 DEF FillSeen, Goto, chainVars
  <2>2. r \in Rec /\ r.base = R(f).base /\ r.transfer = R(f).transfer
    BY <1>0, RecChanges
  <2>3. h.at = "buy"
    BY <1>0 DEF Flight
  <2>4. ~NoFillYet(c)
    <3>1. R(f).transfer /\ c \in Wallet
      BY <1>0, <2>1 DEF FillInv
    <3>2. ether[c] - R(f).base >= Fund /\ ether[c] \in Nat /\ R(f).base \in Nat
      BY <1>0, <1>4, <2>1, <3>1 DEF Filled
    <3>3. ~(ether[c] <= R(f).base)
      BY <3>2, RunAssumption DEF RunAssumption
    <3> QED
      BY <1>0, <3>1, <3>3 DEF FillInv
  <2> HIDE DEF r, h
  <2>5. \A g \in flights' : g.at = "fill" => R(g)'.transfer
    BY <1>3, <2>1, <2>2, <2>3 DEF FillInv
  <2>6. \A g \in flights' :
          g.at = "sending" /\ NoFillYet(g.cycle)' => ether'[g.cycle] <= R(g)'.base
    BY <1>2, <1>3, <2>1, <2>2, <2>3 DEF FillInv
  <2>7. \A k \in Job, i \in Wallet :
          rec'[k][i].transfer /\ NoFillYet(i)' => ether'[i] <= rec'[k][i].base
    BY <1>0, <1>2, <1>3, <2>1, <2>2 DEF FillInv
  <2>8. \A k \in Job, i \in Wallet : rec'[k][i].fill => ~NoFillYet(i)'
    BY <1>0, <1>2, <1>3, <2>1, <2>2, <2>4 DEF FillInv
  <2> QED
    BY <2>5, <2>6, <2>7, <2>8 DEF FillInv
<1>9. ASSUME NEW point, NEW n, Goto(f, point, n), point \notin {"sending", "fill"}
      PROVE  \A g \in flights' : g \in flights \ {f} \/ g.at \notin {"sending", "fill"}
  BY <1>0, <1>9 DEF Goto, Flight
<1>10. CASE \/ BigBuyLands(f) \/ FillTimeout(f) \/ Reverts(f) \/ StepFails(f)
            \/ StepLandsAndThrows(f) \/ BigBuyPending(f) \/ SellPending(f)
            \/ SizeTransfer(f) /\ R(f).raised <= Gas
  <2>1. rec' = rec /\ flights' = flights \ {f}
    BY <1>10 DEF BigBuyLands, FillTimeout, Reverts, StepFails, StepLandsAndThrows, BigBuyPending,
                 SellPending, SizeTransfer, Finish, Throw
  <2> QED
    BY <2>1, OtherStepsKeepFillInv
<1>11. CASE BuyLands(f) \/ BuyPending(f)
  <2>1. Mark(f, [R(f) EXCEPT !.buy = TRUE]) /\ flights' = flights \ {f}
    BY <1>11 DEF BuyLands, BuyPending, Finish
  <2> QED
    BY <1>0, <2>1, RecChanges, OtherStepsKeepFillInv
<1>12. CASE SellLands(f)
  <2>1. PICK eth \in {0, Fund} : Mark(f, [R(f) EXCEPT !.sell = TRUE, !.raised = eth])
    BY <1>12 DEF SellLands
  <2>2. \A g \in flights' : g \in flights \ {f} \/ g.at \notin {"sending", "fill"}
    BY <1>9, <1>12 DEF SellLands
  <2> DEFINE r == [R(f) EXCEPT !.sell = TRUE, !.raised = eth]
  <2>3. /\ r \in Rec /\ r.base = R(f).base
        /\ r.transfer = R(f).transfer /\ r.fill = R(f).fill
    <3>1. eth \in Nat
      OBVIOUS
    <3> QED
      BY <1>0, <3>1, RecChanges
  <2>4. Mark(f, r)
    BY <2>1
  <2> HIDE DEF r
  <2> QED
    BY <2>2, <2>3, <2>4, OtherStepsKeepFillInv
<1>13. CASE SizeSell(f) \/ SizeBuy(f) \/ Refilled(f)
  <2>1. rec' = rec
    BY <1>13 DEF SizeSell, SizeBuy, Refilled
  <2>2. \/ flights' = flights \ {f}
        \/ \E point \in {"selling", "buying", "refill", "rebuy"} : \E n : Goto(f, point, n)
    BY <1>13 DEF SizeSell, SizeBuy, Refilled, Throw
  <2>3. \A g \in flights' : g \in flights \ {f} \/ g.at \notin {"sending", "fill"}
    BY <1>9, <2>2
  <2> QED
    BY <2>1, <2>3, OtherStepsKeepFillInv
<1> QED
  BY <1>6, <1>7, <1>8, <1>10, <1>11, <1>12, <1>13 DEF StepOn, StepOff

\* FillInv speaks of a record that runNext's first step is chosen by, and of fills.
LEMMA NextFillInv == Engine = "v6" /\ IInv /\ FillInv /\ [Next]_vars => FillInv'
<1> SUFFICES ASSUME Engine = "v6", IInv, FillInv, [Next]_vars PROVE FillInv'
  OBVIOUS
<1>1. ASSUME NEW f \in flights, StepOn(f) \/ StepOff(f)
      PROVE  FillInv'
  BY <1>1, StepKeepsFillInv
<1>2. CASE Operator \/ Restart \/ UNCHANGED vars \/ \E t \in late : LateDrops(t)
  <2>1. UNCHANGED <<rec, ether, filled>> /\ flights' \subseteq flights
    BY <1>2 DEF Operator, Start, Stop, Resume, Restart, LateDrops, vars, jobVars, chainVars, histVars
  <2> QED
    BY <2>1 DEF FillInv, NoFillYet, R
<1>3. ASSUME NEW j \in Job, TimerFires(j)
      PROVE  FillInv'
  <2>1. UNCHANGED <<rec, ether, filled>>
    BY <1>3 DEF TimerFires, chainVars, histVars
  <2>2. \A g \in flights' : g \in flights \/ (g.at # "sending" /\ (g.at = "fill" => R(g).transfer))
    <3> DEFINE f == [job |-> cur, cycle |-> index[cur], amt |-> 0,
                     at |-> IF index[cur] = 0 THEN "bigBuy" ELSE NextStep(rec[cur][index[cur]])]
           r == rec[cur][index[cur]]
    <3>1. flights' = flights \cup {f} \/ flights' = flights
      BY <1>3 DEF TimerFires
    <3>2. NextStep(r) \in {"sell", "transfer", "fill", "buy"}
      BY DEF NextStep
    <3>3. NextStep(r) = "fill" => r.transfer
      BY DEF NextStep
    <3>4. R(f) = r /\ (f.at = "bigBuy" \/ f.at = NextStep(r))
      BY DEF R
    <3>5. f.at # "sending" /\ (f.at = "fill" => R(f).transfer)
      <4> HIDE DEF f, r
      <4> QED
        BY <3>2, <3>3, <3>4
    <3> HIDE DEF f, r
    <3> QED
      BY <3>1, <3>5
  <2> QED
    BY <2>1, <2>2 DEF FillInv, NoFillYet, R
<1>4. ASSUME NEW t \in late, LateLands(t)
      PROVE  FillInv'
  <2>1. UNCHANGED <<rec, flights, filled>>
    BY <1>4 DEF LateLands
  <2>2. \A i \in Wallet : ether'[i] <= ether[i] /\ ether[i] \in Nat /\ ether'[i] \in Nat
    <3>1. ether \in [Wallet -> Nat] /\ t.amt \in Nat /\ DataTypes'
      BY <1>4, ChainTypes DEF Chain, IInv, DataTypes, Tx
    <3>2. ether' \in [Wallet -> Nat]
      BY <3>1 DEF DataTypes
    <3> QED
      BY <1>4, <3>1, <3>2 DEF LateLands
  <2>3. \A f \in flights : f.at = "sending" => f.cycle \in Wallet /\ R(f).base \in Nat
    BY DEF IInv, JobInv, JobTypes, CycleInv, DataTypes, Flight, R, Rec
  <2>4. \A k \in Job, i \in Wallet : rec[k][i].base \in Nat
    <3>1. Wallet \subseteq Cycle
      BY ConstantTypes DEF Wallet, Cycle
    <3> QED
      BY <3>1 DEF IInv, DataTypes, Rec
  <2>5. \A f \in flights : f.at = "sending" /\ NoFillYet(f.cycle) => ether'[f.cycle] <= R(f).base
    BY <2>2, <2>3 DEF FillInv
  <2>6. \A k \in Job, i \in Wallet :
          rec[k][i].transfer /\ NoFillYet(i) => ether'[i] <= rec[k][i].base
    BY <2>2, <2>4 DEF FillInv
  <2> QED
    BY <2>1, <2>5, <2>6 DEF FillInv, NoFillYet, R
<1>5. ASSUME NEW j \in Job, NEW i \in Wallet, FillArrives(j, i)
      PROVE  FillInv'
  <2>1. UNCHANGED <<rec, flights>> /\ ether' = [ether EXCEPT ![i] = @ + Fund]
    BY <1>5 DEF FillArrives, jobVars
  <2>2. /\ ~NoFillYet(i)'
        /\ \A n : NoFillYet(n)' => NoFillYet(n)
    <3>1. i \in Cycle /\ filled \in Tally /\ filled' = Plus(filled, j, i, 1)
      BY <1>5 DEF FillArrives, IInv, DataTypes, Wallet, Cycle
    <3>2. filled[j][i] \in Nat
      BY <3>1 DEF Tally
    <3>3. filled'[j][i] = filled[j][i] + 1
      BY <3>1, <3>2, PlusTyped
    <3>4. \A k \in Job : \A n : filled'[k][n] = filled[k][n] \/ (k = j /\ n = i)
      BY <3>1 DEF Plus, Tally
    <3> QED
      BY <3>2, <3>3, <3>4 DEF NoFillYet
  <2>3. \A n \in Wallet : NoFillYet(n)' => ether'[n] = ether[n]
    BY <2>1, <2>2 DEF IInv, DataTypes
  <2>4. \A f \in flights : f.at = "sending" => f.cycle \in Wallet
    BY DEF IInv, JobInv, CycleInv
  <2> QED
    BY <2>1, <2>2, <2>3, <2>4 DEF FillInv, R
<1> QED
  BY <1>1, <1>2, <1>3, <1>4, <1>5 DEF Next, Chain

\* No fill is taken before one has come: v6 and v7 wait for a rise above what the wallet
\* held, whatever it held, and a cycle that was halted and resumed, a step that landed
\* without returning, and a late buy do not change that.  With a second run it may be
\* the fill of the first, so the order's own run is named only where there is just one.
FillIsSomeOrders ==
  \A j \in Job, i \in Wallet : rec[j][i].fill => \E k \in Job : filled[k][i] > 0

THEOREM FillsAreOrders == Engine = "v6" => (Spec => []FillIsSomeOrders)
<1> SUFFICES ASSUME Engine = "v6" PROVE Spec => []FillIsSomeOrders
  OBVIOUS
<1>1. Init => FillInv
  BY DEF Init, FillInv, NewRec, Wallet, Cycle
<1>2. IInv /\ FillInv /\ [Next]_vars => FillInv'
  BY NextFillInv
<1>3. IInv /\ FillInv => FillIsSomeOrders
  <2> SUFFICES ASSUME IInv, FillInv, NEW j \in Job, NEW i \in Wallet, rec[j][i].fill
               PROVE  \E k \in Job : filled[k][i] > 0
    BY DEF FillIsSomeOrders
  <2>1. PICK k \in Job : filled[k][i] # 0
    BY DEF FillInv, NoFillYet
  <2>2. i \in Cycle
    BY ConstantTypes DEF Wallet, Cycle
  <2>3. filled[k][i] \in Nat
    BY <2>2 DEF IInv, DataTypes, Tally
  <2> QED
    BY <2>1, <2>3
<1> QED
  BY <1>1, <1>2, <1>3, SpecIInv, PTL DEF Spec

\* The fill that a v6 or v7 run goes on with is that of its own order.
THEOREM FillIsTheFill == Engine = "v6" /\ MaxJobs = 1 => (Spec => []FillWaitIsForTheFill)
<1> SUFFICES ASSUME Engine = "v6", MaxJobs = 1 PROVE Spec => []FillWaitIsForTheFill
  OBVIOUS
<1>1. FillIsSomeOrders => FillWaitIsForTheFill
  BY DEF FillIsSomeOrders, FillWaitIsForTheFill, Job
<1> QED
  BY <1>1, FillsAreOrders, PTL

-----------------------------------------------------------------------------
(* A complete run has placed everything, when every receipt comes in time *)

\* What is recorded of a cycle is on chain, and nothing is recorded ahead of index.
CellDone(i, r, ix, sells, sends, buys) ==
  /\ r.sell => sells > 0 /\ 0 < i /\ i <= ix
  /\ r.transfer => sends > 0
  /\ i < ix => buys > 0 /\ (i # 0 => r.transfer)

AfterTransfer == {"fill", "buy", "refill", "rebuy", "buying"}

\* A cycle buys only after its transfer, and a run completes after its last cycle.
DoneInv ==
  /\ \A f \in flights : f.at \in AfterTransfer => R(f).transfer
  /\ \A j \in Job, i \in Cycle :
       CellDone(i, rec[j][i], index[j], sold[j][i], sent[j][i], bought[j][i])
  /\ \A j \in Job : status[j] = "complete" => index[j] > N

\* The steps of a cycle count and record for that cycle only, and take nothing back.
LEMMA StepTouchesOwn ==
  ASSUME IInv, LandInv, ~Slow, NEW f \in flights, StepOn(f) \/ StepOff(f)
  PROVE  /\ \A k \in Job, i \in Cycle : k # f.job \/ i # f.cycle =>
              /\ rec'[k][i] = rec[k][i] /\ sold'[k][i] = sold[k][i] /\ sent'[k][i] = sent[k][i]
              /\ bought'[k][i] = bought[k][i] /\ ((i < index'[k]) = (i < index[k]))
         /\ \A k \in Job, i \in Cycle :
              /\ sold'[k][i] >= sold[k][i] /\ sent'[k][i] >= sent[k][i]
              /\ bought'[k][i] >= bought[k][i] /\ index'[k] >= index[k]
         /\ UNCHANGED index \/ index' = [index EXCEPT ![f.job] = f.cycle + 1]
<1> USE ConstantTypes
<1> DEFINE j == f.job
           c == f.cycle
<1>1. /\ f \in Flight /\ j \in Job /\ c \in Cycle /\ c = index[j]
      /\ index \in [Job -> 0..(N + 1)] /\ R(f) \in Rec
      /\ sold \in Tally /\ sent \in Tally /\ bought \in Tally
      /\ (f.at = "bigBuy" => c = 0) /\ (f.at # "bigBuy" => c \in Wallet)
  BY DEF IInv, JobInv, JobTypes, DataTypes, ChainInv, CycleInv, OneCyclePerJob, Flight, R, LandInv,
         AtInv, AtRec
<1>2. ~(BigBuyPending(f) \/ SellPending(f) \/ BuyPending(f))
  BY DEF BigBuyPending, SellPending, BuyPending, Pending
<1>3. index' = index \/ index' = [index EXCEPT ![j] = c + 1]
  <2>1. TypeOK /\ CycleInv
    BY TypeParts DEF IInv, JobInv
  <2> QED
    BY <2>1, StepKinds DEF Finish, Throw, Goto, jobVars
<1>4. rec' = rec \/ \E r \in Rec : Mark(f, r)
  <2>1. f.at # "bigBuy" => ether[f.cycle] \in Nat
    BY <1>1 DEF IInv, DataTypes
  <2> QED
    BY <1>1, <1>2, <2>1, RecChanges
    DEF StepOn, StepOff, BigBuyLands, SizeSell, SellLands, SizeTransfer, TransferLands, FillSeen,
        FillTimeout, SizeBuy, Refilled, BuyLands, Reverts, StepFails, StepLandsAndThrows
<1>5. \A k \in Job, i \in Cycle : k # j \/ i # c => rec'[k][i] = rec[k][i]
  BY <1>4, RecOfOne
<1>6. /\ sold' = sold \/ \E n \in {0, 1} : sold' = Plus(sold, j, c, n)
      /\ sent' = sent \/ \E n \in {0, 1} : sent' = Plus(sent, j, c, n)
      /\ bought' = bought \/ \E n \in {0, 1} : bought' = Plus(bought, j, c, n)
  BY <1>1, <1>2
  DEF StepOn, StepOff, BigBuyLands, SizeSell, SellLands, SizeTransfer, TransferLands, FillSeen,
      FillTimeout, SizeBuy, Refilled, BuyLands, Reverts, StepFails, StepLandsAndThrows, histVars
<1>7. ASSUME NEW t \in Tally, NEW u, u = t \/ \E n \in {0, 1} : u = Plus(t, j, c, n)
      PROVE  \A k \in Job, i \in Cycle : /\ u[k][i] >= t[k][i]
                                         /\ (k # j \/ i # c => u[k][i] = t[k][i])
  <2>1. \A k \in Job, i \in Cycle : t[k][i] \in Nat
    BY DEF Tally
  <2>2. CASE u = t
    BY <2>1, <2>2
  <2>3. ASSUME NEW n \in {0, 1}, u = Plus(t, j, c, n)
        PROVE  \A k \in Job, i \in Cycle : /\ u[k][i] >= t[k][i]
                                           /\ (k # j \/ i # c => u[k][i] = t[k][i])
    <3>1. t[j][c] + n >= 0 /\ n \in Int
      BY <1>1, <2>1
    <3> HIDE DEF j, c
    <3>2. \A k \in Job, i \in Cycle : u[k][i] = IF k = j /\ i = c THEN t[k][i] + n ELSE t[k][i]
      BY <1>1, <2>3, <3>1, PlusTyped
    <3> QED
      BY <2>1, <3>2
  <2> QED
    BY <1>7, <2>2, <2>3
<1>8. /\ \A k \in Job, i \in Cycle : sold'[k][i] >= sold[k][i] /\ (k # j \/ i # c => sold'[k][i] = sold[k][i])
      /\ \A k \in Job, i \in Cycle : sent'[k][i] >= sent[k][i] /\ (k # j \/ i # c => sent'[k][i] = sent[k][i])
      /\ \A k \in Job, i \in Cycle : bought'[k][i] >= bought[k][i] /\ (k # j \/ i # c => bought'[k][i] = bought[k][i])
  BY <1>1, <1>6, <1>7
<1>9. /\ \A k \in Job, i \in Cycle : k # j \/ i # c => ((i < index'[k]) = (i < index[k]))
      /\ \A k \in Job : index'[k] >= index[k]
  <2>1. CASE index' = index
    BY <1>1, <2>1
  <2>2. CASE index' = [index EXCEPT ![j] = c + 1]
    <3> HIDE DEF j, c
    <3>1. \A k \in Job, i \in Cycle : k # j \/ i # c => ((i < index'[k]) = (i < index[k]))
      BY <1>1, <2>2, IndexPasses
    <3>2. \A k \in Job : index'[k] >= index[k]
      BY <1>1, <2>2
    <3> QED
      BY <3>1, <3>2
  <2> QED
    BY <1>3, <2>1, <2>2
<1> QED
  BY <1>3, <1>5, <1>8, <1>9

\* What a step of a cycle records, it has counted; the cycle that ends has everything.
LEMMA StepKeepsCells ==
  ASSUME IInv, LandInv, DoneInv, ~Slow, NEW f \in flights, StepOn(f) \/ StepOff(f)
  PROVE  \A j \in Job, i \in Cycle :
           CellDone(i, rec'[j][i], index'[j], sold'[j][i], sent'[j][i], bought'[j][i])
<1> USE ConstantTypes
<1> DEFINE j == f.job
           c == f.cycle
<1>1. /\ f \in Flight /\ j \in Job /\ c \in Cycle /\ c = index[j] /\ c \in Nat
      /\ index \in [Job -> 0..(N + 1)] /\ R(f) \in Rec /\ R(f) = rec[j][c]
      /\ sold \in Tally /\ sent \in Tally /\ bought \in Tally
      /\ (f.at = "bigBuy" <=> c = 0) \/ f.at # "bigBuy"
      /\ (f.at # "bigBuy" => c \in Wallet) /\ AtRec(f.at, c, R(f))
      /\ CellDone(c, rec[j][c], index[j], sold[j][c], sent[j][c], bought[j][c])
  BY DEF IInv, JobInv, JobTypes, DataTypes, ChainInv, CycleInv, OneCyclePerJob, Flight, R, LandInv,
         AtInv, AtRec, DoneInv, Cycle
<1>2. /\ \A k \in Job, i \in Cycle : k # j \/ i # c =>
           /\ rec'[k][i] = rec[k][i] /\ sold'[k][i] = sold[k][i] /\ sent'[k][i] = sent[k][i]
           /\ bought'[k][i] = bought[k][i] /\ ((i < index'[k]) = (i < index[k]))
      /\ \A k \in Job, i \in Cycle :
           /\ sold'[k][i] >= sold[k][i] /\ sent'[k][i] >= sent[k][i]
           /\ bought'[k][i] >= bought[k][i] /\ index'[k] >= index[k]
      /\ index' = index \/ index' = [index EXCEPT ![j] = c + 1]
  BY StepTouchesOwn
<1>3. /\ \A k \in Job, i \in Cycle : sold[k][i] \in Nat /\ sent[k][i] \in Nat /\ bought[k][i] \in Nat
                                    /\ index[k] \in Nat /\ i \in Nat
      /\ sold' \in Tally /\ sent' \in Tally /\ bought' \in Tally
      /\ index' \in [Job -> 0..(N + 1)] /\ rec' \in [Job -> [Cycle -> Rec]]
  <2>1. Next
    BY DEF Next
  <2>2. IInv'
    BY <2>1, NextIInv
  <2>3. /\ sold' \in Tally /\ sent' \in Tally /\ bought' \in Tally
        /\ index' \in [Job -> 0..(N + 1)] /\ rec' \in [Job -> [Cycle -> Rec]]
    BY <2>2 DEF IInv, JobInv, JobTypes, DataTypes
  <2>4. \A t \in Tally, k \in Job, i \in Cycle : t[k][i] \in Nat
    BY DEF Tally
  <2>5. \A k \in Job, i \in Cycle : index[k] \in Nat /\ i \in Nat
    BY <1>1 DEF Cycle
  <2> QED
    BY <1>1, <2>3, <2>4, <2>5
<1>4. \A k \in Job, i \in Cycle : sold'[k][i] \in Nat /\ sent'[k][i] \in Nat /\ bought'[k][i] \in Nat
                                 /\ index'[k] \in Nat
  BY <1>3 DEF Tally
<1>5. \A k \in Job, i \in Cycle : k # j \/ i # c => CellDone(i, rec'[k][i], index'[k], sold'[k][i], sent'[k][i], bought'[k][i])
  <2> SUFFICES ASSUME NEW k \in Job, NEW i \in Cycle, k # j \/ i # c
               PROVE  CellDone(i, rec'[k][i], index'[k], sold'[k][i], sent'[k][i], bought'[k][i])
    OBVIOUS
  <2>1. CellDone(i, rec[k][i], index[k], sold[k][i], sent[k][i], bought[k][i])
    BY DEF DoneInv
  <2>2. i <= index[k] => i <= index'[k]
    BY <1>2, <1>3, <1>4
  <2> HIDE DEF j, c
  <2> QED
    BY <1>2, <2>1, <2>2 DEF CellDone
<1> SUFFICES CellDone(c, rec'[j][c], index'[j], sold'[j][c], sent'[j][c], bought'[j][c])
  BY <1>5
<1>6. ~(BigBuyPending(f) \/ SellPending(f) \/ BuyPending(f))
  BY DEF BigBuyPending, SellPending, BuyPending, Pending
<1>c. /\ j \in Job /\ c \in Cycle /\ c \in Nat /\ index[j] = c /\ R(f) = rec[j][c]
      /\ sold[j][c] \in Nat /\ sent[j][c] \in Nat /\ bought[j][c] \in Nat
      /\ sold'[j][c] \in Nat /\ sent'[j][c] \in Nat /\ bought'[j][c] \in Nat
      /\ sold'[j][c] >= sold[j][c] /\ sent'[j][c] >= sent[j][c] /\ bought'[j][c] >= bought[j][c]
      /\ CellDone(c, rec[j][c], index[j], sold[j][c], sent[j][c], bought[j][c])
  BY <1>1, <1>2, <1>3, <1>4
<1>7. ASSUME rec' = rec, index' = index
      PROVE  CellDone(c, rec'[j][c], index'[j], sold'[j][c], sent'[j][c], bought'[j][c])
  BY <1>c, <1>7 DEF CellDone
<1>8. CASE SellLands(f)
  <2>1. PICK eth \in {0, Fund} : Mark(f, [R(f) EXCEPT !.sell = TRUE, !.raised = eth])
    BY <1>8 DEF SellLands
  <2>2. eth \in Nat
    OBVIOUS
  <2> DEFINE r == [R(f) EXCEPT !.sell = TRUE, !.raised = eth]
  <2>3. r \in Rec /\ r.transfer = R(f).transfer /\ Mark(f, r)
    BY <1>1, <2>1, <2>2, RecChanges
  <2> HIDE DEF r
  <2>4. rec'[j][c] = r
    BY <1>1, <2>3, RecOfOne
  <2>5. index' = index /\ sold' = Plus(sold, j, c, 1)
    BY <1>8 DEF SellLands, Goto, jobVars
  <2>6. sold'[j][c] > 0
    <3>1. sold[j][c] + 1 >= 0 /\ 1 \in Int
      BY <1>1, <1>3
    <3>2. Plus(sold, j, c, 1)[j][c] = sold[j][c] + 1
      <4> HIDE DEF j, c
      <4> QED
        BY <1>1, <3>1, PlusTyped
    <3> QED
      BY <1>1, <1>3, <2>5, <3>2
  <2>7. c > 0
    BY <1>1, <1>8 DEF SellLands, Wallet
  <2> QED
    BY <1>c, <2>3, <2>4, <2>5, <2>6, <2>7 DEF CellDone
<1>9. CASE TransferLands(f)
  <2> DEFINE r == [R(f) EXCEPT !.transfer = TRUE]
  <2>1. r \in Rec /\ r.sell = R(f).sell /\ Mark(f, r)
    BY <1>1, <1>9, RecChanges DEF TransferLands
  <2> HIDE DEF r
  <2>2. rec'[j][c] = r
    BY <1>1, <2>1, RecOfOne
  <2>3. index' = index /\ sent' = Plus(sent, j, c, 1)
    BY <1>9 DEF TransferLands, Goto, jobVars
  <2>4. sent'[j][c] > 0
    <3>1. sent[j][c] + 1 >= 0 /\ 1 \in Int
      BY <1>1, <1>3
    <3>2. Plus(sent, j, c, 1)[j][c] = sent[j][c] + 1
      <4> HIDE DEF j, c
      <4> QED
        BY <1>1, <3>1, PlusTyped
    <3> QED
      BY <1>1, <1>3, <2>3, <3>2
  <2> QED
    BY <1>c, <2>1, <2>2, <2>3, <2>4 DEF CellDone
<1>10. CASE SizeTransfer(f) /\ ~(R(f).raised <= Gas)
  <2> DEFINE r == [R(f) EXCEPT !.base = IF Engine = "v3" THEN 0 ELSE ether[f.cycle]]
  <2>1. Mark(f, r) /\ index' = index
    BY <1>10 DEF SizeTransfer, Goto, jobVars
  <2>2. r \in Rec /\ r.sell = R(f).sell /\ r.transfer = R(f).transfer
    <3>1. (IF Engine = "v3" THEN 0 ELSE ether[f.cycle]) \in Nat
      BY <1>1, <1>10 DEF SizeTransfer, IInv, DataTypes
    <3> QED
      BY <1>1, <3>1, RecChanges
  <2> HIDE DEF r
  <2>3. rec'[j][c] = r
    BY <1>1, <2>1, <2>2, RecOfOne
  <2> QED
    BY <1>c, <2>1, <2>2, <2>3 DEF CellDone
<1>11. CASE FillSeen(f)
  <2> DEFINE r == [R(f) EXCEPT !.fill = TRUE]
  <2>1. Mark(f, r) /\ index' = index /\ r \in Rec /\ r.sell = R(f).sell /\ r.transfer = R(f).transfer
    BY <1>1, <1>11, RecChanges DEF FillSeen, Goto, jobVars
  <2> HIDE DEF r
  <2>2. rec'[j][c] = r
    BY <1>1, <2>1, RecOfOne
  <2> QED
    BY <1>c, <2>1, <2>2 DEF CellDone
<1>12. CASE BuyLands(f) \/ BigBuyLands(f)
  <2>1. index' = [index EXCEPT ![j] = c + 1] /\ bought' = Plus(bought, j, c, 1)
    BY <1>1, <1>12 DEF BuyLands, BigBuyLands, Finish, AtRec
  <2>2. index'[j] = c + 1
    BY <1>1, <2>1
  <2>3. bought'[j][c] > 0
    <3>1. bought[j][c] + 1 >= 0 /\ 1 \in Int
      BY <1>1, <1>3
    <3>2. Plus(bought, j, c, 1)[j][c] = bought[j][c] + 1
      <4> HIDE DEF j, c
      <4> QED
        BY <1>1, <3>1, PlusTyped
    <3> QED
      BY <1>1, <1>3, <2>1, <3>2
  <2>4. /\ rec'[j][c].sell = rec[j][c].sell /\ rec'[j][c].transfer = rec[j][c].transfer
        /\ c # 0 => rec[j][c].transfer
    <3>1. CASE BuyLands(f)
      <4> DEFINE r == [R(f) EXCEPT !.buy = TRUE]
      <4>1. Mark(f, r) /\ r \in Rec /\ r.sell = R(f).sell /\ r.transfer = R(f).transfer
        BY <1>1, <3>1, RecChanges DEF BuyLands
      <4> HIDE DEF r
      <4>2. rec'[j][c] = r
        BY <1>1, <4>1, RecOfOne
      <4>3. R(f).transfer
        BY <3>1 DEF BuyLands, DoneInv, AfterTransfer
      <4> QED
        BY <1>1, <4>1, <4>2, <4>3
    <3>2. CASE BigBuyLands(f)
      BY <1>1, <3>2 DEF BigBuyLands, AtRec
    <3> QED
      BY <1>12, <3>1, <3>2
  <2> QED
    BY <1>c, <2>2, <2>3, <2>4 DEF CellDone
<1>13. CASE \/ SizeSell(f) \/ FillTimeout(f) \/ SizeBuy(f) \/ Refilled(f) \/ Reverts(f)
            \/ StepFails(f) \/ StepLandsAndThrows(f)
            \/ SizeTransfer(f) /\ R(f).raised <= Gas
  <2>1. rec' = rec /\ index' = index
    BY <1>13 DEF SizeSell, SizeTransfer, FillTimeout, SizeBuy, Refilled, Reverts, StepFails,
                 StepLandsAndThrows, Throw, Goto, jobVars
  <2> QED
    BY <1>7, <2>1
<1> QED
  BY <1>6, <1>8, <1>9, <1>10, <1>11, <1>12, <1>13 DEF StepOn, StepOff

\* A cycle comes to its fill by its transfer, and only the last one completes the run.
LEMMA StepKeepsDoneInv ==
  ASSUME IInv, LandInv, DoneInv, ~Slow, NEW f \in flights, StepOn(f) \/ StepOff(f)
  PROVE  DoneInv'
<1> USE ConstantTypes
<1>1. /\ f \in Flight /\ f.job \in Job /\ f.cycle \in Cycle /\ f.cycle = index[f.job]
      /\ index \in [Job -> 0..(N + 1)] /\ R(f) \in Rec /\ R(f) = rec[f.job][f.cycle]
      /\ f.amt \in Nat /\ rec \in [Job -> [Cycle -> Rec]]
      /\ status \in [Job -> {"none", "running", "stopped", "failed", "complete", "lost"}]
  BY DEF IInv, JobInv, JobTypes, DataTypes, ChainInv, OneCyclePerJob, Flight, R
<1>2. TypeOK /\ CycleInv
  BY TypeParts DEF IInv, JobInv
<1>3. ~(BigBuyPending(f) \/ SellPending(f) \/ BuyPending(f))
  BY DEF BigBuyPending, SellPending, BuyPending, Pending
<1>4. \A j \in Job, i \in Cycle :
        CellDone(i, rec'[j][i], index'[j], sold'[j][i], sent'[j][i], bought'[j][i])
  BY StepKeepsCells
<1>5. \A j \in Job : status'[j] = "complete" => index'[j] > N
  <2>1. CASE Finish(f)
    BY <1>1, <2>1 DEF Finish, DoneInv
  <2>2. CASE Throw(f)
    BY <1>1, <2>2 DEF Throw, DoneInv
  <2>3. CASE UNCHANGED jobVars
    BY <2>3 DEF jobVars, DoneInv
  <2> QED
    BY <1>2, <2>1, <2>2, <2>3, StepKinds DEF Goto
<1>6. ASSUME NEW r \in Rec, rec' = rec \/ Mark(f, r)
      PROVE  \A g \in flights \ {f} : R(g)' = R(g)
  BY <1>6, OthersKeepTheirs
<1>7. \A g \in flights' : g.at \in AfterTransfer => R(g)'.transfer
  <2>1. ASSUME NEW r \in Rec, rec' = rec \/ Mark(f, r),
               flights' = flights \ {f} \/ \E point, n : Goto(f, point, n) /\ point \notin AfterTransfer
        PROVE  \A g \in flights' : g.at \in AfterTransfer => R(g)'.transfer
    <3>1. \A g \in flights' : g \in flights \ {f} \/ g.at \notin AfterTransfer
      <4>1. CASE flights' = flights \ {f}
        BY <4>1
      <4>2. ASSUME NEW point, NEW n, Goto(f, point, n), point \notin AfterTransfer
            PROVE  \A g \in flights' : g \in flights \ {f} \/ g.at \notin AfterTransfer
        BY <1>1, <4>2 DEF Goto, Flight
      <4> QED
        BY <2>1, <4>1, <4>2
    <3>2. \A g \in flights : g.at \in AfterTransfer => R(g).transfer
      BY DEF DoneInv
    <3> QED
      BY <1>6, <2>1, <3>1, <3>2
  <2>2. ASSUME NEW r \in Rec, (rec' = rec /\ r = R(f)) \/ Mark(f, r), r.transfer,
               \E point, n : Goto(f, point, n)
        PROVE  \A g \in flights' : g.at \in AfterTransfer => R(g)'.transfer
    <3>1. PICK point, n : Goto(f, point, n)
      BY <2>2
    <3> DEFINE h == [f EXCEPT !.at = point, !.amt = n]
    <3>2. flights' = (flights \ {f}) \cup {h} /\ h.job = f.job /\ h.cycle = f.cycle
      BY <1>1, <3>1 DEF Goto, Flight
    <3> HIDE DEF h
    <3>3. R(h)' = r
      BY <1>1, <2>2, <3>2, RecOfOne DEF R
    <3> QED
      BY <1>6, <2>2, <3>2, <3>3 DEF DoneInv
  <2>3. CASE \/ BigBuyLands(f) \/ FillTimeout(f) \/ Reverts(f) \/ StepFails(f)
             \/ StepLandsAndThrows(f)
             \/ SizeTransfer(f) /\ R(f).raised <= Gas
    <3>1. rec' = rec /\ flights' = flights \ {f}
      BY <2>3 DEF BigBuyLands, FillTimeout, Reverts, StepFails, StepLandsAndThrows, SizeTransfer,
                  Finish, Throw
    <3> QED
      BY <1>1, <2>1, <3>1 DEF AfterTransfer
  <2>4. CASE BuyLands(f)
    <3> DEFINE r == [R(f) EXCEPT !.buy = TRUE]
    <3>1. r \in Rec /\ Mark(f, r) /\ flights' = flights \ {f}
      BY <1>1, <2>4, RecChanges DEF BuyLands, Finish
    <3> HIDE DEF r
    <3> QED
      BY <2>1, <3>1 DEF AfterTransfer
  <2>5. CASE SizeSell(f)
    <3>1. /\ rec' = rec
          /\ flights' = flights \ {f} \/ \E n : Goto(f, "selling", n)
      BY <2>5 DEF SizeSell, Throw
    <3>2. "selling" \notin AfterTransfer
      BY DEF AfterTransfer
    <3>3. flights' = flights \ {f} \/ \E point, n : Goto(f, point, n) /\ point \notin AfterTransfer
      BY <3>1, <3>2, Zenon
    <3> QED
      BY <1>1, <2>1, <3>1, <3>3
  <2>6. CASE SellLands(f)
    <3>1. PICK eth \in {0, Fund} : Mark(f, [R(f) EXCEPT !.sell = TRUE, !.raised = eth])
      BY <2>6 DEF SellLands
    <3>2. eth \in Nat
      OBVIOUS
    <3> DEFINE r == [R(f) EXCEPT !.sell = TRUE, !.raised = eth]
    <3>3. r \in Rec /\ Mark(f, r) /\ Goto(f, "transfer", 0)
      BY <1>1, <2>6, <3>1, <3>2, RecChanges DEF SellLands
    <3> HIDE DEF r
    <3> QED
      BY <2>1, <3>3 DEF AfterTransfer
  <2>7. CASE SizeTransfer(f) /\ ~(R(f).raised <= Gas)
    <3> DEFINE r == [R(f) EXCEPT !.base = IF Engine = "v3" THEN 0 ELSE ether[f.cycle]]
    <3>1. Mark(f, r) /\ Goto(f, "sending", Fund)
      BY <2>7 DEF SizeTransfer
    <3>2. (IF Engine = "v3" THEN 0 ELSE ether[f.cycle]) \in Nat
      BY <1>1, <2>7 DEF SizeTransfer, IInv, DataTypes, JobInv, CycleInv
    <3>3. r \in Rec
      BY <1>1, <3>2, RecChanges
    <3> HIDE DEF r
    <3> QED
      BY <2>1, <3>1, <3>3 DEF AfterTransfer
  <2>8. CASE TransferLands(f)
    <3> DEFINE r == [R(f) EXCEPT !.transfer = TRUE]
    <3>1. r \in Rec /\ r.transfer /\ Mark(f, r) /\ Goto(f, "fill", 0)
      BY <1>1, <2>8, RecChanges DEF TransferLands
    <3> HIDE DEF r
    <3> QED
      BY <2>2, <3>1
  <2>9. CASE FillSeen(f)
    <3> DEFINE r == [R(f) EXCEPT !.fill = TRUE]
    <3>1. R(f).transfer
      BY <2>9 DEF FillSeen, DoneInv, AfterTransfer
    <3>2. r \in Rec /\ r.transfer = R(f).transfer /\ Mark(f, r) /\ Goto(f, "buy", 0)
      BY <1>1, <2>9, RecChanges DEF FillSeen
    <3> HIDE DEF r
    <3> QED
      BY <2>2, <3>1, <3>2
  <2>10. CASE SizeBuy(f) \/ Refilled(f)
    <3>1. R(f).transfer /\ rec' = rec
      BY <2>10 DEF SizeBuy, Refilled, DoneInv, AfterTransfer
    <3>2. flights' = flights \ {f} \/ \E point, n : Goto(f, point, n)
      BY <2>10 DEF SizeBuy, Refilled, Throw
    <3> QED
      BY <1>1, <2>1, <2>2, <3>1, <3>2
  <2> QED
    BY <1>3, <2>3, <2>4, <2>5, <2>6, <2>7, <2>8, <2>9, <2>10 DEF StepOn, StepOff, AfterTransfer
<1> QED
  BY <1>4, <1>5, <1>7 DEF DoneInv

\* Nothing but a step of a cycle records, counts or completes anything.
LEMMA NextDoneInv == ~Slow /\ IInv /\ LandInv /\ DoneInv /\ [Next]_vars => DoneInv'
<1> SUFFICES ASSUME ~Slow, IInv, LandInv, DoneInv, [Next]_vars PROVE DoneInv'
  OBVIOUS
<1>1. ASSUME NEW f \in flights, StepOn(f) \/ StepOff(f)
      PROVE  DoneInv'
  BY <1>1, StepKeepsDoneInv
<1>2. ASSUME UNCHANGED <<rec, index, sold, sent, bought>>,
             \A j \in Job : status'[j] = "complete" => status[j] = "complete",
             \A g \in flights' : g \in flights \/ (g.at \in AfterTransfer => R(g).transfer)
      PROVE  DoneInv'
  BY <1>2 DEF DoneInv, R
<1>3. CASE Operator \/ Restart \/ Chain \/ UNCHANGED vars
  <2>1. UNCHANGED <<rec, index, sold, sent, bought>> /\ flights' \subseteq flights
    <3>1. CASE Operator \/ Restart
      BY <3>1 DEF Operator, Start, Stop, Resume, Restart, chainVars, histVars
    <3>2. CASE Chain
      BY <3>2 DEF Chain, FillArrives, LateLands, LateDrops, LandInv, jobVars
    <3>3. CASE UNCHANGED vars
      BY <3>3 DEF vars, jobVars, chainVars, histVars
    <3> QED
      BY <1>3, <3>1, <3>2, <3>3
  <2>2. \A j \in Job : status'[j] = "complete" => status[j] = "complete"
    <3>1. CASE Operator \/ Restart
      BY <3>1 DEF Operator, Start, Stop, Resume, Restart, IInv, JobInv, JobTypes
    <3>2. CASE Chain
      BY <3>2 DEF Chain, FillArrives, LateLands, LateDrops, LandInv, jobVars
    <3>3. CASE UNCHANGED vars
      BY <3>3 DEF vars, jobVars
    <3> QED
      BY <1>3, <3>1, <3>2, <3>3
  <2> QED
    BY <1>2, <2>1, <2>2
<1>4. ASSUME NEW j \in Job, TimerFires(j)
      PROVE  DoneInv'
  <2>1. UNCHANGED <<rec, index, status, sold, sent, bought>>
    BY <1>4 DEF TimerFires, histVars
  <2>2. \A g \in flights' : g \in flights \/ (g.at \in AfterTransfer => R(g).transfer)
    <3> DEFINE f == [job |-> cur, cycle |-> index[cur], amt |-> 0,
                     at |-> IF index[cur] = 0 THEN "bigBuy" ELSE NextStep(rec[cur][index[cur]])]
               r == rec[cur][index[cur]]
    <3>1. flights' = flights \cup {f} \/ flights' = flights
      BY <1>4 DEF TimerFires
    <3>2. NextStep(r) \in AfterTransfer => r.transfer
      BY DEF NextStep, AfterTransfer
    <3>3. R(f) = r /\ (f.at = "bigBuy" \/ f.at = NextStep(r))
      BY DEF R
    <3>4. "bigBuy" \notin AfterTransfer
      BY DEF AfterTransfer
    <3> HIDE DEF f, r
    <3> QED
      BY <3>1, <3>2, <3>3, <3>4
  <2> QED
    BY <1>2, <2>1, <2>2
<1> QED
  BY <1>1, <1>3, <1>4 DEF Next

\* A run that says it is complete has sold a slice for every wallet, sent it what was
\* raised, and bought with it: a cycle that was halted and resumed, however often, leaves
\* out none of its steps.
CompleteMeansDone ==
  \A j \in Job : status[j] = "complete" =>
    \A i \in Wallet : sold[j][i] > 0 /\ sent[j][i] > 0 /\ bought[j][i] > 0

LEMMA DoneInvCompletes == IInv /\ LandInv /\ DoneInv => CompleteMeansDone
<1> SUFFICES ASSUME IInv, LandInv, DoneInv, NEW j \in Job, status[j] = "complete", NEW i \in Wallet
             PROVE  sold[j][i] > 0 /\ sent[j][i] > 0 /\ bought[j][i] > 0
  BY DEF CompleteMeansDone
<1>1. i \in Cycle /\ i # 0 /\ i <= N /\ i \in Nat /\ N \in Nat
  BY ConstantTypes DEF Wallet, Cycle
<1>2. index[j] > N /\ index[j] \in Nat
  BY DEF DoneInv, IInv, JobInv, JobTypes
<1>3. i < index[j]
  BY <1>1, <1>2
<1>4. CellDone(i, rec[j][i], index[j], sold[j][i], sent[j][i], bought[j][i])
  BY <1>1 DEF DoneInv
<1>5. rec[j][i].transfer => rec[j][i].sell
  BY <1>1 DEF LandInv, Counts
<1> QED
  BY <1>1, <1>3, <1>4, <1>5 DEF CellDone

LEMMA SpecDoneInv == ~Slow => (Spec => [](IInv /\ LandInv /\ DoneInv))
<1> SUFFICES ASSUME ~Slow PROVE Spec => [](IInv /\ LandInv /\ DoneInv)
  OBVIOUS
<1>1. Init => DoneInv
  BY ConstantTypes DEF Init, DoneInv, CellDone, NewRec, Job, Cycle
<1>2. IInv /\ LandInv /\ [Next]_vars => LandInv'
  BY NextLandInv
<1>3. IInv /\ LandInv /\ DoneInv /\ [Next]_vars => DoneInv'
  BY NextDoneInv
<1> QED
  BY <1>1, <1>2, <1>3, SpecIInv, InitLandInv, PTL DEF Spec

\* Any number of runs, stopped, resumed and failed in any order.
THEOREM RunsComplete == ~Slow => (Spec => []CompleteMeansDone)
<1> SUFFICES ASSUME ~Slow PROVE Spec => []CompleteMeansDone
  OBVIOUS
<1> QED
  BY SpecDoneInv, DoneInvCompletes, PTL

\* The last wallet takes what is left of the position; nothing adds to it afterwards.
PlaceInv ==
  /\ \A f \in flights : f.at = "selling" /\ f.cycle = N => f.amt = position
  /\ \A j \in Job : rec[j][N].sell => position = 0

\* With one run there is one cycle, and only its steps move the position.
LEMMA StepKeepsPlaceInv ==
  ASSUME MaxJobs = 1, IInv, LandInv, DoneInv, PlaceInv, ~Slow,
         NEW f \in flights, StepOn(f) \/ StepOff(f)
  PROVE  PlaceInv'
<1> USE ConstantTypes
<1>1. /\ f \in Flight /\ f.job = 1 /\ 1 \in Job /\ f.cycle \in Cycle /\ f.cycle = index[1]
      /\ f.amt \in Nat /\ position \in Nat /\ N \in Cycle /\ N # 0
      /\ rec \in [Job -> [Cycle -> Rec]] /\ R(f) = rec[1][f.cycle] /\ R(f) \in Rec
      /\ AtRec(f.at, f.cycle, R(f)) /\ f.cycle \in Nat
  BY DEF IInv, JobInv, JobTypes, DataTypes, ChainInv, OneCyclePerJob, Flight, R, Job, Cycle,
         LandInv, AtInv
<1>2. flights = {f} /\ \A k \in Job : k = 1
  <2>1. \A k \in Job : k = 1
    BY DEF Job
  <2>2. \A g \in flights : g.job \in Job
    BY DEF IInv, JobInv, JobTypes, Flight
  <2> QED
    BY <1>1, <2>1, <2>2 DEF IInv, JobInv, ChainInv, OneCyclePerJob
<1>3. ~(BigBuyPending(f) \/ SellPending(f) \/ BuyPending(f))
  BY DEF BigBuyPending, SellPending, BuyPending, Pending
<1>4. rec[1][N].sell => N <= index[1]
  BY <1>1, <1>2 DEF DoneInv, CellDone
<1>5. ASSUME \A g \in flights' : g.at = "selling" /\ g.cycle = N => g.amt = position',
             rec'[1][N].sell => position' = 0
      PROVE  PlaceInv'
  BY <1>2, <1>5 DEF PlaceInv
<1>6. ASSUME NEW point, NEW n, Goto(f, point, n), point # "selling"
      PROVE  \A g \in flights' : g.at # "selling"
  BY <1>1, <1>2, <1>6 DEF Goto, Flight
<1>7. CASE BigBuyLands(f)
  <2>1. ~rec[1][N].sell
    BY <1>1, <1>4, <1>7 DEF BigBuyLands, AtRec
  <2> QED
    BY <1>2, <1>5, <1>7, <2>1 DEF BigBuyLands, Finish
<1>8. CASE StepLandsAndThrows(f)
  <2>1. flights' = {} /\ rec' = rec
    BY <1>2, <1>8 DEF StepLandsAndThrows, Throw
  <2>2. CASE f.at = "bigBuy"
    <3>1. ~rec[1][N].sell
      BY <1>1, <1>4, <2>2 DEF AtRec
    <3> QED
      BY <1>5, <2>1, <3>1
  <2>3. CASE f.at = "selling"
    <3>1. position' = position - f.amt /\ f.amt <= position
      BY <1>8, <2>3 DEF StepLandsAndThrows
    <3>2. rec[1][N].sell => position = 0
      BY <1>1 DEF PlaceInv
    <3> QED
      BY <1>1, <1>5, <2>1, <3>1, <3>2
  <2>4. CASE f.at \notin {"bigBuy", "selling"}
    <3>1. position' = position
      BY <1>8, <2>4 DEF StepLandsAndThrows
    <3> QED
      BY <1>1, <1>5, <2>1, <3>1 DEF PlaceInv
  <2> QED
    BY <2>2, <2>3, <2>4
<1>9. CASE SizeSell(f)
  <2>1. position' = position /\ rec' = rec
    BY <1>9 DEF SizeSell, chainVars
  <2>2. \A g \in flights' : g.at = "selling" /\ g.cycle = N => g.amt = position
    <3>1. CASE position = 0
      BY <1>2, <1>9, <3>1 DEF SizeSell, Throw
    <3>2. CASE position # 0
      <4>1. PICK n \in Slice(f) : Goto(f, "selling", n)
        BY <1>9, <3>2 DEF SizeSell
      <4>2. f.cycle = N => n = position
        BY <4>1 DEF Slice
      <4> QED
        BY <1>1, <1>2, <4>1, <4>2 DEF Goto, Flight
    <3> QED
      BY <3>1, <3>2
  <2> QED
    BY <1>1, <1>5, <2>1, <2>2 DEF PlaceInv
<1>10. CASE SellLands(f)
  <2>1. \A g \in flights' : g.at # "selling"
    BY <1>6, <1>10 DEF SellLands
  <2>2. position' = position - f.amt /\ f.amt <= position /\ f.at = "selling"
    BY <1>10 DEF SellLands
  <2>3. CASE f.cycle = N
    BY <1>1, <1>5, <2>1, <2>2, <2>3 DEF PlaceInv
  <2>4. CASE f.cycle # N
    <3>1. PICK eth \in {0, Fund} : Mark(f, [R(f) EXCEPT !.sell = TRUE, !.raised = eth])
      BY <1>10 DEF SellLands
    <3> DEFINE r == [R(f) EXCEPT !.sell = TRUE, !.raised = eth]
    <3>2. eth \in Nat
      OBVIOUS
    <3>3. r \in Rec /\ Mark(f, r)
      BY <1>1, <3>1, <3>2, RecChanges
    <3> HIDE DEF r
    <3>4. rec'[1][N] = rec[1][N]
      BY <1>1, <2>4, <3>3, RecOfOne
    <3> QED
      BY <1>1, <1>5, <2>1, <2>2, <3>4 DEF PlaceInv
  <2> QED
    BY <2>3, <2>4
<1>11. ASSUME position' = position,
              rec' = rec \/ \E r \in Rec : Mark(f, r) /\ r.sell = R(f).sell,
              flights' = {} \/ \A g \in flights' : g.at # "selling"
       PROVE  PlaceInv'
  <2>1. rec'[1][N].sell = rec[1][N].sell
    <3>1. CASE rec' = rec
      BY <3>1
    <3>2. ASSUME NEW r \in Rec, Mark(f, r), r.sell = R(f).sell
          PROVE  rec'[1][N].sell = rec[1][N].sell
      <4>1. rec'[1][f.cycle] = r /\ (N # f.cycle => rec'[1][N] = rec[1][N])
        BY <1>1, <3>2, RecOfOne
      <4> QED
        BY <1>1, <3>2, <4>1
    <3> QED
      BY <1>11, <3>1, <3>2
  <2> QED
    BY <1>1, <1>5, <1>11, <2>1 DEF PlaceInv
<1>12. CASE \/ FillTimeout(f) \/ SizeBuy(f) \/ Refilled(f) \/ Reverts(f) \/ StepFails(f)
            \/ SizeTransfer(f) /\ R(f).raised <= Gas
  <2>1. position' = position /\ rec' = rec
    BY <1>12 DEF FillTimeout, SizeBuy, Refilled, Reverts, StepFails, SizeTransfer, chainVars
  <2>2. flights' = {} \/ \E point, n : Goto(f, point, n) /\ point # "selling"
    <3>1. CASE Throw(f)
      BY <1>2, <3>1 DEF Throw
    <3>2. CASE SizeBuy(f) \/ Refilled(f)
      <4>1. \/ Throw(f) \/ Goto(f, "refill", 0) \/ Goto(f, "rebuy", 0)
            \/ Goto(f, "buying", ether[f.cycle] - Gas)
        BY <3>2 DEF SizeBuy, Refilled
      <4>2. "refill" # "selling" /\ "rebuy" # "selling" /\ "buying" # "selling"
        OBVIOUS
      <4> QED
        BY <3>1, <4>1, <4>2, Zenon
    <3> QED
      BY <1>12, <3>1, <3>2 DEF FillTimeout, Reverts, StepFails, SizeTransfer
  <2> QED
    BY <1>6, <1>11, <2>1, <2>2
<1>13. CASE BuyLands(f)
  <2> DEFINE r == [R(f) EXCEPT !.buy = TRUE]
  <2>1. r \in Rec /\ r.sell = R(f).sell /\ Mark(f, r)
    BY <1>1, <1>13, RecChanges DEF BuyLands
  <2>2. flights' = {} /\ position' = position
    BY <1>2, <1>13 DEF BuyLands, Finish
  <2> HIDE DEF r
  <2> QED
    BY <1>11, <2>1, <2>2
<1>14. CASE TransferLands(f)
  <2> DEFINE r == [R(f) EXCEPT !.transfer = TRUE]
  <2>1. r \in Rec /\ r.sell = R(f).sell /\ Mark(f, r)
    BY <1>1, <1>14, RecChanges DEF TransferLands
  <2>2. Goto(f, "fill", 0) /\ position' = position
    BY <1>14 DEF TransferLands
  <2> HIDE DEF r
  <2> QED
    BY <1>6, <1>11, <2>1, <2>2
<1>15. CASE FillSeen(f)
  <2> DEFINE r == [R(f) EXCEPT !.fill = TRUE]
  <2>1. r \in Rec /\ r.sell = R(f).sell /\ Mark(f, r)
    BY <1>1, <1>15, RecChanges DEF FillSeen
  <2>2. Goto(f, "buy", 0) /\ position' = position
    BY <1>15 DEF FillSeen, chainVars
  <2> HIDE DEF r
  <2> QED
    BY <1>6, <1>11, <2>1, <2>2
<1>16. CASE SizeTransfer(f) /\ ~(R(f).raised <= Gas)
  <2> DEFINE r == [R(f) EXCEPT !.base = IF Engine = "v3" THEN 0 ELSE ether[f.cycle]]
  <2>1. (IF Engine = "v3" THEN 0 ELSE ether[f.cycle]) \in Nat
    BY <1>1, <1>16 DEF SizeTransfer, IInv, DataTypes, JobInv, CycleInv
  <2>2. r \in Rec /\ r.sell = R(f).sell /\ Mark(f, r)
    BY <1>1, <1>16, <2>1, RecChanges DEF SizeTransfer
  <2>3. Goto(f, "sending", Fund) /\ position' = position
    BY <1>16 DEF SizeTransfer, chainVars
  <2> HIDE DEF r
  <2> QED
    BY <1>6, <1>11, <2>2, <2>3
<1> QED
  BY <1>3, <1>7, <1>8, <1>9, <1>10, <1>12, <1>13, <1>14, <1>15, <1>16 DEF StepOn, StepOff

LEMMA NextPlaceInv ==
  MaxJobs = 1 /\ ~Slow /\ IInv /\ LandInv /\ DoneInv /\ PlaceInv /\ [Next]_vars => PlaceInv'
<1> SUFFICES ASSUME MaxJobs = 1, ~Slow, IInv, LandInv, DoneInv, PlaceInv, [Next]_vars
             PROVE  PlaceInv'
  OBVIOUS
<1>1. ASSUME NEW f \in flights, StepOn(f) \/ StepOff(f)
      PROVE  PlaceInv'
  BY <1>1, StepKeepsPlaceInv
<1>2. CASE Operator \/ Restart \/ Chain \/ UNCHANGED vars
  <2>1. UNCHANGED <<rec, position>> /\ flights' \subseteq flights
    <3>1. CASE Operator \/ Restart
      BY <3>1 DEF Operator, Start, Stop, Resume, Restart, chainVars
    <3>2. CASE Chain
      BY <3>2 DEF Chain, FillArrives, LateLands, LateDrops, LandInv, jobVars
    <3>3. CASE UNCHANGED vars
      BY <3>3 DEF vars, chainVars
    <3> QED
      BY <1>2, <3>1, <3>2, <3>3
  <2> QED
    BY <2>1 DEF PlaceInv
<1>3. ASSUME NEW j \in Job, TimerFires(j)
      PROVE  PlaceInv'
  <2>1. UNCHANGED <<rec, position>>
    BY <1>3 DEF TimerFires, chainVars
  <2>2. \A g \in flights' : g \in flights \/ g.at # "selling"
    BY <1>3 DEF TimerFires, NextStep
  <2> QED
    BY <2>1, <2>2 DEF PlaceInv
<1> QED
  BY <1>1, <1>2, <1>3 DEF Next

\* A run that says it is complete leaves nothing in the main wallet, for any number of
\* wallets, faults and resumes.  This is where every receipt comes in time and no other
\* run sells the same position.
THEOREM CompleteRunsArePlaced == ~Slow /\ MaxJobs = 1 => (Spec => []CompleteMeansPlaced)
<1> SUFFICES ASSUME ~Slow, MaxJobs = 1 PROVE Spec => []CompleteMeansPlaced
  OBVIOUS
<1>1. Init => PlaceInv
  BY ConstantTypes DEF Init, PlaceInv
<1>2. IInv /\ LandInv /\ DoneInv /\ PlaceInv /\ [Next]_vars => PlaceInv'
  BY NextPlaceInv
<1>3. IInv /\ LandInv /\ DoneInv /\ PlaceInv => CompleteMeansPlaced
  <2> SUFFICES ASSUME IInv, LandInv, DoneInv, PlaceInv, NEW j \in Job, status[j] = "complete"
               PROVE  /\ position = 0
                      /\ \A i \in Wallet : sold[j][i] > 0 /\ sent[j][i] > 0 /\ bought[j][i] > 0
    BY DEF CompleteMeansPlaced
  <2>1. N \in Cycle /\ N # 0 /\ N < index[j]
    BY ConstantTypes DEF Cycle, DoneInv, IInv, JobInv, JobTypes
  <2>2. rec[j][N].transfer
    BY <2>1 DEF DoneInv, CellDone
  <2>3. rec[j][N].sell
    BY <2>1, <2>2 DEF LandInv, Counts
  <2> QED
    BY <2>3, DoneInvCompletes DEF PlaceInv, CompleteMeansDone
<1> QED
  BY <1>1, <1>2, <1>3, SpecDoneInv, PTL DEF Spec
=============================================================================
