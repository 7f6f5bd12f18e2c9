------------------------------ MODULE RelayChain ------------------------------
(***************************************************************************)
(* The relay-chain engines: backend/src/v3/engine.js, and its siblings     *)
(* v6/engine.js and v7/engine.js, which differ in how they wait for a fill *)
(* and in which sells they take as done.                                   *)
(*                                                                         *)
(* A run is one big buy by the main wallet, then a cycle per bundle        *)
(* wallet: sell a slice of the position, send the proceeds to the wallet   *)
(* through Relay, wait for the fill, buy.  A cycle is an async function:   *)
(* every await is a step of its own, and start, stop, resume, another job  *)
(* and the chain come between them.                                        *)
(*                                                                         *)
(* The job table of one user.  The position is in tokens.  Ether is in     *)
(* units: a sell that filled well raises Fund, which is what a transfer    *)
(* orders; a wallet keeps Gas of what it holds out of its buy.             *)
(***************************************************************************)
EXTENDS Integers, FiniteSets

CONSTANTS
  Engine,       \* "v3", or "v6" for v6 and v7
  N,            \* the bundle wallets of a run, served in order 1..N
  BigBuy,       \* tokens the big buy brings
  Fund,         \* units a transfer orders, and a good sell raises
  Gas,          \* units a buy needs for gas, the buffer and the reserve
  Ether0,       \* what the bundle wallets hold before the first run
  MaxJobs,      \* runs ever started
  MaxFaults,    \* steps that fail, and transactions of uncertain fate
  MaxResumes,
  MaxRestarts,
  Unsure,       \* a broadcast that throws may have landed
  Slow          \* a receipt may not arrive in time

ASSUME RunAssumption ==
  /\ Engine \in {"v3", "v6"}
  /\ {N, BigBuy, Fund, Gas, MaxJobs} \subseteq Nat \ {0}
  /\ {MaxFaults, MaxResumes, MaxRestarts} \subseteq Nat
  /\ Gas < Fund
  /\ Ether0 \in [1..N -> Nat]
  /\ Unsure \in BOOLEAN /\ Slow \in BOOLEAN

Job == 1..MaxJobs
Cycle == 0..N        \* 0 is the big buy
Wallet == 1..N

\* The record of a cycle: its done-flags, what its sell raised, and what the
\* wallet held before the transfer.
Rec == [sell: BOOLEAN, transfer: BOOLEAN, fill: BOOLEAN, buy: BOOLEAN,
        raised: Nat, base: Nat]
NewRec == [sell |-> FALSE, transfer |-> FALSE, fill |-> FALSE, buy |-> FALSE,
           raised |-> 0, base |-> 0]

Points == {"bigBuy", "sell", "selling", "transfer", "sending", "fill", "buy",
           "refill", "rebuy", "buying"}
\* A cycle between two of its steps.
Flight == [job: Job, cycle: Cycle, at: Points, amt: Nat]
Broadcasts == {"bigBuy", "selling", "sending", "buying"}
\* A transaction without a receipt yet.
Tx == [id: Nat, kind: {"bigBuy", "sell", "buy"}, job: Job, cycle: Cycle, amt: Nat]

\* A count for each cycle of each job.
Tally == [Job -> [Cycle -> Nat]]

VARIABLES
  cur,       \* the user's job in the map (0: none)
  status,    \* of each job; "none" until it starts, "lost" after a restart
  inFlight, timer, index, rec,   \* of each job
  flights,   \* the cycles that run
  position,  \* tokens in the main wallet
  ether,     \* of each bundle wallet
  orders,    \* Relay orders of each cycle not filled yet
  late,      \* transactions whose receipt did not arrive in time
  sold, sent, filled, bought,  \* history: effects of each cycle that are on chain
  blind,     \* history: steps of each cycle that landed, or may, but did not return
  faults, resumes, restarts    \* counters of the bounds

jobVars == <<cur, status, inFlight, timer, index>>
chainVars == <<position, ether, orders, late>>
histVars == <<sold, sent, filled, bought, blind>>
boundVars == <<faults, resumes, restarts>>
vars == <<jobVars, rec, flights, chainVars, histVars, boundVars>>

NoneYet == [j \in Job |-> [i \in Cycle |-> 0]]

Init ==
  /\ cur = 0
  /\ status = [j \in Job |-> "none"]
  /\ inFlight = [j \in Job |-> FALSE]
  /\ timer = [j \in Job |-> FALSE]
  /\ index = [j \in Job |-> 0]
  /\ rec = [j \in Job |-> [i \in Cycle |-> NewRec]]
  /\ flights = {}
  /\ position = 0 /\ ether = Ether0 /\ orders = NoneYet /\ late = {}
  /\ sold = NoneYet /\ sent = NoneYet /\ filled = NoneYet /\ bought = NoneYet /\ blind = NoneYet
  /\ faults = 0 /\ resumes = 0 /\ restarts = 0

Plus(f, j, i, n) == [f EXCEPT ![j][i] = @ + n]

-----------------------------------------------------------------------------
(* The operator: start, stop, resume; and the process *)

\* start refuses while the job in the map is running, and replaces it otherwise.
Start(j) ==
  /\ status[j] = "none" /\ \A k \in 1..(j - 1) : status[k] # "none"
  /\ cur # 0 => status[cur] # "running"
  /\ cur' = j
  /\ status' = [status EXCEPT ![j] = "running"]
  /\ timer' = [timer EXCEPT ![j] = TRUE]
  /\ UNCHANGED <<inFlight, index, rec, flights, chainVars, histVars, boundVars>>

Stop ==
  /\ cur # 0 /\ status[cur] = "running"
  /\ status' = [status EXCEPT ![cur] = "stopped"]
  /\ timer' = [timer EXCEPT ![cur] = FALSE]
  /\ UNCHANGED <<cur, inFlight, index, rec, flights, chainVars, histVars, boundVars>>

Resume ==
  /\ resumes < MaxResumes
  /\ cur # 0 /\ status[cur] \in {"stopped", "failed"} /\ index[cur] <= N
  /\ status' = [status EXCEPT ![cur] = "running"]
  /\ timer' = [timer EXCEPT ![cur] = TRUE]
  /\ resumes' = resumes + 1
  /\ UNCHANGED <<cur, inFlight, index, rec, flights, chainVars, histVars, faults, restarts>>

\* The process restarts: the jobs are gone, and the cycles that ran with them.
Restart ==
  /\ restarts < MaxRestarts
  /\ restarts' = restarts + 1
  /\ cur' = 0
  /\ status' = [j \in Job |-> IF status[j] = "none" THEN "none" ELSE "lost"]
  /\ inFlight' = [j \in Job |-> FALSE]
  /\ timer' = [j \in Job |-> FALSE]
  /\ flights' = {}
  /\ UNCHANGED <<index, rec, chainVars, histVars, faults, resumes>>

-----------------------------------------------------------------------------
(* runNext *)

\* Mutant: a resumed cycle begins from the top.
FirstStep(r) == "sell"

\* The first step of a cycle that is not done yet.
NextStep(r) ==
  CASE ~r.sell -> "sell"
    [] r.sell /\ ~r.transfer -> "transfer"
    [] r.sell /\ r.transfer /\ ~r.fill -> "fill"
    [] OTHER -> "buy"

\* Mutant: runNext does not ask whether a cycle is in flight.
RunnableInFlight(j) == j # 0 /\ status[j] = "running"

Runnable(j) == j # 0 /\ status[j] = "running" /\ ~inFlight[j]

\* The timer of j fires: runNext takes the job in the map, and does nothing when
\* it is not running or has a cycle in flight.
TimerFires(j) ==
  /\ timer[j]
  /\ timer' = [timer EXCEPT ![j] = FALSE]
  /\ IF Runnable(cur)
     THEN /\ inFlight' = [inFlight EXCEPT ![cur] = TRUE]
          /\ flights' = flights \cup
               {[job |-> cur, cycle |-> index[cur], amt |-> 0,
                 at |-> IF index[cur] = 0 THEN "bigBuy" ELSE NextStep(rec[cur][index[cur]])]}
     ELSE UNCHANGED <<inFlight, flights>>
  /\ UNCHANGED <<cur, status, index, rec, chainVars, histVars, boundVars>>

\* The cycle is done: the next is scheduled, unless the run was stopped meanwhile or
\* this was the last.
Finish(f) ==
  /\ flights' = flights \ {f}
  /\ index' = [index EXCEPT ![f.job] = f.cycle + 1]
  /\ inFlight' = [inFlight EXCEPT ![f.job] = FALSE]
  /\ IF status[f.job] # "running" THEN UNCHANGED <<status, timer>>
     ELSE IF f.cycle = N
     THEN /\ status' = [status EXCEPT ![f.job] = "complete"]
          /\ timer' = [timer EXCEPT ![f.job] = FALSE]
     ELSE /\ timer' = [timer EXCEPT ![f.job] = TRUE]
          /\ UNCHANGED status
  /\ UNCHANGED cur

\* A step throws: the run halts, and the record keeps its done-flags.
Throw(f) ==
  /\ flights' = flights \ {f}
  /\ inFlight' = [inFlight EXCEPT ![f.job] = FALSE]
  /\ status' = [status EXCEPT ![f.job] = "failed"]
  /\ timer' = [timer EXCEPT ![f.job] = FALSE]
  /\ UNCHANGED <<cur, index>>

Goto(f, point, n) ==
  /\ flights' = (flights \ {f}) \cup {[f EXCEPT !.at = point, !.amt = n]}
  /\ UNCHANGED jobVars

Mark(f, r) == rec' = [rec EXCEPT ![f.job][f.cycle] = r]
R(f) == rec[f.job][f.cycle]

-----------------------------------------------------------------------------
(* The steps of a cycle *)

BigBuyLands(f) ==
  /\ f.at = "bigBuy"
  /\ position' = position + BigBuy
  /\ bought' = Plus(bought, f.job, 0, 1)
  /\ Finish(f)
  /\ UNCHANGED <<rec, ether, orders, late, sold, sent, filled, blind, boundVars>>

\* Mutant: also the last wallet takes a computed slice.
SliceOfAny(f) == 1..position

\* The last wallet takes what is left; the others a slice of it.
Slice(f) == IF f.cycle = N THEN {position} ELSE 1..position

SizeSell(f) ==
  /\ f.at = "sell"
  /\ IF position = 0 THEN Throw(f) ELSE \E n \in Slice(f) : Goto(f, "selling", n)
  /\ UNCHANGED <<rec, chainVars, histVars, boundVars>>

\* The sell is mined.  The price may have moved: it raises Fund, or too little.
SellLands(f) ==
  /\ f.at = "selling"
  /\ f.amt <= position
  /\ position' = position - f.amt
  /\ sold' = Plus(sold, f.job, f.cycle, 1)
  /\ \E eth \in {0, Fund} : Mark(f, [R(f) EXCEPT !.sell = TRUE, !.raised = eth])
  /\ Goto(f, "transfer", 0)
  /\ UNCHANGED <<ether, orders, late, sent, filled, bought, blind, boundVars>>

\* What the sell raised must pay for a buy.  v6 and v7 then read what the wallet
\* holds, to know the fill by the rise above it.
SizeTransfer(f) ==
  /\ f.at = "transfer"
  /\ IF R(f).raised <= Gas
     THEN Throw(f) /\ UNCHANGED rec
     ELSE /\ Goto(f, "sending", Fund)
          /\ Mark(f, [R(f) EXCEPT !.base = IF Engine = "v3" THEN 0 ELSE ether[f.cycle]])
  /\ UNCHANGED <<chainVars, histVars, boundVars>>

TransferLands(f) ==
  /\ f.at = "sending"
  /\ orders' = Plus(orders, f.job, f.cycle, 1)
  /\ sent' = Plus(sent, f.job, f.cycle, 1)
  /\ Mark(f, [R(f) EXCEPT !.transfer = TRUE])
  /\ Goto(f, "fill", 0)
  /\ UNCHANGED <<position, ether, late, sold, filled, bought, blind, boundVars>>

\* Mutant: v6's wait as v3 has it, on what the wallet holds.
FilledByBalance(f) == ether[f.cycle] >= Fund

Filled(f) == ether[f.cycle] - R(f).base >= Fund

FillSeen(f) ==
  /\ f.at = "fill"
  /\ Filled(f)
  /\ Mark(f, [R(f) EXCEPT !.fill = TRUE])
  /\ Goto(f, "buy", 0)
  /\ UNCHANGED <<chainVars, histVars, boundVars>>

\* Mutant: the poll has no deadline.
FillTimeoutNever(f) == f.at = "timeout" /\ UNCHANGED vars

\* The polls ran out.  A fill that lands after the last of them lands, as far as
\* the state shows, after the throw.
FillTimeout(f) ==
  /\ \/ f.at = "fill" /\ ~Filled(f)
     \/ f.at = "refill" /\ ether[f.cycle] < Fund
  /\ Throw(f)
  /\ UNCHANGED <<rec, chainVars, histVars, boundVars>>

\* All the wallet holds, less gas.  v3 waits for the transfer once more when that
\* is not enough; v6 and v7 halt.
SizeBuy(f) ==
  /\ f.at \in {"buy", "rebuy"}
  /\ IF ether[f.cycle] > Gas THEN Goto(f, "buying", ether[f.cycle] - Gas)
     ELSE IF Engine = "v3" /\ f.at = "buy" THEN Goto(f, "refill", 0)
     ELSE Throw(f)
  /\ UNCHANGED <<rec, chainVars, histVars, boundVars>>

Refilled(f) ==
  /\ f.at = "refill"
  /\ ether[f.cycle] >= Fund
  /\ Goto(f, "rebuy", 0)
  /\ UNCHANGED <<rec, chainVars, histVars, boundVars>>

BuyLands(f) ==
  /\ f.at = "buying"
  /\ f.amt <= ether[f.cycle]
  /\ ether' = [ether EXCEPT ![f.cycle] = @ - f.amt]
  /\ bought' = Plus(bought, f.job, f.cycle, 1)
  /\ Mark(f, [R(f) EXCEPT !.buy = TRUE])
  /\ Finish(f)
  /\ UNCHANGED <<position, orders, late, sold, sent, filled, blind, boundVars>>

\* What the step spends is gone: the transaction is refused or reverts.
Reverts(f) ==
  /\ \/ f.at = "selling" /\ f.amt > position
     \/ f.at = "buying" /\ f.amt > ether[f.cycle]
  /\ Throw(f)
  /\ UNCHANGED <<rec, chainVars, histVars, boundVars>>

-----------------------------------------------------------------------------
(* What goes wrong *)

\* A read, a quote or a broadcast fails, or a transaction reverts: nothing moved.
StepFails(f) ==
  /\ faults < MaxFaults
  /\ faults' = faults + 1
  /\ Throw(f)
  /\ UNCHANGED <<rec, chainVars, histVars, resumes, restarts>>

\* The broadcast lands, but its answer, or a read after it, is lost.
StepLandsAndThrows(f) ==
  /\ Unsure
  /\ faults < MaxFaults
  /\ faults' = faults + 1
  /\ f.at \in Broadcasts
  /\ f.at = "selling" => f.amt <= position
  /\ f.at = "buying" => f.amt <= ether[f.cycle]
  /\ position' = CASE f.at = "bigBuy" -> position + BigBuy
                   [] f.at = "selling" -> position - f.amt
                   [] OTHER -> position
  /\ ether' = IF f.at = "buying" THEN [ether EXCEPT ![f.cycle] = @ - f.amt] ELSE ether
  /\ LET one(point) == IF f.at \in point THEN 1 ELSE 0 IN
     /\ orders' = Plus(orders, f.job, f.cycle, one({"sending"}))
     /\ sent' = Plus(sent, f.job, f.cycle, one({"sending"}))
     /\ sold' = Plus(sold, f.job, f.cycle, one({"selling"}))
     /\ bought' = Plus(bought, f.job, f.cycle, one({"bigBuy", "buying"}))
  /\ blind' = Plus(blind, f.job, f.cycle, 1)
  /\ Throw(f)
  /\ UNCHANGED <<rec, late, filled, resumes, restarts>>

\* Nobody has the receipt by the deadline.  A buy counts as done; so does a v3
\* sell, with nothing raised; a v6 or v7 sell halts the run.
Pending(f, kind) ==
  /\ Slow
  /\ faults < MaxFaults
  /\ faults' = faults + 1
  /\ late' = late \cup {[id |-> faults', kind |-> kind, job |-> f.job,
                         cycle |-> f.cycle, amt |-> f.amt]}
  /\ UNCHANGED <<position, ether, orders, sold, sent, filled, bought, resumes, restarts>>

BigBuyPending(f) ==
  /\ f.at = "bigBuy"
  /\ Pending(f, "bigBuy")
  /\ Finish(f)
  /\ UNCHANGED <<rec, blind>>

SellPending(f) ==
  /\ f.at = "selling"
  /\ Pending(f, "sell")
  /\ IF Engine = "v3"
     THEN /\ Mark(f, [R(f) EXCEPT !.sell = TRUE, !.raised = 0])
          /\ Goto(f, "transfer", 0)
          /\ UNCHANGED blind
     ELSE Throw(f) /\ blind' = Plus(blind, f.job, f.cycle, 1) /\ UNCHANGED rec

BuyPending(f) ==
  /\ f.at = "buying"
  /\ Pending(f, "buy")
  /\ Mark(f, [R(f) EXCEPT !.buy = TRUE])
  /\ Finish(f)
  /\ UNCHANGED blind

-----------------------------------------------------------------------------
(* The chain and Relay *)

FillArrives(j, i) ==
  /\ orders[j][i] > 0
  /\ orders' = Plus(orders, j, i, -1)
  /\ filled' = Plus(filled, j, i, 1)
  /\ ether' = [ether EXCEPT ![i] = @ + Fund]
  /\ UNCHANGED <<jobVars, rec, flights, position, late, sold, sent, bought, blind, boundVars>>

LateLands(t) ==
  /\ t.kind = "sell" => t.amt <= position
  /\ t.kind = "buy" => t.amt <= ether[t.cycle]
  /\ late' = late \ {t}
  /\ position' = CASE t.kind = "bigBuy" -> position + BigBuy
                   [] t.kind = "sell" -> position - t.amt
                   [] OTHER -> position
  /\ ether' = IF t.kind = "buy" THEN [ether EXCEPT ![t.cycle] = @ - t.amt] ELSE ether
  /\ sold' = Plus(sold, t.job, t.cycle, IF t.kind = "sell" THEN 1 ELSE 0)
  /\ bought' = Plus(bought, t.job, t.cycle, IF t.kind = "sell" THEN 0 ELSE 1)
  /\ UNCHANGED <<jobVars, rec, flights, orders, sent, filled, blind, boundVars>>

LateDrops(t) ==
  /\ late' = late \ {t}
  /\ UNCHANGED <<jobVars, rec, flights, position, ether, orders, histVars, boundVars>>

-----------------------------------------------------------------------------

StepOn(f) ==
  \/ BigBuyLands(f)
  \/ SizeSell(f) \/ SellLands(f)
  \/ SizeTransfer(f) \/ TransferLands(f)
  \/ FillSeen(f) \/ FillTimeout(f)
  \/ SizeBuy(f) \/ Refilled(f) \/ BuyLands(f) \/ Reverts(f)

StepOff(f) ==
  \/ StepFails(f) \/ StepLandsAndThrows(f)
  \/ BigBuyPending(f) \/ SellPending(f) \/ BuyPending(f)

Operator == (\E j \in Job : Start(j)) \/ Stop \/ Resume
Chain ==
  \/ \E j \in Job, i \in Wallet : FillArrives(j, i)
  \/ \E t \in late : LateLands(t) \/ LateDrops(t)

Next ==
  \/ Operator \/ Restart
  \/ \E j \in Job : TimerFires(j)
  \/ \E f \in flights : StepOn(f) \/ StepOff(f)
  \/ Chain

Spec == Init /\ [][Next]_vars

\* A timer that is armed fires, and an await resolves or rejects.  Nothing is
\* assumed of the operator, of Relay or of the chain.
FairSpec ==
  /\ Spec
  /\ \A j \in Job : WF_vars(TimerFires(j))
  /\ \A j \in Job : WF_vars(\E f \in flights : f.job = j /\ StepOn(f))

-----------------------------------------------------------------------------
(* Properties *)

\* Every variable has its type: index stays within the targets, and whoever runs
\* a cycle has a record for it (recordFor).
TypeOK ==
  /\ cur \in 0..MaxJobs
  /\ status \in [Job -> {"none", "running", "stopped", "failed", "complete", "lost"}]
  /\ inFlight \in [Job -> BOOLEAN]
  /\ timer \in [Job -> BOOLEAN]
  /\ index \in [Job -> 0..(N + 1)]
  /\ rec \in [Job -> [Cycle -> Rec]]
  /\ flights \subseteq Flight
  /\ position \in Nat
  /\ ether \in [Wallet -> Nat]
  /\ orders \in Tally /\ sold \in Tally /\ sent \in Tally
  /\ filled \in Tally /\ bought \in Tally /\ blind \in Tally
  /\ late \subseteq Tx
  /\ faults \in Nat /\ resumes \in Nat /\ restarts \in Nat

\* However often a run is stopped and resumed while a cycle is in flight, a job
\* runs one cycle at a time, and it is the one index names (runNext's inFlight).
OneCyclePerJob ==
  /\ \A f, g \in flights : f.job = g.job => f = g
  /\ \A f \in flights : f.cycle = index[f.job] /\ inFlight[f.job]

\* No lost wakeup: a run that says it is running is the user's, and has a timer
\* armed or a cycle in flight that will arm it, whatever stop, resume and throw
\* did to the timer meanwhile.
NeverIdle ==
  \A j \in Job : status[j] = "running" => j = cur /\ (timer[j] \/ inFlight[j])

\* "Resume picks up at the step that failed": whatever fails and is resumed, no
\* cycle sells, transfers or buys twice, except for steps that landed, or may
\* have, without returning.
StepsLandOnce ==
  \A j \in Job, i \in Cycle :
    {sold[j][i], sent[j][i], bought[j][i]} \subseteq 0..(1 + blind[j][i])

\* A complete run has divided the whole position: each wallet had its slice sold
\* for it and bought, and the main wallet is left with nothing.
CompleteMeansPlaced ==
  \A j \in Job : status[j] = "complete" =>
    /\ j = cur => position = 0
    /\ \A i \in Wallet : sold[j][i] > 0 /\ sent[j][i] > 0 /\ bought[j][i] > 0

\* A fill is taken as arrived only when the solver has paid it, also for a wallet
\* that held ether of its own ("never an absolute threshold").
FillWaitIsForTheFill ==
  \A j \in Job, i \in Wallet : rec[j][i].fill => filled[j][i] > 0

\* "Nothing is ever left pending": a step recorded as done is on chain.
DoneStepsAreOnChain ==
  \A j \in Job :
    /\ index[j] > 0 => bought[j][0] > 0
    /\ \A i \in Wallet : rec[j][i].sell => sold[j][i] > 0
    /\ \A i \in Wallet : rec[j][i].buy => bought[j][i] > 0

\* No two cycles sign for the same main wallet at once.
OneCycleAtATime == Cardinality(flights) <= 1

\* A run ends by itself: nothing it waits for can keep it running for ever.
RunEnds == \A j \in Job : status[j] = "running" ~> status[j] # "running"
=============================================================================
