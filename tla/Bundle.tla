------------------------------- MODULE Bundle -------------------------------
(***************************************************************************)
(* The V1 and V2 launch bundles (backend/src/bundle/, routes/launch.js):   *)
(* a launch by the account's dev wallet and a buy by each bundle wallet,   *)
(* all signed before anything is sent, against an address the launch is to *)
(* create.  A buy that executes before it does, or without it, is lost in  *)
(* a way that depends on the protocol, so the order in which the requests  *)
(* go out, and what the report makes of the receipts, is everything.       *)
(*                                                                         *)
(*   "v1"         the launch awaited, the buys held until block.number     *)
(*                ticks (fire.js, blockwait.js)                            *)
(*   "native"     the launch awaited, then the buys (fireV2.js)            *)
(*   "paired"     a buy paid in an ERC-20: approves, then the launch and   *)
(*                the buys behind it without its answer                    *)
(*   "forwarded"  the same with a dev buy: the dev wallet approves too     *)
(*                                                                         *)
(* One account.  The chain is the sequencer's queue in order of arrival,   *)
(* the nonces and what was executed.  Amounts, taxes, gas and simulation   *)
(* are left out but for one bit, whether the factory would let the launch  *)
(* through; so is the warming of sockets, and who else trades.             *)
(***************************************************************************)
EXTENDS Integers, Sequences, FiniteSets

CONSTANTS
  Wallets,     \* bundle wallets
  Dev,         \* the dev wallet
  Paths,       \* kinds of launch that are asked for
  Async,       \* config.v2PairedAsyncLaunch
  Lags,        \* nodes lag: a queued transaction may be missed in a nonce read, and
               \* another be taken at its nonce
  MaxTries,    \* bound on launches asked for
  MaxTicks,    \* bound on block.number
  MaxFaults    \* bound on answers that do not come, block reads that fail, waits given up,
               \* changes of the factory's gate and restarts, taken together

Kinds == {"v1", "native", "paired", "forwarded"}

ASSUME BundleAssumption ==
  /\ Dev \notin Wallets /\ IsFiniteSet(Wallets) /\ Paths \subseteq Kinds
  /\ Async \in BOOLEAN /\ Lags \in BOOLEAN
  /\ MaxTries \in Nat /\ MaxTicks \in Nat \ {0} /\ MaxFaults \in Nat

Try  == 1..MaxTries
Who  == Wallets \cup {Dev}
Txs  == [try : Try, who : Who, kind : {"approve", "act"}]
Counts == 0..(2 * MaxTries)   \* two transactions of each wallet in a launch, at most
Unread == 0

Launch(t)     == [try |-> t, who |-> Dev, kind |-> "act"]
Buy(t, w)     == [try |-> t, who |-> w, kind |-> "act"]
Approve(t, a) == [try |-> t, who |-> a, kind |-> "approve"]

VARIABLES
  \* the chain
  count,     \* executed transactions of each wallet
  queue,     \* what has reached the sequencer, in order of arrival
  done,      \* number of transactions executed
  at,        \* when each was executed, 0 if it was not
  out,       \* what came of it
  tick,      \* block.number
  born,      \* the block.number at which each launch was executed
  open,      \* the factory would let a launch through
  \* the requests
  req,       \* what the handler knows of each
  onway,     \* requests that have not arrived
  \* the server
  launching, \* routes/launch.js: the account is in the set
  pc,        \* where each launch's handler is
  path,      \* what was asked for
  base,      \* the nonces prepare read
  seen,      \* block.number before the launch
  report,    \* the status of the launch and of each buy in the result
  flagged,   \* buys the result says bought nothing, or may have
  faults

chain == <<count, queue, done, at, out, tick, born, open>>
wire  == <<req, onway>>
plans == <<path, base, seen>>
told  == <<report, flagged>>
vars == <<chain, wire, launching, pc, plans, told, faults>>

Ended == {"done", "threw", "gone"}
Steps == {"prepare", "sign", "recheck", "hold", "block", "approving", "launching", "wait", "lead",
          "burst", "receipt", "results"}

Reports == {"none", "failed", "pending", "unknown", "confirmed", "reverted"}

TypeOK ==
  /\ count \in [Who -> Nat] /\ queue \in Seq(Txs) /\ done \in Nat /\ at \in [Txs -> Nat]
  /\ out \in [Txs -> {"none", "ok", "reverted", "stranded", "wasted"}]
  /\ tick \in 1..MaxTicks /\ born \in [Try -> 0..MaxTicks] /\ open \in BOOLEAN
  /\ req \in [Txs -> {"unsent", "out", "sent", "failed"}] /\ onway \subseteq Txs
  /\ launching \in BOOLEAN /\ pc \in [Try -> Steps \cup Ended \cup {"none"}]
  /\ path \in [Try -> Kinds \cup {"none"}] /\ base \in [Try -> [Who -> Nat]]
  /\ seen \in [Try -> 0..MaxTicks]
  /\ report \in [Try -> [Who -> Reports]]
  /\ flagged \in [Try -> SUBSET Wallets]
  /\ faults \in 0..MaxFaults

Init ==
  /\ count = [a \in Who |-> 0] /\ queue = <<>> /\ done = 0 /\ at = [x \in Txs |-> 0]
  /\ out = [x \in Txs |-> "none"] /\ tick = 1 /\ born = [t \in Try |-> 0] /\ open = TRUE
  /\ req = [x \in Txs |-> "unsent"] /\ onway = {}
  /\ launching = FALSE /\ pc = [t \in Try |-> "none"]
  /\ path = [t \in Try |-> "none"] /\ base = [t \in Try |-> [a \in Who |-> 0]]
  /\ seen = [t \in Try |-> Unread]
  /\ report = [t \in Try |-> [a \in Who |-> "none"]] /\ flagged = [t \in Try |-> {}]
  /\ faults = 0

Fault == faults < MaxFaults /\ faults' = faults + 1
-----------------------------------------------------------------------------
(* The plan.                                                               *)

Paired(t) == path[t] \in {"paired", "forwarded"}

\* Who approves: the buyers of a paired launch, and the dev wallet for a dev buy.
Approvers(t) == (IF Paired(t) THEN Wallets ELSE {}) \cup (IF path[t] = "forwarded" THEN {Dev} ELSE {})
Approves(t)  == {Approve(t, a) : a \in Approvers(t)}

\* The act is signed one above its approve.
Nonce(x) == base[x.try][x.who] + IF x.kind = "act" /\ x.who \in Approvers(x.try) THEN 1 ELSE 0
-----------------------------------------------------------------------------
(* The chain.                                                              *)

ran(x) == at[x] > 0

Waiting(a)  == {queue[i] : i \in {j \in DOMAIN queue : queue[j].who = a}}
Taken(a)    == {Nonce(x) : x \in Waiting(a)}

\* getTransactionCount(a, 'pending') may say n; from a node that lags, it says what is mined.
Reads(a, n) ==
  \/ n >= count[a] /\ n \notin Taken(a) /\ \A m \in count[a]..(n - 1) : m \in Taken(a)
  \/ Lags /\ n = count[a]

\* The sequencer's next: the first to arrive of those whose nonce has come, or gone.
Ready(i) == Nonce(queue[i]) <= count[queue[i].who]
IsNext(i) == Ready(i) /\ \A j \in 1..(i - 1) : ~Ready(j)
Without(i) == [j \in 1..(Len(queue) - 1) |-> queue[IF j < i THEN j ELSE j + 1]]

Exists(t) == out[Launch(t)] = "ok"

\* What a transaction does: a call to an address with no contract succeeds, and keeps
\* the ETH it carries.
Outcome(x) ==
  LET t == x.try  allowed == x.who \in Approvers(t) => ran(Approve(t, x.who))
  IN  CASE x.kind = "approve" -> "ok"
        [] x.kind = "act" /\ x.who = Dev -> IF open /\ allowed THEN "ok" ELSE "reverted"
        [] OTHER -> CASE path[t] = "v1" -> IF Exists(t) /\ tick > born[t] THEN "ok" ELSE "reverted"
                      [] path[t] = "native" -> IF Exists(t) THEN "ok" ELSE "stranded"
                      [] OTHER -> IF ~Exists(t) THEN "wasted" ELSE IF allowed THEN "ok" ELSE "reverted"

\* It runs, or is dropped if its nonce is spent.
Execute(i) ==
  /\ IsNext(i)
  /\ LET x == queue[i]
     IN  IF Nonce(x) = count[x.who]
         THEN /\ count' = [count EXCEPT ![x.who] = @ + 1]
              /\ done' = done + 1 /\ at' = [at EXCEPT ![x] = done + 1]
              /\ out' = [out EXCEPT ![x] = Outcome(x)]
              /\ born' = IF x = Launch(x.try) THEN [born EXCEPT ![x.try] = tick] ELSE born
         ELSE UNCHANGED <<count, done, at, out, born>>
  /\ queue' = Without(i)
  /\ UNCHANGED <<tick, open, wire, launching, pc, plans, told, faults>>

Tick ==
  /\ tick < MaxTicks /\ tick' = tick + 1
  /\ UNCHANGED <<count, queue, done, at, out, born, open, wire, launching, pc, plans, told, faults>>

\* The owner of the factory, a fee, a used salt.
Drift ==
  /\ Fault /\ open' = ~open
  /\ UNCHANGED <<count, queue, done, at, out, tick, born, wire, launching, pc, plans, told>>
-----------------------------------------------------------------------------
(* broadcastTransaction.                                                   *)

Send(S) ==
  /\ req' = [x \in Txs |-> IF x \in S THEN "out" ELSE req[x]]
  /\ onway' = onway \cup S

Answer(x, as) == req' = IF req[x] = "out" THEN [req EXCEPT ![x] = as] ELSE req

\* It arrives, and is taken or refused.
Arrive(x) ==
  /\ x \in onway /\ onway' = onway \ {x}
  /\ \/ /\ Nonce(x) >= count[x.who] /\ (Nonce(x) \in Taken(x.who) => Lags)
        /\ queue' = Append(queue, x) /\ Answer(x, "sent")
     \/ /\ Nonce(x) < count[x.who] \/ Nonce(x) \in Taken(x.who)
        /\ Answer(x, "failed") /\ UNCHANGED queue
  /\ UNCHANGED <<count, done, at, out, tick, born, open, launching, pc, plans, told, faults>>

\* Its caller is told it failed; it may still arrive, at once, later or never.
GivesUp(x) ==
  /\ req[x] = "out" /\ Fault
  /\ Answer(x, "failed") /\ UNCHANGED onway
  /\ UNCHANGED <<chain, launching, pc, plans, told>>

Settled(S) == \A x \in S : req[x] # "out"
-----------------------------------------------------------------------------
(* POST /launch and POST /v2/launch.                                       *)

Goto(t, l) == pc' = [pc EXCEPT ![t] = l] /\ UNCHANGED launching
Over(t, l) == pc' = [pc EXCEPT ![t] = l] /\ launching' = FALSE

Throw(t) == Over(t, "threw") /\ UNCHANGED wire

\* withLaunchLock: refused while another is in progress.
Request(t, p) ==
  /\ pc[t] = "none" /\ \A u \in Try : u < t => pc[u] # "none"
  /\ ~launching /\ launching' = TRUE
  /\ pc' = [pc EXCEPT ![t] = "prepare"] /\ path' = [path EXCEPT ![t] = p]
  /\ UNCHANGED <<chain, wire, base, seen, told, faults>>

\* prepare, prepareV2: nothing is signed unless the launch simulates; the nonces are read
\* one after the other, from nodes that may lag.
Prepare(t) ==
  /\ pc[t] = "prepare"
  /\ \/ Throw(t) /\ UNCHANGED base
     \/ /\ open
        /\ \E n \in Counts : Reads(Dev, n) /\ base' = [base EXCEPT ![t][Dev] = n]
        /\ Goto(t, "sign") /\ UNCHANGED wire
  /\ UNCHANGED <<chain, path, seen, told, faults>>

Sign(t) ==
  /\ pc[t] = "sign"
  /\ \/ Throw(t) /\ UNCHANGED base
     \/ /\ \E b \in [Wallets -> Counts] :
             /\ \A w \in Wallets : Reads(w, b[w])
             /\ base' = [base EXCEPT ![t] = [a \in Who |-> IF a = Dev THEN @[Dev] ELSE b[a]]]
        /\ Goto(t, CASE path[t] = "v1" -> "block" [] path[t] = "forwarded" -> "hold" [] OTHER -> "recheck")
        /\ UNCHANGED wire
  /\ UNCHANGED <<chain, path, seen, told, faults>>

\* recheckLaunch: it throws if the launch reverts by now and the node says so in time.
Recheck(t) ==
  /\ pc[t] = "recheck"
  /\ \/ ~open /\ Throw(t)
     \/ Goto(t, "hold") /\ UNCHANGED wire
  /\ UNCHANGED <<chain, plans, told, faults>>

\* Mutant: whatever the quote asset, the launch is not awaited.
AsyncAlways(t) == Async

asyncLaunch(t) == Paired(t) /\ Async

SendLaunch(t) ==
  /\ Send({Launch(t)})
  /\ Goto(t, IF asyncLaunch(t) THEN "lead" ELSE "launching")

\* waitForFreshSecond is over: every approve at once, or the launch.
Hold(t) ==
  /\ pc[t] = "hold"
  /\ IF Approves(t) # {} THEN Send(Approves(t)) /\ Goto(t, "approving") ELSE SendLaunch(t)
  /\ UNCHANGED <<chain, plans, told, faults>>

\* A dev approve that failed would leave the launch behind a gap.
Approved(t) ==
  /\ pc[t] = "approving" /\ Settled(Approves(t))
  /\ IF Dev \in Approvers(t) /\ req[Approve(t, Dev)] = "failed" THEN Throw(t) ELSE SendLaunch(t)
  /\ UNCHANGED <<chain, plans, told, faults>>

\* v1 reads block.number and launches.
ReadBlock(t) ==
  /\ pc[t] = "block"
  /\ \/ seen' = [seen EXCEPT ![t] = tick] /\ UNCHANGED faults
     \/ Fault /\ UNCHANGED seen
  /\ SendLaunch(t)
  /\ UNCHANGED <<chain, path, base, told>>

\* Mutant: a buy whose approve failed goes out too.
BuysWhatever(t) == {Buy(t, w) : w \in Wallets}

\* The buys that go out: not those whose approve did not.
Buys(t) == {Buy(t, w) : w \in {v \in Wallets : v \in Approvers(t) => req[Approve(t, v)] = "sent"}}

SendBuys(t) == Send(Buys(t)) /\ Goto(t, "burst")

\* The launch's answer; v1 then waits for the block to tick, if it could read it.
Launched(t) ==
  /\ pc[t] = "launching" /\ req[Launch(t)] # "out"
  /\ IF req[Launch(t)] = "failed" THEN Throw(t)
     ELSE IF seen[t] # Unread THEN Goto(t, "wait") /\ UNCHANGED wire ELSE SendBuys(t)
  /\ UNCHANGED <<chain, plans, told, faults>>

\* waitForNextBlock: it has ticked, or the wait is given up.
Ticked(t) ==
  /\ pc[t] = "wait"
  /\ \/ tick > seen[t] /\ UNCHANGED faults
     \/ Fault
  /\ SendBuys(t)
  /\ UNCHANGED <<chain, plans, told>>

\* The lead is over.
Lead(t) ==
  /\ pc[t] = "lead" /\ SendBuys(t)
  /\ UNCHANGED <<chain, plans, told, faults>>

\* Every buy has been answered, and the launch.
Burst(t) ==
  /\ pc[t] = "burst" /\ Settled({Buy(t, w) : w \in Wallets}) /\ Settled({Launch(t)})
  /\ IF req[Launch(t)] = "failed" THEN Throw(t) ELSE Goto(t, "receipt") /\ UNCHANGED wire
  /\ UNCHANGED <<chain, plans, told, faults>>

\* What the wait for a receipt may come to: the receipt's status (a transaction that reached
\* nothing has succeeded), or, executed or not, that it could not be read: waitForReceipt
\* swallows errors up to its deadline and says null, v1 catches one.
Statuses(x) ==
  {IF path[x.try] = "v1" THEN "unknown" ELSE "pending"}
    \cup (IF ran(x) THEN {IF out[x] = "reverted" THEN "reverted" ELSE "confirmed"} ELSE {})

\* v1's wait() throws for a launch that reverted or was replaced, and when it cannot read.
Receipt(t) ==
  /\ pc[t] = "receipt"
  /\ \/ path[t] = "v1" /\ Throw(t) /\ UNCHANGED report
     \/ /\ path[t] = "v1" => Exists(t)
        /\ \E s \in Statuses(Launch(t)) \ {"unknown"} : report' = [report EXCEPT ![t][Dev] = s]
        /\ Goto(t, "results") /\ UNCHANGED wire
  /\ UNCHANGED <<chain, plans, flagged, faults>>

\* Sequenced ahead of the launch, as far as both receipts say.
Ahead(t, r) == {w \in Wallets : /\ r[w] \in {"confirmed", "reverted"} /\ r[Dev] # "pending"
                                /\ at[Buy(t, w)] < at[Launch(t)]}
Exposed(r) == {w \in Wallets : r[w] \in {"confirmed", "pending"}}

\* Mutant: only a launch that did not confirm raises a flag.
FlagsNoOvertake(t, r) == IF r[Dev] = "confirmed" THEN {} ELSE Exposed(r)

\* boughtNothing and strandSuspected; v1 has neither.
Flags(t, r) ==
  IF path[t] = "v1" THEN {}
  ELSE Ahead(t, r) \cup (IF r[Dev] = "confirmed" THEN {} ELSE Exposed(r))

\* The buys' receipts; with the last the result is recorded and returned.
Results(t, w) ==
  /\ pc[t] = "results" /\ report[t][w] = "none"
  /\ \E s \in IF req[Buy(t, w)] = "sent" THEN Statuses(Buy(t, w)) ELSE {"failed"} :
       LET r == [report[t] EXCEPT ![w] = s]
       IN /\ report' = [report EXCEPT ![t] = r]
          /\ IF \A v \in Wallets : r[v] # "none"
             THEN Over(t, "done") /\ flagged' = [flagged EXCEPT ![t] = Flags(t, r)]
             ELSE UNCHANGED <<pc, launching, flagged>>
  /\ UNCHANGED <<chain, wire, plans, faults>>

\* A restart: the handlers and the lock are gone; what is on its way may arrive.
Crash ==
  /\ Fault
  /\ pc' = [t \in Try |-> IF pc[t] \in Steps THEN "gone" ELSE pc[t]]
  /\ req' = [x \in Txs |-> IF req[x] = "out" THEN "failed" ELSE req[x]]
  /\ launching' = FALSE
  /\ UNCHANGED <<chain, onway, plans, told>>
-----------------------------------------------------------------------------
Handler(t) ==
  \/ Prepare(t) \/ Sign(t) \/ Recheck(t) \/ Hold(t) \/ Approved(t) \/ ReadBlock(t) \/ Launched(t)
  \/ Ticked(t) \/ Lead(t) \/ Burst(t) \/ Receipt(t) \/ \E w \in Wallets : Results(t, w)

Next ==
  \/ \E t \in Try : Handler(t) \/ \E p \in Paths : Request(t, p)
  \/ \E x \in Txs : Arrive(x) \/ GivesUp(x)
  \/ \E i \in DOMAIN queue : Execute(i)
  \/ Tick \/ Drift \/ Crash

Spec == Init /\ [][Next]_vars

\* The v2 handler's awaits settle: every read has an answer or an error, a broadcast is
\* answered or given up, and a wait for a receipt has its deadline.  Nothing is owed by
\* the chain, nor by v1, whose wait for a receipt has no deadline.
Fairness ==
  /\ \A t \in Try : WF_vars(path[t] # "v1" /\ Handler(t))
  /\ WF_vars(\E x \in Txs : req[x] = "out" /\ (Arrive(x) \/ GivesUp(x)))

FairSpec == Spec /\ Fairness
-----------------------------------------------------------------------------
(* An earlier launch that sent something for the dev wallet and ended      *)
(* without its receipt: its lock is gone, and what it sent may not be.     *)
InDoubt(u) ==
  /\ pc[u] \in Ended /\ report[u][Dev] \notin {"confirmed", "reverted"}
  /\ \E x \in {Launch(u), Approve(u, Dev)} : req[x] # "unsent"

\* A native buy pays ETH into an address: it is never executed ahead of the launch that is
\* to create it, and if there is no curve then the launch itself had been executed and
\* reverted, or lost its nonce to a launch whose handler ended in doubt.
NativeBuyFollowsItsLaunch ==
  \A t \in Try, w \in Wallets :
    out[Buy(t, w)] = "stranded" =>
      \/ ran(Launch(t)) /\ at[Launch(t)] < at[Buy(t, w)]
      \/ \E u \in Try : u < t /\ InDoubt(u)

\* What the result says of a buy it does not flag, though any receipt may have stayed
\* unread: one listed as confirmed has bought, and one listed as pending has not paid its
\* ETH into an address without a contract (fireV2.js:637-705).
NothingIsPassedOffAsBought ==
  \A t \in Try, w \in Wallets :
    pc[t] = "done" /\ w \notin flagged[t] =>
      /\ report[t][w] = "confirmed" => out[Buy(t, w)] = "ok"
      /\ report[t][w] = "pending" => out[Buy(t, w)] # "stranded"

\* What the sequencer holds can run: no wallet has a hole in its nonces below it.
NothingWaitsBehindAGap ==
  \A i \in DOMAIN queue :
    \A n \in count[queue[i].who]..(Nonce(queue[i]) - 1) : n \in Taken(queue[i].who)

\* A v2 launch comes to an end, and with it the lock that refuses the next.
LaunchEnds ==
  \A t \in Try : pc[t] \in Steps /\ path[t] # "v1" ~> pc[t] \in Ended
-----------------------------------------------------------------------------
(* What the code or its comments say and these violate (see README).       *)

\* v1: no buy is released into the block of its launch (fire.js:138-140).
BuysMissTheLaunchBlock ==
  \A t \in Try, w \in Wallets :
    path[t] = "v1" /\ ran(Buy(t, w)) /\ Exists(t) => out[Buy(t, w)] = "ok"

\* The lock in memory is sufficient: no native buy is stranded by another launch
\* (routes/launch.js:22-29).
OnlyARevertStrands ==
  \A t \in Try, w \in Wallets :
    out[Buy(t, w)] = "stranded" => ran(Launch(t)) /\ at[Launch(t)] < at[Buy(t, w)]

\* A launch that failed to broadcast created no curve (fireV2.js:562-568).
AFailedLaunchIsNoLaunch ==
  \A t \in Try : pc[t] = "threw" /\ req[Launch(t)] = "failed" => ~Exists(t)

\* A stranded buy is flagged in the result (fireV2.js:675-681).
StrandedIsFlagged ==
  \A t \in Try, w \in Wallets : pc[t] = "done" /\ out[Buy(t, w)] = "stranded" => w \in flagged[t]

\* A buy that overtook its launch is seen in the result, not inferred (fireV2.js:623-629).
OvertakesAreSeen ==
  \A t \in Try, w \in Wallets :
    pc[t] = "done" /\ path[t] # "v1" /\ ran(Buy(t, w)) /\ Exists(t) /\ at[Buy(t, w)] < at[Launch(t)]
      => w \in flagged[t]
=============================================================================
