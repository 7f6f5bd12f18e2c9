---------------------------- MODULE BundleProofs ----------------------------
(***************************************************************************)
(* Proofs about Bundle for any number of wallets, launches, blocks and     *)
(* faults, with and without lagging nodes and asynchronous launches:       *)
(*   - the types;                                                          *)
(*   - what the sequencer holds can run (NothingWaitsBehindAGap);          *)
(*   - of what the report lists without a flag, the confirmed has bought   *)
(*     and the pending has stranded nothing (NothingIsPassedOffAsBought);  *)
(*   - a native buy is not executed ahead of its launch, and finds none    *)
(*     only for a launch that reverted or lost its nonce to one in doubt   *)
(*     (NativeBuyFollowsItsLaunch).                                        *)
(*                                                                         *)
(* They share one invariant.  Its heart is NoGap and InOrder: every nonce  *)
(* below that of a transaction in the queue is spent or held by one in     *)
(* front of it, so the queue of a wallet runs in the order of arrival, and *)
(* a native launch that was answered is in front of all that could pass it *)
(* but what earlier launches left behind.                                  *)
(***************************************************************************)
EXTENDS Bundle, FiniteSetTheorems, TLAPS

\* Nothing of a launch has been sent yet.
Before == {"none", "prepare", "sign", "recheck", "hold", "block"}

\* The lock: a handler at work holds it, and a later launch finds the earlier ended.
Lock ==
  /\ \A t \in Try : pc[t] \in Steps => launching
  /\ \A t, u \in Try : u < t /\ pc[t] # "none" => pc[u] \in Ended

\* Where the handler is while a request is out.
OutAt(x) ==
  IF x.kind = "approve" THEN {"approving"}
  ELSE IF x.who = Dev THEN {"launching", "lead", "burst"} ELSE {"burst"}

\* What is sent when: each transaction once, the buys of a native launch behind its
\* answer, and no handler ends with a request out.
Posted ==
  /\ \A x \in Txs : req[x] = "unsent" => x \notin onway /\ at[x] = 0
  /\ \A i \in DOMAIN queue : req[queue[i]] # "unsent"
  /\ \A x \in onway : req[x] # "sent"
  /\ \A x \in Txs : x.kind = "approve" /\ req[x] # "unsent" => x.who \in Approvers(x.try)
  /\ \A x \in Txs : pc[x.try] \in Before => req[x] = "unsent"
  /\ \A x \in Txs : pc[x.try] = "approving" /\ x.kind = "act" => req[x] = "unsent"
  /\ \A x \in Txs : pc[x.try] \in {"launching", "wait", "lead"} /\ x.kind = "act" /\ x.who # Dev =>
       req[x] = "unsent"
  /\ \A x \in Txs : req[x] = "out" => pc[x.try] \in OutAt(x)
  /\ \A x \in Txs : path[x.try] = "native" /\ x.kind = "act" /\ x.who # Dev /\ req[x] # "unsent" =>
       req[Launch(x.try)] = "sent"
  /\ \A t \in Try : /\ pc[t] = "wait" => req[Launch(t)] = "sent"
                    /\ pc[t] = "block" => path[t] = "v1"
                    /\ pc[t] = "lead" => Paired(t)
                    /\ pc[t] \in {"launching", "lead"} => req[Launch(t)] # "unsent"
                    /\ pc[t] = "approving" => \A x \in Approves(t) : req[x] # "unsent"

\* Every nonce of the wallet below n is spent, or among the first l in the queue.
Held(a, n, l) ==
  \A m \in count[a]..(n - 1) : \E k \in 1..l : queue[k].who = a /\ Nonce(queue[k]) = m

\* So it is with what was read, what is on its way, and what is in the queue already.
NoGap ==
  /\ \A t \in Try, a \in Who : Held(a, base[t][a], Len(queue))
  /\ \A x \in onway : Held(x.who, Nonce(x), Len(queue))
  /\ \A i \in DOMAIN queue : Held(queue[i].who, Nonce(queue[i]), i - 1)
  /\ \A x \in Txs : req[x] = "sent" => Nonce(x) < count[x.who] \/ \E k \in DOMAIN queue : queue[k] = x

\* What was executed, once, and what came of it.
Executed ==
  /\ \A x \in Txs : /\ at[x] <= done /\ (ran(x) <=> out[x] # "none")
                    /\ ran(x) => Nonce(x) < count[x.who]
  /\ \A x, y \in Txs : ran(x) /\ at[x] = at[y] => x = y
  /\ \A x \in Txs : /\ x.kind = "approve" => out[x] \in {"none", "ok"}
                    /\ x.who = Dev => out[x] \in {"none", "ok", "reverted"}
                    /\ out[x] = "stranded" => path[x.try] = "native"
                    /\ out[x] = "wasted" => path[x.try] # "v1"
  /\ \A t \in Try, w \in Wallets :
       Exists(t) /\ at[Buy(t, w)] > at[Launch(t)] => out[Buy(t, w)] \in {"ok", "reverted"}

\* What the reports rest on.
Reported ==
  /\ \A t \in Try : report[t][Dev] \in {"confirmed", "reverted"} => ran(Launch(t))
  /\ \A t \in Try : report[t][Dev] = "confirmed" => Exists(t)
  /\ \A t \in Try, w \in Wallets : report[t][w] = "confirmed" => out[Buy(t, w)] \notin {"none", "reverted"}
  /\ \A t \in Try, w \in Wallets :
       pc[t] = "done" /\ path[t] # "v1" /\ w \notin flagged[t] /\ report[t][w] \in {"confirmed", "pending"} =>
         /\ report[t][Dev] = "confirmed"
         /\ report[t][w] = "confirmed" => at[Buy(t, w)] >= at[Launch(t)]

\* No buy has a status before its handler asks for its receipt.
Unasked == \A t \in Try, w \in Wallets : pc[t] \notin Ended \cup {"results"} => report[t][w] = "none"

\* The order of the queue: a launch whose answer came is before what later launches
\* sent, and a native launch before its buys.
InOrder ==
  /\ \A j, k \in DOMAIN queue : \A t \in Try :
       queue[j] = Launch(t) /\ req[Launch(t)] = "sent" /\ queue[k].try > t => j < k
  /\ \A i, j \in DOMAIN queue : \A t \in Try, w \in Wallets :
       path[t] = "native" /\ queue[i] = Buy(t, w) /\ queue[j] = Launch(t) => j < i

\* A native buy that has run is behind its launch: that is not in the queue any more, and
\* if it ran then before the buy.
Behind ==
  \A t \in Try, w \in Wallets :
    path[t] = "native" /\ ran(Buy(t, w)) =>
      /\ \A k \in DOMAIN queue : queue[k] # Launch(t)
      /\ ran(Launch(t)) => at[Launch(t)] < at[Buy(t, w)]

\* What a launch reads is past every launch that is known to have run; a native launch
\* that loses its nonce loses it to one in doubt.
Begun(t) == pc[t] \in Steps \ {"prepare"} \/ req[Launch(t)] # "unsent"
Doubts ==
  /\ \A t, u \in Try :
       u < t /\ Begun(t) /\ report[u][Dev] \in {"confirmed", "reverted"} =>
         Nonce(Launch(u)) < base[t][Dev]
  /\ \A t \in Try :
       path[t] = "native" /\ req[Launch(t)] = "sent" /\ ~ran(Launch(t))
         /\ Nonce(Launch(t)) < count[Dev] => \E u \in Try : u < t /\ InDoubt(u)

IInv == Lock /\ Posted /\ NoGap /\ Executed /\ Unasked /\ Reported /\ InOrder /\ Doubts /\ Behind
-----------------------------------------------------------------------------
(* The initial state                                                       *)

LEMMA InitTypes == Init => TypeOK
<1>. SUFFICES ASSUME Init PROVE TypeOK
  OBVIOUS
<1>1. /\ count \in [Who -> Nat] /\ queue \in Seq(Txs) /\ done \in Nat /\ at \in [Txs -> Nat]
      /\ out \in [Txs -> {"none", "ok", "reverted", "stranded", "wasted"}]
      /\ tick \in 1..MaxTicks /\ open \in BOOLEAN /\ faults \in 0..MaxFaults
  BY BundleAssumption DEF Init
<1>2. born \in [Try -> 0..MaxTicks] /\ seen \in [Try -> 0..MaxTicks]
  BY BundleAssumption DEF Init, Unread
<1>3. /\ req \in [Txs -> {"unsent", "out", "sent", "failed"}] /\ onway \subseteq Txs
      /\ launching \in BOOLEAN /\ pc \in [Try -> Steps \cup Ended \cup {"none"}]
      /\ path \in [Try -> Kinds \cup {"none"}]
  BY DEF Init
<1>4. base \in [Try -> [Who -> Nat]]
  BY DEF Init
<1>5. report \in [Try -> [Who -> Reports]]
  BY DEF Init, Reports
<1>6. flagged \in [Try -> SUBSET Wallets]
  BY DEF Init
<1>. QED BY <1>1, <1>2, <1>3, <1>4, <1>5, <1>6 DEF TypeOK

LEMMA InitIInv == Init => IInv
<1>. SUFFICES ASSUME Init PROVE IInv
  OBVIOUS
<1>1. Lock /\ Posted
  BY DEF Init, Lock, Posted, Paired, Steps, Ended, Before, Launch, Txs, Try, Who
<1>2. NoGap /\ InOrder
  BY DEF Init, NoGap, InOrder, Held, Txs, Try, Who
<1>3. Executed /\ Unasked /\ Reported /\ Doubts
  BY DEF Init, Executed, Unasked, Reported, Doubts, ran, Txs, Try, Who, Launch, Buy, Exists, Begun, Steps
<1>4. Behind
  BY DEF Init, Behind, ran, Buy, Txs, Try, Who
<1>. QED BY <1>1, <1>2, <1>3, <1>4 DEF IInv

-----------------------------------------------------------------------------
(* The shape of a step                                                     *)

\* What a handler may do once its plan is made: it moves on to l or ends, and sends S.
Moves(t, l, S) ==
  /\ pc[t] \in Steps \ {"prepare", "sign"} /\ l \in Steps \cup Ended
  /\ pc' = [pc EXCEPT ![t] = l]
  /\ launching' = IF l \in Ended THEN FALSE ELSE launching
  /\ S \subseteq {x \in Txs : x.try = t}
  /\ req' = [x \in Txs |-> IF x \in S THEN "out" ELSE req[x]] /\ onway' = onway \cup S
  /\ UNCHANGED <<chain, path, base>>

\* What it may send then: nothing twice, nothing before its answer where that is awaited.
Sends(t, l, S) ==
  /\ \A x \in S : /\ req[x] = "unsent"
                  /\ x.kind = "approve" => x.who \in Approvers(t)
                  /\ x.kind = "act" /\ x.who # Dev /\ path[t] = "native" => req[Launch(t)] = "sent"
                  /\ x.kind = "act" /\ x.who # Dev => Launch(t) \notin S
                  /\ x.kind = "act" /\ x.who \in Approvers(t) => req[Approve(t, x.who)] = "sent"
  /\ l \in Before => S = {} /\ pc[t] \in Before /\ l = "hold"
  /\ l = "approving" => pc[t] \in Before /\ S = Approves(t) /\ \A x \in S : x.kind = "approve"
  /\ l \in {"launching", "wait", "lead"} =>
       /\ pc[t] \in Before \cup {"approving", "launching"}
       /\ \A x \in S : x.kind # "act" \/ x.who = Dev
  /\ \A x \in Txs : x.try = t /\ (req[x] = "out" \/ x \in S) => l \in OutAt(x)
  /\ l = "wait" => req[Launch(t)] = "sent"
  /\ l = "lead" => Paired(t)
  /\ l \in {"launching", "lead"} => Launch(t) \in S

LEMMA TxTypes ==
  /\ \A x \in Txs : x.try \in Try /\ x.who \in Who /\ x.kind \in {"approve", "act"}
  /\ \A t \in Try, a \in Who : Approve(t, a) \in Txs /\ Buy(t, a) \in Txs /\ Launch(t) \in Txs
  /\ \A t \in Try, w \in Wallets : Buy(t, w) # Launch(t)
  /\ \A x \in Txs : /\ x.kind = "approve" => x = Approve(x.try, x.who)
                    /\ x.kind = "act" /\ x.who = Dev => x = Launch(x.try)
                    /\ x.kind = "act" /\ x.who # Dev => x.who \in Wallets /\ x = Buy(x.try, x.who)
  /\ Wallets \subseteq Who /\ Dev \in Who /\ Dev \notin Wallets
BY BundleAssumption DEF Txs, Who, Approve, Buy, Launch

LEMMA SendNothing ==
  ASSUME TypeOK
  PROVE  req = [x \in Txs |-> IF x \in {} THEN "out" ELSE req[x]] /\ onway = onway \cup {}
BY DEF TypeOK

\* The launch goes out.
LEMMA LaunchMoves ==
  ASSUME TypeOK, Posted, NEW t \in Try, pc[t] \in {"hold", "block", "approving"},
         SendLaunch(t), UNCHANGED <<chain, path, base>>
  PROVE  \E l \in {"lead", "launching"} :
           Moves(t, l, {Launch(t)}) /\ (l = "lead" => Paired(t))
<1>1. PICK l \in {"lead", "launching"} : Goto(t, l) /\ (l = "lead" => Paired(t))
  BY DEF SendLaunch, asyncLaunch
<1>2. {Launch(t)} \subseteq {x \in Txs : x.try = t}
  BY TxTypes DEF Launch
<1>3. Send({Launch(t)})
  BY DEF SendLaunch
<1>4. Moves(t, l, {Launch(t)})
  BY <1>1, <1>2, <1>3 DEF Send, Goto, Moves, Steps, Ended
<1>. QED BY <1>1, <1>4

\* The buys go out.
LEMMA BuysMove ==
  ASSUME TypeOK, Posted, NEW t \in Try, pc[t] \in {"launching", "wait", "lead"},
         SendBuys(t), UNCHANGED <<chain, path, base>>
  PROVE  Moves(t, "burst", Buys(t))
<1>1. Buys(t) \subseteq {x \in Txs : x.try = t}
  BY TxTypes DEF Buys, Buy
<1>. QED BY <1>1 DEF TypeOK, SendBuys, Send, Goto, Moves, Steps, Ended

\* A step that sends nothing.
LEMMA QuietMoves ==
  ASSUME TypeOK, Posted, NEW t \in Try, NEW l \in Steps \cup Ended,
         pc[t] \in Steps \ {"prepare", "sign"},
         IF l \in Ended THEN Over(t, l) ELSE Goto(t, l), UNCHANGED <<wire, chain, path, base>>
  PROVE  Moves(t, l, {})
<1>1. req' = [x \in Txs |-> IF x \in {} THEN "out" ELSE req[x]] /\ onway' = onway \cup {}
  BY SendNothing DEF wire
<1>. QED BY <1>1 DEF Moves, Over, Goto

\* No request of a handler is out where it waits for none.
LEMMA NoneOut ==
  ASSUME TypeOK, Posted, NEW t \in Try, pc[t] \notin {"approving", "launching", "lead", "burst"}
  PROVE  \A x \in Txs : x.try = t => req[x] # "out"
BY DEF Posted, OutAt

LEMMA RecheckMoves ==
  ASSUME TypeOK, Posted, NEW t \in Try, Recheck(t)
  PROVE  \E l \in {"threw", "hold"} : Moves(t, l, {}) /\ Sends(t, l, {})
<1>1. pc[t] = "recheck" /\ UNCHANGED <<chain, plans, told, faults>> /\ UNCHANGED wire
  BY DEF Recheck, Throw
<1>2. PICK l \in {"threw", "hold"} : IF l \in Ended THEN Over(t, l) ELSE Goto(t, l)
  BY DEF Recheck, Throw, Ended
<1>3. Moves(t, l, {})
  BY <1>1, <1>2, QuietMoves DEF plans, Steps, Ended
<1>4. Sends(t, l, {})
  BY <1>1, NoneOut DEF Sends, Before
<1>. QED BY <1>3, <1>4

LEMMA LaunchSends ==
  ASSUME TypeOK, Posted, NEW t \in Try, NEW l \in {"lead", "launching"},
         pc[t] \in {"hold", "block", "approving"}, l = "lead" => Paired(t),
         \A x \in Txs : x.try = t => req[x] # "out",
         Dev \in Approvers(t) => req[Approve(t, Dev)] = "sent"
  PROVE  Sends(t, l, {Launch(t)})
<1>1. req[Launch(t)] = "unsent" /\ Launch(t).kind = "act" /\ Launch(t).who = Dev
      /\ Launch(t).try = t /\ Launch(t) \in Txs
  BY TxTypes DEF Posted, Before, Launch
<1>2. l \in OutAt(Launch(t))
  BY <1>1 DEF OutAt
<1>. QED BY <1>1, <1>2 DEF Sends, Before

LEMMA HoldMoves ==
  ASSUME TypeOK, Posted, NEW t \in Try, Hold(t)
  PROVE  \E l \in {"approving", "lead", "launching"}, S \in SUBSET Txs :
           Moves(t, l, S) /\ Sends(t, l, S)
<1>1. pc[t] = "hold" /\ UNCHANGED <<chain, path, base>>
  BY DEF Hold, plans
<1>2. CASE Approves(t) # {} /\ Send(Approves(t)) /\ Goto(t, "approving")
  <2>1. \A x \in Approves(t) : /\ x \in Txs /\ x.try = t /\ x.kind = "approve"
                               /\ x.who \in Approvers(t)
    BY TxTypes DEF Approves, Approvers, Approve
  <2>2. \A x \in Approves(t) : req[x] = "unsent"
    BY <1>1, <2>1 DEF Posted, Before
  <2>3. Moves(t, "approving", Approves(t))
    BY <1>1, <1>2, <2>1 DEF Moves, Send, Goto, Steps, Ended
  <2>4. Sends(t, "approving", Approves(t))
    <3>1. \A x \in Approves(t) : "approving" \in OutAt(x)
      BY <2>1 DEF OutAt
    <3>2. \A x \in Txs : x.try = t => req[x] # "out"
      BY <1>1, NoneOut
    <3>. QED BY <1>1, <2>1, <2>2, <3>1, <3>2 DEF Sends, Before
  <2>. QED BY <2>1, <2>3, <2>4
<1>3. CASE Approves(t) = {} /\ SendLaunch(t)
  <2>1. PICK l \in {"lead", "launching"} : Moves(t, l, {Launch(t)}) /\ (l = "lead" => Paired(t))
    BY <1>1, <1>3, LaunchMoves
  <2>2. Dev \notin Approvers(t)
    BY <1>3 DEF Approves
  <2>3. Sends(t, l, {Launch(t)})
    BY <1>1, <2>1, <2>2, LaunchSends, NoneOut
  <2>. QED BY <2>1, <2>3, TxTypes
<1>. QED BY <1>2, <1>3 DEF Hold

LEMMA ApprovedMoves ==
  ASSUME TypeOK, Posted, NEW t \in Try, Approved(t)
  PROVE  \E l \in {"threw", "lead", "launching"}, S \in SUBSET Txs :
           Moves(t, l, S) /\ Sends(t, l, S)
<1>1. pc[t] = "approving" /\ UNCHANGED <<chain, path, base>> /\ Settled(Approves(t))
  BY DEF Approved, plans
<1>0. \A x \in Txs : x.try = t => req[x] # "out"
  <2>. SUFFICES ASSUME NEW x \in Txs, x.try = t, req[x] = "out" PROVE FALSE
    OBVIOUS
  <2>1. x.kind = "approve" /\ x.who \in Approvers(t) /\ x = Approve(t, x.who)
    BY <1>1, TxTypes DEF Posted
  <2>. QED BY <1>1, <2>1 DEF Settled, Approves
<1>2. CASE Throw(t)
  <2>1. Moves(t, "threw", {})
    BY <1>1, <1>2, QuietMoves DEF Throw, Steps, Ended, wire
  <2>3. Sends(t, "threw", {})
    BY <1>0 DEF Sends, Before
  <2>. QED BY <2>1, <2>3
<1>3. CASE SendLaunch(t) /\ ~(Dev \in Approvers(t) /\ req[Approve(t, Dev)] = "failed")
  <2>1. PICK l \in {"lead", "launching"} : Moves(t, l, {Launch(t)}) /\ (l = "lead" => Paired(t))
    BY <1>1, <1>3, LaunchMoves
  <2>2. Dev \in Approvers(t) => req[Approve(t, Dev)] = "sent"
    <3>. SUFFICES ASSUME Dev \in Approvers(t) PROVE req[Approve(t, Dev)] = "sent"
      OBVIOUS
    <3>1. Approve(t, Dev) \in Approves(t) /\ Approve(t, Dev) \in Txs
      BY TxTypes DEF Approves
    <3>. QED BY <1>1, <1>3, <3>1 DEF Settled, Posted, TypeOK
  <2>3. Sends(t, l, {Launch(t)})
    BY <1>0, <1>1, <2>1, <2>2, LaunchSends
  <2>. QED BY <2>1, <2>3, TxTypes
<1>. QED BY <1>2, <1>3 DEF Approved

LEMMA ReadBlockMoves ==
  ASSUME TypeOK, Posted, NEW t \in Try, ReadBlock(t)
  PROVE  \E l \in {"lead", "launching"}, S \in SUBSET Txs : Moves(t, l, S) /\ Sends(t, l, S)
<1>1. pc[t] = "block" /\ UNCHANGED <<chain, path, base>> /\ path[t] = "v1" /\ SendLaunch(t)
  BY DEF ReadBlock, Posted
<1>2. Dev \notin Approvers(t)
  BY <1>1 DEF Approvers, Paired
<1>3. PICK l \in {"lead", "launching"} : Moves(t, l, {Launch(t)}) /\ (l = "lead" => Paired(t))
  BY <1>1, LaunchMoves
<1>4. Sends(t, l, {Launch(t)})
  BY <1>1, <1>2, <1>3, LaunchSends, NoneOut
<1>. QED BY <1>3, <1>4, TxTypes

\* The buys may go out: the launch was answered, or need not be.
LEMMA BuysSend ==
  ASSUME TypeOK, Posted, NEW t \in Try, pc[t] \in {"launching", "wait", "lead"},
         pc[t] = "launching" => req[Launch(t)] = "sent"
  PROVE  Sends(t, "burst", Buys(t))
<1>1. ASSUME NEW x \in Buys(t)
      PROVE  /\ x.kind = "act" /\ x.who \in Wallets /\ x.try = t /\ x \in Txs /\ x.who # Dev
             /\ x.who \in Approvers(t) => req[Approve(t, x.who)] = "sent"
  BY TxTypes DEF Buys, Buy
<1>2. \A x \in Buys(t) : req[x] = "unsent"
  BY <1>1 DEF Posted
<1>3. path[t] = "native" => req[Launch(t)] = "sent"
  BY DEF Posted, Paired
<1>4. Launch(t) \notin Buys(t)
  BY <1>1 DEF Launch
<1>5. \A x \in Txs : x.try = t /\ (req[x] = "out" \/ x \in Buys(t)) => "burst" \in OutAt(x)
  <2>1. \A x \in Buys(t) : "burst" \in OutAt(x)
    BY <1>1 DEF OutAt
  <2>2. \A x \in Txs : x.try = t /\ req[x] = "out" => "burst" \in OutAt(x)
    BY DEF Posted, OutAt
  <2>. QED BY <2>1, <2>2
<1>. QED BY <1>1, <1>2, <1>3, <1>4, <1>5 DEF Sends, Before

LEMMA BuyersMove ==
  ASSUME TypeOK, Posted, NEW t \in Try, Launched(t) \/ Ticked(t) \/ Lead(t) \/ Burst(t)
  PROVE  \E l \in {"threw", "wait", "burst", "receipt"}, S \in SUBSET Txs :
           Moves(t, l, S) /\ Sends(t, l, S)
<1>1. /\ pc[t] \in {"launching", "wait", "lead", "burst"} /\ UNCHANGED <<chain, path, base>>
  BY DEF Launched, Ticked, Lead, Burst, plans
<1>2. CASE SendBuys(t) /\ (pc[t] = "launching" => req[Launch(t)] = "sent")
           /\ pc[t] \in {"launching", "wait", "lead"}
  <2>1. Moves(t, "burst", Buys(t)) /\ Sends(t, "burst", Buys(t))
    BY <1>1, <1>2, BuysMove, BuysSend
  <2>. QED BY <2>1, TxTypes DEF Buys
<1>3. ASSUME NEW l \in {"threw", "wait", "receipt"}, IF l \in Ended THEN Over(t, l) ELSE Goto(t, l),
             UNCHANGED wire, l = "wait" => pc[t] = "launching" /\ req[Launch(t)] = "sent",
             \A x \in Txs : x.try = t => req[x] # "out"
      PROVE  Moves(t, l, {}) /\ Sends(t, l, {})
  <2>1. Moves(t, l, {})
    BY <1>1, <1>3, QuietMoves DEF Steps, Ended
  <2>2. Sends(t, l, {})
    BY <1>3 DEF Sends, Before
  <2>. QED BY <2>1, <2>2
<1>4. CASE Launched(t)
  <2>1. /\ pc[t] = "launching" /\ req[Launch(t)] # "out"
        /\ \A x \in Txs : x.try = t => req[x] # "out"
    BY <1>4, TxTypes DEF Launched, Posted, OutAt
  <2>2. req[Launch(t)] = "failed" \/ req[Launch(t)] = "sent" \/ req[Launch(t)] = "unsent"
    BY <2>1, TxTypes DEF TypeOK
  <2>3. req[Launch(t)] # "unsent"
    BY <2>1 DEF Posted
  <2>4. CASE Throw(t)
    BY <1>3, <2>1, <2>4 DEF Throw, Ended
  <2>5. CASE req[Launch(t)] = "sent" /\ Goto(t, "wait") /\ UNCHANGED wire
    BY <1>3, <2>1, <2>5 DEF Ended
  <2>6. CASE req[Launch(t)] = "sent" /\ SendBuys(t)
    BY <1>2, <2>1, <2>6
  <2>. QED BY <1>4, <2>2, <2>3, <2>4, <2>5, <2>6 DEF Launched
<1>5. CASE Ticked(t) \/ Lead(t)
  BY <1>2, <1>5 DEF Ticked, Lead
<1>6. CASE Burst(t)
  <2>1. \A x \in Txs : x.try = t => req[x] # "out"
    <3>. SUFFICES ASSUME NEW x \in Txs, x.try = t, req[x] = "out" PROVE FALSE
      OBVIOUS
    <3>1. pc[t] = "burst" /\ x.kind = "act"
      <4>1. pc[t] = "burst" /\ pc[t] \in OutAt(x)
        BY <1>6 DEF Burst, Posted
      <4>. QED BY <4>1, TxTypes DEF OutAt
    <3>2. x = Launch(t) \/ (x.who \in Wallets /\ x = Buy(t, x.who))
      BY <3>1, TxTypes
    <3>. QED BY <1>6, <3>2 DEF Burst, Settled
  <2>2. Throw(t) \/ (Goto(t, "receipt") /\ UNCHANGED wire)
    BY <1>6 DEF Burst
  <2>. QED BY <1>3, <2>1, <2>2 DEF Throw, Ended
<1>. QED BY <1>4, <1>5, <1>6

LEMMA ReportsMove ==
  ASSUME TypeOK, Posted, NEW t \in Try, Receipt(t) \/ \E w \in Wallets : Results(t, w)
  PROVE  \E l \in {"threw", "results", "done"} : Moves(t, l, {}) /\ Sends(t, l, {})
<1>1. pc[t] \in {"receipt", "results"} /\ UNCHANGED <<chain, path, base, wire>>
  BY DEF Receipt, Results, Throw, plans
<1>2. PICK l \in {"threw", "results", "done"} : IF l \in Ended THEN Over(t, l) ELSE Goto(t, l)
  <2>1. CASE Receipt(t)
    BY <2>1 DEF Receipt, Throw, Ended
  <2>2. CASE \E w \in Wallets : Results(t, w)
    <3>1. Over(t, "done") \/ UNCHANGED <<pc, launching>>
      BY <2>2 DEF Results
    <3>2. CASE UNCHANGED <<pc, launching>>
      <4>1. pc[t] = "results" /\ pc = [pc EXCEPT ![t] = "results"]
        BY <2>2 DEF Results, TypeOK
      <4>2. Goto(t, "results")
        BY <3>2, <4>1 DEF Goto
      <4>. QED BY <4>2 DEF Ended
    <3>. QED BY <3>1, <3>2 DEF Ended
  <2>. QED BY <2>1, <2>2
<1>3. Moves(t, l, {})
  BY <1>1, <1>2, QuietMoves DEF Steps, Ended
<1>4. Sends(t, l, {})
  BY <1>1, NoneOut DEF Sends, Before
<1>. QED BY <1>3, <1>4

\* A handler's step once its plan is made.
Working(t) ==
  \/ Recheck(t) \/ Hold(t) \/ Approved(t) \/ ReadBlock(t) \/ Launched(t)
  \/ Ticked(t) \/ Lead(t) \/ Burst(t) \/ Receipt(t) \/ \E w \in Wallets : Results(t, w)

LEMMA WorkingMoves ==
  ASSUME TypeOK, Posted, NEW t \in Try, Working(t)
  PROVE  \E l \in Steps \cup Ended, S \in SUBSET Txs : Moves(t, l, S) /\ Sends(t, l, S)
<1>1. {} \in SUBSET Txs
  OBVIOUS
<1>2. {"threw", "hold", "approving", "lead", "launching", "wait", "burst", "receipt", "results",
       "done"} \subseteq Steps \cup Ended
  BY DEF Steps, Ended
<1>. QED
  BY <1>1, <1>2, RecheckMoves, HoldMoves, ApprovedMoves, ReadBlockMoves, BuyersMove, ReportsMove
  DEF Working

\* What the result is made of changes with the receipts alone.
LEMMA WorkingReports ==
  ASSUME TypeOK, NEW t \in Try, Working(t)
  PROVE  /\ UNCHANGED told \/ Receipt(t) \/ \E w \in Wallets : Results(t, w)
         /\ \/ pc'[t] # "done"
            \/ Receipt(t)
            \/ \E w \in Wallets : Results(t, w)
         /\ faults' \in 0..MaxFaults
         /\ seen' \in [Try -> 0..MaxTicks]
<1>1. faults' \in 0..MaxFaults
  <2>1. UNCHANGED faults \/ Fault
    BY DEF Working, Recheck, Hold, Approved, ReadBlock, Launched, Ticked, Lead, Burst, Receipt, Results
  <2>2. faults \in 0..MaxFaults /\ MaxFaults \in Nat
    BY BundleAssumption DEF TypeOK
  <2>. QED BY <2>1, <2>2 DEF Fault
<1>2. seen' \in [Try -> 0..MaxTicks]
  <2>1. UNCHANGED seen \/ seen' = [seen EXCEPT ![t] = tick]
    BY DEF Working, Recheck, Hold, Approved, ReadBlock, Launched, Ticked, Lead, Burst, Receipt,
           Results, plans
  <2>2. seen \in [Try -> 0..MaxTicks] /\ tick \in 0..MaxTicks
    BY BundleAssumption DEF TypeOK
  <2>. QED BY <2>1, <2>2
<1>3. UNCHANGED told \/ Receipt(t) \/ \E w \in Wallets : Results(t, w)
  BY DEF Working, Recheck, Hold, Approved, ReadBlock, Launched, Ticked, Lead, Burst
<1>4. ASSUME ~(Receipt(t) \/ \E w \in Wallets : Results(t, w)) PROVE pc'[t] # "done"
  <2>1. pc \in [Try -> Steps \cup Ended \cup {"none"}]
    BY DEF TypeOK
  <2>2. \E l \in Steps \cup {"threw"} : pc' = [pc EXCEPT ![t] = l]
    <3>1. CASE Recheck(t) \/ Hold(t)
      BY <3>1 DEF Recheck, Hold, Throw, Over, Goto, SendLaunch, Steps, Ended
    <3>2. CASE Approved(t) \/ ReadBlock(t)
      BY <3>2 DEF Approved, ReadBlock, Throw, Over, Goto, SendLaunch, Steps, Ended
    <3>3. CASE Launched(t) \/ Ticked(t)
      BY <3>3 DEF Launched, Ticked, Throw, Over, Goto, SendBuys, Steps, Ended
    <3>4. CASE Lead(t) \/ Burst(t)
      BY <3>4 DEF Lead, Burst, Throw, Over, Goto, SendBuys, Steps, Ended
    <3>. QED BY <1>4, <3>1, <3>2, <3>3, <3>4 DEF Working
  <2>. QED BY <2>1, <2>2 DEF Steps
<1>. QED BY <1>1, <1>2, <1>3, <1>4

-----------------------------------------------------------------------------
(* The types                                                               *)

LEMMA NonceType ==
  ASSUME TypeOK
  PROVE  \A x \in Txs : Nonce(x) \in Nat
<1>. SUFFICES ASSUME NEW x \in Txs PROVE Nonce(x) \in Nat
  OBVIOUS
<1>1. base[x.try][x.who] \in Nat
  <2>1. base \in [Try -> [Who -> Nat]] /\ x.try \in Try /\ x.who \in Who
    BY TxTypes DEF TypeOK
  <2>. QED BY <2>1
<1>2. \A n \in Nat : n + 1 \in Nat /\ n + 0 \in Nat
  OBVIOUS
<1>. QED BY <1>1, <1>2 DEF Nonce

\* What is left of the queue when one transaction is taken out of it.
LEMMA WithoutIs ==
  ASSUME TypeOK, NEW i \in DOMAIN queue
  PROVE  /\ Len(queue) \in Nat \ {0} /\ i \in 1..Len(queue)
         /\ Without(i) \in Seq(Txs) /\ Len(Without(i)) = Len(queue) - 1
         /\ \A j \in 1..(Len(queue) - 1) : Without(i)[j] = queue[IF j < i THEN j ELSE j + 1]
<1>1. queue \in Seq(Txs) /\ i \in 1..Len(queue) /\ Len(queue) \in Nat
  BY DEF TypeOK
<1>2. \A j \in 1..(Len(queue) - 1) : queue[IF j < i THEN j ELSE j + 1] \in Txs
  BY <1>1
<1>. QED BY <1>1, <1>2 DEF Without

LEMMA MovesTypes ==
  ASSUME TypeOK, NEW t \in Try, NEW l \in Steps \cup Ended, NEW S \in SUBSET Txs, Moves(t, l, S)
  PROVE  /\ pc' \in [Try -> Steps \cup Ended \cup {"none"}] /\ launching' \in BOOLEAN
         /\ req' \in [Txs -> {"unsent", "out", "sent", "failed"}] /\ onway' \subseteq Txs
         /\ path' \in [Try -> Kinds \cup {"none"}] /\ base' \in [Try -> [Who -> Nat]]
         /\ UNCHANGED chain
<1>1. pc' \in [Try -> Steps \cup Ended \cup {"none"}]
  BY DEF TypeOK, Moves
<1>2. launching' \in BOOLEAN
  BY DEF TypeOK, Moves
<1>3. req' \in [Txs -> {"unsent", "out", "sent", "failed"}]
  BY DEF TypeOK, Moves
<1>. QED BY <1>1, <1>2, <1>3 DEF TypeOK, Moves

LEMMA ReportTypes ==
  ASSUME TypeOK, NEW t \in Try, Receipt(t) \/ \E w \in Wallets : Results(t, w)
  PROVE  /\ report' \in [Try -> [Who -> Reports]]
         /\ flagged' \in [Try -> SUBSET Wallets]
<1>1. \A x : Statuses(x) \subseteq Reports
  BY DEF Statuses, Reports
<1>2. \A r : Flags(t, r) \in SUBSET Wallets
  BY DEF Flags, Ahead, Exposed
<1>3. CASE Receipt(t)
  <2>1. UNCHANGED <<report, flagged>> \/ \E s \in Reports :
          report' = [report EXCEPT ![t][Dev] = s] /\ UNCHANGED flagged
    BY <1>1, <1>3 DEF Receipt
  <2>2. /\ report \in [Try -> [Who -> Reports]]
        /\ flagged \in [Try -> SUBSET Wallets]
    BY DEF TypeOK
  <2>3. ASSUME NEW s \in Reports
        PROVE  [report EXCEPT ![t][Dev] = s]
                 \in [Try -> [Who -> Reports]]
    <3>1. [report[t] EXCEPT ![Dev] = s] \in [Who -> Reports]
      BY <2>2, TxTypes
    <3>. QED BY <2>2, <3>1
  <2>. QED BY <2>1, <2>2, <2>3
<1>4. ASSUME NEW w \in Wallets, Results(t, w)
      PROVE  /\ report' \in [Try -> [Who -> Reports]]
             /\ flagged' \in [Try -> SUBSET Wallets]
  <2>0. \E s \in Statuses(Buy(t, w)) \cup {"failed"} :
          report' = [report EXCEPT ![t] = [report[t] EXCEPT ![w] = s]]
    BY <1>4 DEF Results
  <2>1. PICK s \in Reports : report' = [report EXCEPT ![t] = [report[t] EXCEPT ![w] = s]]
    BY <1>1, <2>0 DEF Reports
  <2>2. [report[t] EXCEPT ![w] = s] \in [Who -> Reports]
    BY TxTypes DEF TypeOK
  <2>3. UNCHANGED flagged \/ \E r : flagged' = [flagged EXCEPT ![t] = Flags(t, r)]
    BY <1>4, Zenon DEF Results
  <2>4. /\ report \in [Try -> [Who -> Reports]]
        /\ flagged \in [Try -> SUBSET Wallets]
    BY DEF TypeOK
  <2>5. flagged' \in [Try -> SUBSET Wallets]
    BY <1>2, <2>3, <2>4
  <2>. QED BY <2>1, <2>2, <2>4, <2>5
<1>. QED BY <1>3, <1>4

LEMMA StepTypes ==
  ASSUME TypeOK, Posted, [Next]_vars
  PROVE  TypeOK'
<1>1. ASSUME NEW t \in Try, Working(t) PROVE TypeOK'
  <2>1. PICK l \in Steps \cup Ended, S \in SUBSET Txs : Moves(t, l, S)
    BY <1>1, WorkingMoves
  <2>2. /\ report' \in [Try -> [Who -> Reports]]
        /\ flagged' \in [Try -> SUBSET Wallets]
    <3>1. CASE UNCHANGED told
      BY <3>1 DEF TypeOK, told
    <3>. QED BY <1>1, <3>1, WorkingReports, ReportTypes
  <2>3. faults' \in 0..MaxFaults /\ seen' \in [Try -> 0..MaxTicks]
    BY <1>1, WorkingReports
  <2>4. /\ pc' \in [Try -> Steps \cup Ended \cup {"none"}] /\ launching' \in BOOLEAN
        /\ req' \in [Txs -> {"unsent", "out", "sent", "failed"}] /\ onway' \subseteq Txs
        /\ path' \in [Try -> Kinds \cup {"none"}] /\ base' \in [Try -> [Who -> Nat]]
        /\ UNCHANGED chain
    BY <2>1, MovesTypes
  <2>. QED BY <2>2, <2>3, <2>4 DEF TypeOK, chain
<1>2. ASSUME NEW t \in Try, NEW p \in Paths, Request(t, p) PROVE TypeOK'
  <2>1. p \in Kinds
    BY <1>2, BundleAssumption
  <2>2. pc' \in [Try -> Steps \cup Ended \cup {"none"}] /\ path' \in [Try -> Kinds \cup {"none"}]
        /\ launching' \in BOOLEAN
    BY <1>2, <2>1 DEF Request, TypeOK, Steps
  <2>. QED BY <1>2, <2>2 DEF Request, TypeOK, chain, wire, told
<1>3. ASSUME NEW t \in Try, Prepare(t) \/ Sign(t) PROVE TypeOK'
  <2>1. base' \in [Try -> [Who -> Nat]]
    <3>1. CASE UNCHANGED base
      BY <3>1 DEF TypeOK
    <3>2. CASE \E n \in Counts : base' = [base EXCEPT ![t][Dev] = n]
      BY <3>2, TxTypes DEF TypeOK, Counts
    <3>3. CASE \E b \in [Wallets -> Counts] :
                 base' = [base EXCEPT ![t] = [a \in Who |-> IF a = Dev THEN @[Dev] ELSE b[a]]]
      <4>1. PICK b \in [Wallets -> Counts] :
                 base' = [base EXCEPT ![t] = [a \in Who |-> IF a = Dev THEN base[t][Dev] ELSE b[a]]]
        BY <3>3
      <4>2. [a \in Who |-> IF a = Dev THEN base[t][Dev] ELSE b[a]] \in [Who -> Nat]
        BY TxTypes DEF TypeOK, Who, Counts
      <4>. QED BY <4>1, <4>2 DEF TypeOK
    <3>. QED BY <1>3, <3>1, <3>2, <3>3 DEF Prepare, Sign
  <2>2. pc' \in [Try -> Steps \cup Ended \cup {"none"}] /\ launching' \in BOOLEAN
    BY <1>3 DEF Prepare, Sign, Throw, Over, Goto, TypeOK, Steps, Ended
  <2>3. UNCHANGED <<chain, wire, path, seen, told, faults>>
    BY <1>3 DEF Prepare, Sign, Throw
  <2>. QED BY <2>1, <2>2, <2>3 DEF TypeOK, chain, wire, told
<1>4. ASSUME NEW x \in Txs, Arrive(x) PROVE TypeOK'
  <2>1. req' \in [Txs -> {"unsent", "out", "sent", "failed"}] /\ queue' \in Seq(Txs)
        /\ onway' \subseteq Txs
    <3>1. /\ req' = req \/ \E s \in {"sent", "failed"} : req' = [req EXCEPT ![x] = s]
          /\ queue' = queue \/ queue' = Append(queue, x)
          /\ onway' \subseteq onway
      BY <1>4 DEF Arrive, Answer
    <3>2. /\ req \in [Txs -> {"unsent", "out", "sent", "failed"}] /\ queue \in Seq(Txs)
          /\ onway \subseteq Txs
      BY DEF TypeOK
    <3>3. queue' \in Seq(Txs)
      BY <1>4, <3>1, <3>2
    <3>. QED BY <3>1, <3>2, <3>3
  <2>. QED BY <1>4, <2>1 DEF Arrive, TypeOK, plans, told
<1>5. ASSUME NEW x \in Txs, GivesUp(x) PROVE TypeOK'
  <2>1. /\ req' = req \/ req' = [req EXCEPT ![x] = "failed"]
        /\ faults' = faults + 1 /\ faults < MaxFaults
    BY <1>5 DEF GivesUp, Answer, Fault
  <2>2. /\ req' \in [Txs -> {"unsent", "out", "sent", "failed"}]
        /\ faults' \in 0..MaxFaults
    <3>1. req \in [Txs -> {"unsent", "out", "sent", "failed"}] /\ faults \in 0..MaxFaults
      BY DEF TypeOK
    <3>2. req' \in [Txs -> {"unsent", "out", "sent", "failed"}]
      BY <2>1, <3>1
    <3>. QED BY <2>1, <3>1, <3>2, BundleAssumption
  <2>. QED BY <1>5, <2>2 DEF GivesUp, TypeOK, chain, plans, told
<1>6. ASSUME NEW i \in DOMAIN queue, Execute(i) PROVE TypeOK'
  <2>. DEFINE x == queue[i]
  <2>1. x \in Txs /\ x.who \in Who /\ x.try \in Try
    BY TxTypes DEF TypeOK
  <2>2. Outcome(x) \in {"ok", "reverted", "stranded", "wasted"}
    BY DEF Outcome
  <2>3. queue' \in Seq(Txs)
    BY <1>6, WithoutIs DEF Execute
  <2>. HIDE DEF x
  <2>4. /\ count' = count \/ count' = [count EXCEPT ![x.who] = @ + 1]
        /\ done' = done \/ done' = done + 1
        /\ at' = at \/ at' = [at EXCEPT ![x] = done + 1]
        /\ out' = out \/ out' = [out EXCEPT ![x] = Outcome(x)]
        /\ born' = born \/ born' = [born EXCEPT ![x.try] = tick]
    BY <1>6 DEF Execute, x
  <2>5. /\ count \in [Who -> Nat] /\ done \in Nat /\ at \in [Txs -> Nat]
        /\ out \in [Txs -> {"none", "ok", "reverted", "stranded", "wasted"}]
        /\ born \in [Try -> 0..MaxTicks] /\ tick \in 0..MaxTicks
    BY BundleAssumption DEF TypeOK
  <2>6. count' \in [Who -> Nat] /\ done' \in Nat
    BY <2>1, <2>4, <2>5
  <2>7. at' \in [Txs -> Nat]
    BY <2>1, <2>4, <2>5
  <2>8. out' \in [Txs -> {"none", "ok", "reverted", "stranded", "wasted"}]
    BY <2>1, <2>2, <2>4, <2>5 DEF x
  <2>9. born' \in [Try -> 0..MaxTicks]
    BY <2>1, <2>4, <2>5
  <2>. QED BY <1>6, <2>3, <2>6, <2>7, <2>8, <2>9 DEF Execute, TypeOK, wire, plans, told
<1>7. CASE Tick
  <2>1. tick' \in 1..MaxTicks
    BY <1>7, BundleAssumption DEF Tick, TypeOK
  <2>. QED BY <1>7, <2>1 DEF Tick, TypeOK, wire, plans, told
<1>8. CASE Drift
  <2>1. faults' \in 0..MaxFaults /\ open' \in BOOLEAN
    BY <1>8, BundleAssumption DEF Drift, Fault, TypeOK
  <2>. QED BY <1>8, <2>1 DEF Drift, TypeOK, wire, plans, told
<1>9. CASE Crash
  <2>1. /\ pc' \in [Try -> Steps \cup Ended \cup {"none"}]
        /\ req' \in [Txs -> {"unsent", "out", "sent", "failed"}] /\ launching' \in BOOLEAN
    BY <1>9 DEF Crash, TypeOK, Ended
  <2>2. faults' \in 0..MaxFaults
    BY <1>9, BundleAssumption DEF Crash, Fault, TypeOK
  <2>. QED BY <1>9, <2>1, <2>2 DEF Crash, TypeOK, chain, plans, told
<1>10. CASE UNCHANGED vars
  BY <1>10 DEF TypeOK, vars, chain, wire, plans, told
<1>. QED
  BY <1>1, <1>2, <1>3, <1>4, <1>5, <1>6, <1>7, <1>8, <1>9, <1>10 DEF Next, Handler, Working

-----------------------------------------------------------------------------
(* The lock                                                                *)

LEMMA Locations ==
  ASSUME TypeOK, Lock, NEW t \in Try, pc[t] \in Steps
  PROVE  /\ launching
         /\ \A u \in Try : u < t => pc[u] \in Ended
         /\ \A u \in Try : u > t => pc[u] = "none"
         /\ \A u \in Try : pc[u] \in Steps => u = t
<1>1. \A u \in Try : u < t => pc[u] \in Ended
  BY DEF Lock, Steps
<1>2. \A u \in Try : u > t => pc[u] = "none"
  BY DEF Lock, Steps, Ended
<1>. QED BY <1>1, <1>2, BundleAssumption DEF Lock, Steps, Ended, Try

\* A handler moves on, or leaves the lock.
LEMMA OneMoves ==
  ASSUME TypeOK, Lock, NEW t \in Try, pc[t] \in Steps, NEW l \in Steps \cup Ended,
         pc' = [pc EXCEPT ![t] = l], launching' = IF l \in Ended THEN FALSE ELSE launching
  PROVE  Lock'
<1>1. \A u \in Try : pc'[u] = IF u = t THEN l ELSE pc[u]
  BY DEF TypeOK
<1>2. \A u \in Try : pc'[u] \in Steps => launching'
  BY <1>1, Locations DEF Steps, Ended
<1>3. ASSUME NEW v \in Try, NEW u \in Try, u < v, pc'[v] # "none" PROVE pc'[u] \in Ended
  <2>1. pc[v] # "none"
    BY <1>1, <1>3 DEF Steps
  <2>2. u # t
    BY <1>3, <2>1, Locations
  <2>. QED BY <1>1, <1>3, <2>1, <2>2 DEF Lock
<1>. QED BY <1>2, <1>3 DEF Lock

LEMMA StepLock ==
  ASSUME TypeOK, Posted, Lock, [Next]_vars
  PROVE  Lock'
<1>1. ASSUME NEW t \in Try, Working(t) PROVE Lock'
  <2>1. PICK l \in Steps \cup Ended, S \in SUBSET Txs : Moves(t, l, S)
    BY <1>1, WorkingMoves
  <2>. QED BY <2>1, OneMoves DEF Moves
<1>2. ASSUME NEW t \in Try, NEW p \in Paths, Request(t, p) PROVE Lock'
  <2>1. /\ pc[t] = "none" /\ ~launching /\ launching' = TRUE
        /\ \A u \in Try : u < t => pc[u] # "none"
        /\ \A u \in Try : pc'[u] = IF u = t THEN "prepare" ELSE pc[u]
    BY <1>2 DEF Request, TypeOK
  <2>2. \A u \in Try : pc[u] \in Ended \cup {"none"}
    BY <2>1 DEF Lock, TypeOK
  <2>. QED BY <2>1, <2>2, BundleAssumption DEF Lock, Ended, Try
<1>3. ASSUME NEW t \in Try, Prepare(t) \/ Sign(t) PROVE Lock'
  <2>1. PICK l \in Steps \cup Ended :
          /\ pc' = [pc EXCEPT ![t] = l] /\ launching' = IF l \in Ended THEN FALSE ELSE launching
    BY <1>3 DEF Prepare, Sign, Throw, Over, Goto, Steps, Ended
  <2>2. pc[t] \in Steps
    BY <1>3 DEF Prepare, Sign, Steps
  <2>. QED BY <2>1, <2>2, OneMoves
<1>4. CASE UNCHANGED <<pc, launching>>
  BY <1>4 DEF Lock
<1>5. ASSUME NEW x \in Txs, Arrive(x) \/ GivesUp(x) PROVE Lock'
  BY <1>4, <1>5 DEF Arrive, GivesUp
<1>6. ASSUME NEW i \in DOMAIN queue, Execute(i) PROVE Lock'
  BY <1>4, <1>6 DEF Execute
<1>7. CASE Tick \/ Drift \/ UNCHANGED vars
  BY <1>4, <1>7 DEF Tick, Drift, vars
<1>8. CASE Crash
  BY <1>8 DEF Crash, Lock, Ended, Steps, TypeOK
<1>. QED
  BY <1>1, <1>2, <1>3, <1>5, <1>6, <1>7, <1>8 DEF Next, Handler, Working
-----------------------------------------------------------------------------
(* What is sent when                                                       *)

\* The nonce of what has been sent does not change any more.
PlanKept == \A x \in Txs : req[x] # "unsent" => /\ path'[x.try] = path[x.try]
                                                /\ base'[x.try] = base[x.try]

LEMMA NonceKept ==
  ASSUME PlanKept, NEW x \in Txs, req[x] # "unsent"
  PROVE  /\ \A a \in Who : a \in Approvers(x.try)' <=> a \in Approvers(x.try)
         /\ Nonce(x)' = Nonce(x)
BY TxTypes DEF PlanKept, Nonce, Approvers, Paired

LEMMA MovesPosted ==
  ASSUME TypeOK, Lock, Posted, NEW t \in Try, NEW l \in Steps \cup Ended, NEW S \in SUBSET Txs,
         Moves(t, l, S), Sends(t, l, S)
  PROVE  Posted'
<1>1. /\ \A u \in Try : pc'[u] = IF u = t THEN l ELSE pc[u]
      /\ \A x \in Txs : req'[x] = IF x \in S THEN "out" ELSE req[x]
      /\ onway' = onway \cup S /\ \A x \in S : x.try = t /\ req[x] = "unsent"
      /\ UNCHANGED <<chain, path, base>>
  BY DEF Moves, Sends, TypeOK
<1>2. \A x \in Txs : Approvers(x.try)' = Approvers(x.try) /\ Paired(x.try)' = Paired(x.try)
  BY <1>1 DEF Approvers, Paired
<1>3. \A x \in Txs : req'[x] = "unsent" => x \notin onway' /\ at'[x] = 0
  BY <1>1 DEF Posted, chain
<1>4. \A i \in DOMAIN queue' : req'[queue'[i]] # "unsent"
  <2>1. \A i \in DOMAIN queue : queue[i] \in Txs
    BY DEF TypeOK
  <2>. QED BY <1>1, <2>1 DEF Posted, chain
<1>5. \A x \in onway' : req'[x] # "sent"
  BY <1>1 DEF Posted, TypeOK
<1>6. \A x \in Txs : x.kind = "approve" /\ req'[x] # "unsent" => x.who \in Approvers(x.try)'
  BY <1>1, <1>2 DEF Posted, Sends
<1>7. \A x \in Txs : pc'[x.try] \in Before => req'[x] = "unsent"
  BY <1>1, TxTypes DEF Posted, Sends
<1>8. \A x \in Txs : pc'[x.try] = "approving" /\ x.kind = "act" => req'[x] = "unsent"
  BY <1>1, TxTypes DEF Posted, Sends
<1>9. \A x \in Txs : pc'[x.try] \in {"launching", "wait", "lead"} /\ x.kind = "act" /\ x.who # Dev =>
        req'[x] = "unsent"
  BY <1>1, TxTypes DEF Posted, Sends
<1>10. \A x \in Txs : req'[x] = "out" => pc'[x.try] \in OutAt(x)
  BY <1>1, TxTypes DEF Posted, Sends
<1>11. \A x \in Txs : path'[x.try] = "native" /\ x.kind = "act" /\ x.who # Dev /\ req'[x] # "unsent" =>
         req'[Launch(x.try)] = "sent"
  BY <1>1, TxTypes DEF Posted, Sends
<1>12. \A u \in Try : /\ pc'[u] = "wait" => req'[Launch(u)] = "sent"
                      /\ pc'[u] = "block" => path'[u] = "v1"
                      /\ pc'[u] = "lead" => Paired(u)'
                      /\ pc'[u] \in {"launching", "lead"} => req'[Launch(u)] # "unsent"
                      /\ pc'[u] = "approving" => \A x \in Approves(u)' : req'[x] # "unsent"
  <2>. SUFFICES ASSUME NEW u \in Try
                PROVE  /\ pc'[u] = "wait" => req'[Launch(u)] = "sent"
                       /\ pc'[u] = "block" => path'[u] = "v1"
                       /\ pc'[u] = "lead" => Paired(u)'
                       /\ pc'[u] \in {"launching", "lead"} => req'[Launch(u)] # "unsent"
                       /\ pc'[u] = "approving" => \A x \in Approves(u)' : req'[x] # "unsent"
    OBVIOUS
  <2>1. Paired(u)' = Paired(u) /\ Approves(u)' = Approves(u) /\ Launch(u) \in Txs
        /\ Approves(u) \subseteq Txs
    BY <1>1, TxTypes DEF Paired, Approves, Approvers
  <2>2. CASE u = t
    BY <1>1, <2>1, <2>2 DEF Sends, Before, Posted
  <2>3. CASE u # t
    BY <1>1, <2>1, <2>3 DEF Posted
  <2>. QED BY <2>2, <2>3
<1>. QED
  BY <1>3, <1>4, <1>5, <1>6, <1>7, <1>8, <1>9, <1>10, <1>11, <1>12 DEF Posted

\* A request is answered, and what arrived is in the queue.
LEMMA AnswerPosted ==
  ASSUME TypeOK, Posted, NEW x \in Txs, req[x] # "unsent",
         \E as \in {"sent", "failed"} : Answer(x, as),
         onway' = onway \/ onway' = onway \ {x}, req[x] = "out" /\ req'[x] = "sent" => x \notin onway',
         queue' = queue \/ queue' = Append(queue, x),
         UNCHANGED <<at, pc, path, base>>
  PROVE  Posted'
<1>1. /\ \A y \in Txs : req'[y] = req[y] \/ (y = x /\ req[x] = "out" /\ req'[y] \in {"sent", "failed"})
      /\ onway' \subseteq onway
  BY DEF Answer, TypeOK
<1>2. \A u \in Try : Approvers(u)' = Approvers(u) /\ Paired(u)' = Paired(u) /\ Approves(u)' = Approves(u)
  BY DEF Approvers, Paired, Approves
<1>3. \A y \in Txs : (req'[y] = "unsent" <=> req[y] = "unsent") /\ (req[y] = "sent" => req'[y] = "sent")
                     /\ (req'[y] = "out" => req[y] = "out")
  BY <1>1
<1>4. \A y \in Txs : req'[y] = "unsent" => y \notin onway' /\ at'[y] = 0
  BY <1>1, <1>3 DEF Posted
<1>5. \A i \in DOMAIN queue' : req'[queue'[i]] # "unsent"
  <2>1. queue \in Seq(Txs)
    BY DEF TypeOK
  <2>2. \A i \in DOMAIN queue' : queue'[i] \in Txs /\ req[queue'[i]] # "unsent"
    BY <2>1 DEF Posted
  <2>. QED BY <1>3, <2>2
<1>6. \A y \in onway' : req'[y] # "sent"
  <2>1. \A y \in onway' : y \in onway /\ y \in Txs
    BY <1>1 DEF TypeOK
  <2>. QED BY <1>1, <2>1 DEF Posted
<1>7. \A y \in Txs : y.kind = "approve" /\ req'[y] # "unsent" => y.who \in Approvers(y.try)'
  BY <1>2, <1>3, TxTypes DEF Posted
<1>8. /\ \A y \in Txs : pc'[y.try] \in Before => req'[y] = "unsent"
      /\ \A y \in Txs : pc'[y.try] = "approving" /\ y.kind = "act" => req'[y] = "unsent"
      /\ \A y \in Txs : pc'[y.try] \in {"launching", "wait", "lead"} /\ y.kind = "act" /\ y.who # Dev =>
           req'[y] = "unsent"
      /\ \A y \in Txs : req'[y] = "out" => pc'[y.try] \in OutAt(y)
  BY <1>3 DEF Posted
<1>9. \A y \in Txs : path'[y.try] = "native" /\ y.kind = "act" /\ y.who # Dev /\ req'[y] # "unsent" =>
        req'[Launch(y.try)] = "sent"
  BY <1>3, TxTypes DEF Posted
<1>10. \A u \in Try : /\ pc'[u] = "wait" => req'[Launch(u)] = "sent"
                      /\ pc'[u] = "block" => path'[u] = "v1"
                      /\ pc'[u] = "lead" => Paired(u)'
                      /\ pc'[u] \in {"launching", "lead"} => req'[Launch(u)] # "unsent"
                      /\ pc'[u] = "approving" => \A y \in Approves(u)' : req'[y] # "unsent"
  <2>. SUFFICES ASSUME NEW u \in Try
                PROVE  /\ pc'[u] = "wait" => req'[Launch(u)] = "sent"
                       /\ pc'[u] = "block" => path'[u] = "v1"
                       /\ pc'[u] = "lead" => Paired(u)'
                       /\ pc'[u] \in {"launching", "lead"} => req'[Launch(u)] # "unsent"
                       /\ pc'[u] = "approving" => \A y \in Approves(u)' : req'[y] # "unsent"
    OBVIOUS
  <2>1. Approves(u) \subseteq Txs /\ Launch(u) \in Txs
    BY TxTypes DEF Approves, Approvers
  <2>. QED BY <1>2, <1>3, <2>1 DEF Posted
<1>. QED BY <1>4, <1>5, <1>6, <1>7, <1>8, <1>9, <1>10 DEF Posted

\* The plan of a launch that has sent nothing changes.
LEMMA PlanPosted ==
  ASSUME TypeOK, Posted, NEW t \in Try, pc[t] \in {"none", "prepare", "sign"},
         NEW l \in Steps \cup Ended, l \notin {"approving", "launching", "wait", "lead", "burst"},
         l = "block" => path'[t] = "v1", pc' = [pc EXCEPT ![t] = l],
         \A u \in Try : u # t => path'[u] = path[u], UNCHANGED <<chain, wire>>
  PROVE  Posted'
<1>1. /\ \A u \in Try : pc'[u] = IF u = t THEN l ELSE pc[u]
      /\ \A x \in Txs : x.try = t => req[x] = "unsent"
  BY DEF TypeOK, Posted, Before
<1>2. \A u \in Try : u # t => Approvers(u)' = Approvers(u) /\ Paired(u)' = Paired(u) /\ Approves(u)' = Approves(u)
  BY DEF Approvers, Paired, Approves
<1>3. UNCHANGED <<req, onway, at, queue>>
  BY DEF wire, chain
<1>4. /\ \A y \in Txs : req'[y] = "unsent" => y \notin onway' /\ at'[y] = 0
      /\ \A i \in DOMAIN queue' : req'[queue'[i]] # "unsent"
      /\ \A y \in onway' : req'[y] # "sent"
  BY <1>3 DEF Posted
<1>5. \A y \in Txs : y.kind = "approve" /\ req'[y] # "unsent" => y.who \in Approvers(y.try)'
  BY <1>1, <1>2, <1>3, TxTypes DEF Posted
<1>6. /\ \A y \in Txs : pc'[y.try] \in Before => req'[y] = "unsent"
      /\ \A y \in Txs : pc'[y.try] = "approving" /\ y.kind = "act" => req'[y] = "unsent"
      /\ \A y \in Txs : pc'[y.try] \in {"launching", "wait", "lead"} /\ y.kind = "act" /\ y.who # Dev =>
           req'[y] = "unsent"
      /\ \A y \in Txs : req'[y] = "out" => pc'[y.try] \in OutAt(y)
  BY <1>1, <1>3, TxTypes DEF Posted
<1>7. \A y \in Txs : path'[y.try] = "native" /\ y.kind = "act" /\ y.who # Dev /\ req'[y] # "unsent" =>
        req'[Launch(y.try)] = "sent"
  BY <1>1, <1>3, TxTypes DEF Posted
<1>8. \A u \in Try : /\ pc'[u] = "wait" => req'[Launch(u)] = "sent"
                     /\ pc'[u] = "block" => path'[u] = "v1"
                     /\ pc'[u] = "lead" => Paired(u)'
                     /\ pc'[u] \in {"launching", "lead"} => req'[Launch(u)] # "unsent"
                     /\ pc'[u] = "approving" => \A y \in Approves(u)' : req'[y] # "unsent"
  BY <1>1, <1>2, <1>3 DEF Posted
<1>. QED BY <1>4, <1>5, <1>6, <1>7, <1>8 DEF Posted

LEMMA StepPosted ==
  ASSUME TypeOK, Lock, Posted, [Next]_vars
  PROVE  Posted'
<1>1. ASSUME NEW t \in Try, Working(t) PROVE Posted'
  BY <1>1, WorkingMoves, MovesPosted
<1>2. ASSUME NEW t \in Try, NEW p \in Paths, Request(t, p) PROVE Posted'
  <2>1. /\ pc[t] = "none" /\ pc' = [pc EXCEPT ![t] = "prepare"] /\ UNCHANGED <<chain, wire>>
        /\ \A u \in Try : u # t => path'[u] = path[u]
    BY <1>2 DEF Request, TypeOK
  <2>. QED BY <2>1, PlanPosted DEF Steps
<1>3. ASSUME NEW t \in Try, Prepare(t) \/ Sign(t) PROVE Posted'
  <2>1. PICK l \in {"threw", "sign", "block", "hold", "recheck"} :
          pc' = [pc EXCEPT ![t] = l] /\ (l = "block" => path[t] = "v1")
    BY <1>3 DEF Prepare, Sign, Throw, Over, Goto
  <2>2. pc[t] \in {"prepare", "sign"} /\ UNCHANGED <<chain, wire, path>>
    BY <1>3 DEF Prepare, Sign, Throw
  <2>. QED BY <2>1, <2>2, PlanPosted DEF Steps, Ended
<1>4. ASSUME NEW x \in Txs, Arrive(x) PROVE Posted'
  <2>1. req[x] # "unsent" /\ onway' = onway \ {x} /\ UNCHANGED <<at, pc, path, base>>
    BY <1>4 DEF Arrive, Posted, plans
  <2>2. /\ \E as \in {"sent", "failed"} : Answer(x, as)
        /\ queue' = queue \/ queue' = Append(queue, x)
    BY <1>4 DEF Arrive
  <2>. QED BY <2>1, <2>2, AnswerPosted
<1>5. ASSUME NEW x \in Txs, GivesUp(x) PROVE Posted'
  <2>1. /\ req[x] = "out" /\ onway' = onway /\ queue' = queue /\ UNCHANGED <<at, pc, path, base>>
        /\ Answer(x, "failed") /\ req'[x] = "failed"
    BY <1>5 DEF GivesUp, plans, chain, Answer, TypeOK
  <2>. QED BY <2>1, AnswerPosted
<1>6. CASE UNCHANGED <<queue, at, wire, pc, path>>
  BY <1>6 DEF Posted, wire, Approvers, Paired, Approves
<1>7. ASSUME NEW i \in DOMAIN queue, Execute(i) PROVE Posted'
  <2>. DEFINE x == queue[i]
  <2>1. x \in Txs /\ req[x] # "unsent" /\ UNCHANGED <<req, onway, pc, path>>
    BY <1>7 DEF TypeOK, Posted, Execute, wire, plans
  <2>2. \A y \in Txs : at'[y] = at[y] \/ y = x
    BY <1>7, <2>1 DEF TypeOK, Execute
  <2>3. \A k \in DOMAIN queue' : \E j \in DOMAIN queue : queue'[k] = queue[j]
    <3>1. /\ queue' = Without(i) /\ queue \in Seq(Txs)
      BY <1>7 DEF Execute, TypeOK
    <3>2. \A k \in 1..(Len(queue) - 1) : (IF k < i THEN k ELSE k + 1) \in DOMAIN queue
      BY <3>1
    <3>3. DOMAIN queue' = 1..(Len(queue) - 1)
      BY <3>1, WithoutIs
    <3>. QED BY <3>1, <3>2, <3>3, WithoutIs
  <2>. HIDE DEF x
  <2>4. /\ \A y \in Txs : req'[y] = "unsent" => y \notin onway' /\ at'[y] = 0
        /\ \A k \in DOMAIN queue' : req'[queue'[k]] # "unsent"
        /\ \A y \in onway' : req'[y] # "sent"
    BY <2>1, <2>2, <2>3 DEF Posted
  <2>. QED BY <2>1, <2>4 DEF Posted, Approvers, Paired, Approves
<1>8. CASE Tick \/ Drift \/ UNCHANGED vars
  BY <1>6, <1>8 DEF Tick, Drift, vars, chain, plans
<1>9. CASE Crash
  <2>1. /\ \A y \in Txs : req'[y] = IF req[y] = "out" THEN "failed" ELSE req[y]
        /\ \A u \in Try : pc'[u] = (IF pc[u] \in Steps THEN "gone" ELSE pc[u])
        /\ \A u \in Try : pc'[u] \in {"done", "threw", "gone", "none"} /\ (pc'[u] = "none" => pc[u] = "none")
        /\ UNCHANGED <<queue, at, onway, path>>
    BY <1>9 DEF Crash, chain, plans, TypeOK, Ended
  <2>2. /\ \A y \in Txs : req'[y] = "unsent" => y \notin onway' /\ at'[y] = 0
        /\ \A k \in DOMAIN queue' : req'[queue'[k]] # "unsent"
        /\ \A y \in onway' : req'[y] # "sent"
    <3>1. \A k \in DOMAIN queue : queue[k] \in Txs
      BY DEF TypeOK
    <3>. QED BY <2>1, <3>1 DEF Posted, TypeOK
  <2>3. /\ \A y \in Txs : y.kind = "approve" /\ req'[y] # "unsent" => y.who \in Approvers(y.try)'
        /\ \A y \in Txs : pc'[y.try] \in Before => req'[y] = "unsent"
        /\ \A y \in Txs : path'[y.try] = "native" /\ y.kind = "act" /\ y.who # Dev /\ req'[y] # "unsent" =>
              req'[Launch(y.try)] = "sent"
        /\ \A y \in Txs : req'[y] # "out"
    BY <2>1, TxTypes DEF Posted, Before, Approvers, Paired
  <2>. QED BY <2>1, <2>2, <2>3, TxTypes DEF Posted
<1>. QED
  BY <1>1, <1>2, <1>3, <1>4, <1>5, <1>7, <1>8, <1>9 DEF Next, Handler, Working

-----------------------------------------------------------------------------
(* The queue and the nonces, as functions of their own                     *)

Nonces == [x \in Txs |-> Nonce(x)]

HeldBy(c, q, f, a, n, l) ==
  \A m \in c[a]..(n - 1) : \E k \in 1..l : q[k].who = a /\ f[q[k]] = m

NoGapOf(c, q, f, b, o, r) ==
  /\ \A t \in Try, a \in Who : HeldBy(c, q, f, a, b[t][a], Len(q))
  /\ \A x \in o : HeldBy(c, q, f, x.who, f[x], Len(q))
  /\ \A i \in DOMAIN q : HeldBy(c, q, f, q[i].who, f[q[i]], i - 1)
  /\ \A x \in Txs : r[x] = "sent" => f[x] < c[x.who] \/ \E k \in DOMAIN q : q[k] = x

LEMMA NoGapIs ==
  ASSUME TypeOK
  PROVE  NoGap <=> NoGapOf(count, queue, Nonces, base, onway, req)
<1>1. \A x \in Txs : Nonces[x] = Nonce(x)
  BY DEF Nonces
<1>2. queue \in Seq(Txs) /\ \A k \in DOMAIN queue : queue[k] \in Txs
  BY DEF TypeOK
<1>3. \A a, n : \A l \in 0..Len(queue) : Held(a, n, l) <=> HeldBy(count, queue, Nonces, a, n, l)
  BY <1>1, <1>2 DEF Held, HeldBy
<1>4. onway \subseteq Txs /\ Len(queue) \in 0..Len(queue)
      /\ \A i \in DOMAIN queue : i - 1 \in 0..Len(queue)
  BY <1>2 DEF TypeOK
<1>. QED BY <1>1, <1>2, <1>3, <1>4 DEF NoGap, NoGapOf

LEMMA NoGapIsNext ==
  ASSUME TypeOK'
  PROVE  NoGap' <=> NoGapOf(count', queue', Nonces', base', onway', req')
<1>1. queue' \in Seq(Txs) /\ onway' \subseteq Txs
  BY DEF TypeOK
<1>2. \A k \in 1..Len(queue') : queue'[k] \in Txs
  BY <1>1
<1>3. \A k \in 1..Len(queue') : Nonces'[queue'[k]] = Nonce(queue[k])'
  BY <1>2 DEF Nonces, Nonce, Approvers, Paired
<1>4. \A x \in Txs : Nonces'[x] = Nonce(x)'
  BY DEF Nonces
<1>5. Len(queue') \in Nat
  BY <1>1
<1>6. DOMAIN queue' = 1..Len(queue')
  BY <1>1
<1>. DEFINE P == \A t \in Try, a \in Who : Held(a, base[t][a], Len(queue))
            Q == \A x \in onway : Held(x.who, Nonce(x), Len(queue))
            R == \A i \in DOMAIN queue : Held(queue[i].who, Nonce(queue[i]), i - 1)
            T == \A x \in Txs : req[x] = "sent" => Nonce(x) < count[x.who] \/ \E k \in DOMAIN queue : queue[k] = x
<1>7. P' <=> \A t \in Try, a \in Who : HeldBy(count', queue', Nonces', a, base'[t][a], Len(queue'))
  <2>. HIDE DEF Nonces
  <2>. QED BY <1>3 DEF Held, HeldBy
<1>8. Q' <=> \A x \in onway' : HeldBy(count', queue', Nonces', x.who, Nonces'[x], Len(queue'))
  <2>. HIDE DEF Nonces
  <2>. QED BY <1>1, <1>3, <1>4 DEF Held, HeldBy
<1>9. R' <=> \A i \in DOMAIN queue' : HeldBy(count', queue', Nonces', queue'[i].who, Nonces'[queue'[i]], i - 1)
  <2>1. \A i \in DOMAIN queue' : \A k \in 1..(i - 1) : k \in 1..Len(queue')
    BY <1>5, <1>6
  <2>. HIDE DEF Nonces
  <2>. QED BY <1>3, <1>6, <2>1 DEF Held, HeldBy
<1>10. T' <=> \A x \in Txs : req'[x] = "sent" => Nonces'[x] < count'[x.who] \/ \E k \in DOMAIN queue' : queue'[k] = x
  <2>. HIDE DEF Nonces
  <2>. QED BY <1>4
<1>11. NoGap' <=> (P /\ Q /\ R /\ T)'
  BY DEF NoGap
<1>. QED BY <1>7, <1>8, <1>9, <1>10, <1>11 DEF NoGapOf

\* What has been sent keeps its nonce in every step.
LEMMA StepPlanKept ==
  ASSUME TypeOK, Posted, [Next]_vars
  PROVE  PlanKept
<1>1. ASSUME NEW t \in Try, Working(t) PROVE PlanKept
  BY <1>1, WorkingMoves DEF PlanKept, Moves
<1>2. ASSUME NEW t \in Try, pc[t] \in Before,
             \A u \in Try : u # t => path'[u] = path[u] /\ base'[u] = base[u]
      PROVE  PlanKept
  BY <1>2, TxTypes DEF PlanKept, Posted
<1>3. ASSUME NEW t \in Try, NEW p \in Paths, Request(t, p) PROVE PlanKept
  BY <1>2, <1>3 DEF Request, TypeOK, Before
<1>4. ASSUME NEW t \in Try, Prepare(t) \/ Sign(t) PROVE PlanKept
  <2>1. \A u \in Try : u # t => base'[u] = base[u]
    BY <1>4 DEF Prepare, Sign, TypeOK
  <2>. QED BY <1>2, <1>4, <2>1 DEF Prepare, Sign, Before
<1>5. CASE UNCHANGED plans
  BY <1>5 DEF PlanKept, plans
<1>6. ASSUME NEW x \in Txs, Arrive(x) \/ GivesUp(x) PROVE PlanKept
  BY <1>5, <1>6 DEF Arrive, GivesUp
<1>7. ASSUME NEW i \in DOMAIN queue, Execute(i) PROVE PlanKept
  BY <1>5, <1>7 DEF Execute
<1>8. CASE Tick \/ Drift \/ Crash \/ UNCHANGED vars
  BY <1>5, <1>8 DEF Tick, Drift, Crash, vars
<1>. QED BY <1>1, <1>3, <1>4, <1>6, <1>7, <1>8 DEF Next, Handler, Working

LEMMA NoncesKept ==
  ASSUME TypeOK, PlanKept
  PROVE  \A x \in Txs : req[x] # "unsent" => Nonces'[x] = Nonces[x]
BY NonceKept DEF Nonces

\* A nonce that is held stays so when the queue changes only in nonces of the unsent.
LEMMA NoGapStays ==
  ASSUME TypeOK, TypeOK', Posted, NoGap, PlanKept, UNCHANGED <<count, queue>>,
         \A t \in Try, a \in Who :
           base'[t][a] = base[t][a] \/ HeldBy(count, queue, Nonces, a, base'[t][a], Len(queue)),
         \A x \in onway' : x \in onway \/ HeldBy(count, queue, Nonces, x.who, Nonces'[x], Len(queue)),
         \A x \in Txs : req'[x] = "sent" => req[x] = "sent"
  PROVE  NoGap'
<1>1. /\ queue \in Seq(Txs) /\ onway \subseteq Txs
      /\ \A k \in DOMAIN queue : queue[k] \in Txs /\ Nonces'[queue[k]] = Nonces[queue[k]]
      /\ \A x \in onway : x \in Txs /\ Nonces'[x] = Nonces[x]
      /\ \A x \in Txs : req[x] = "sent" => Nonces'[x] = Nonces[x]
  BY NoncesKept DEF TypeOK, Posted
<1>. DEFINE f == Nonces  g == Nonces'
<1>2. NoGapOf(count, queue, f, base, onway, req)
  BY NoGapIs
<1>. HIDE DEF f, g
<1>3. \A a, n : \A l \in 0..Len(queue) : HeldBy(count, queue, f, a, n, l) => HeldBy(count, queue, g, a, n, l)
  <2>1. \A k \in 1..Len(queue) : k \in DOMAIN queue /\ g[queue[k]] = f[queue[k]]
    BY <1>1 DEF f, g
  <2>2. \A l \in 0..Len(queue) : \A k \in 1..l : k \in 1..Len(queue)
    BY <1>1
  <2>. QED BY <2>1, <2>2 DEF HeldBy
<1>4. Len(queue) \in 0..Len(queue) /\ \A i \in DOMAIN queue : i - 1 \in 0..Len(queue)
  BY <1>1
<1>5. \A t \in Try, a \in Who : HeldBy(count, queue, g, a, base'[t][a], Len(queue))
  BY <1>2, <1>3, <1>4 DEF NoGapOf, f
<1>6. \A x \in onway' : HeldBy(count, queue, g, x.who, g[x], Len(queue))
  <2>. SUFFICES ASSUME NEW x \in onway' PROVE HeldBy(count, queue, g, x.who, g[x], Len(queue))
    OBVIOUS
  <2>1. CASE x \in onway
    <3>1. g[x] = f[x]
      BY <1>1, <2>1 DEF f, g
    <3>. QED BY <1>2, <1>3, <1>4, <2>1, <3>1 DEF NoGapOf
  <2>2. CASE HeldBy(count, queue, f, x.who, g[x], Len(queue))
    BY <1>3, <1>4, <2>2
  <2>. QED BY <2>1, <2>2 DEF f, g
<1>7. \A i \in DOMAIN queue : HeldBy(count, queue, g, queue[i].who, g[queue[i]], i - 1)
  <2>1. \A i \in DOMAIN queue : g[queue[i]] = f[queue[i]]
    BY <1>1 DEF f, g
  <2>. QED BY <1>2, <1>3, <1>4, <2>1 DEF NoGapOf
<1>8. \A x \in Txs : req'[x] = "sent" => g[x] < count[x.who] \/ \E k \in DOMAIN queue : queue[k] = x
  <2>1. \A x \in Txs : req'[x] = "sent" => req[x] = "sent" /\ g[x] = f[x]
    BY <1>1 DEF f, g
  <2>. QED BY <1>2, <2>1 DEF NoGapOf
<1>9. NoGapOf(count, queue, g, base', onway', req')
  BY <1>5, <1>6, <1>7, <1>8 DEF NoGapOf
<1>. QED BY <1>9, NoGapIsNext DEF g

\* A transaction joins the queue behind all that it needs.
LEMMA NoGapGrows ==
  ASSUME NEW c, NEW q \in Seq(Txs), NEW f, NEW b, NEW o \in SUBSET Txs, NEW r, NEW r2,
         NoGapOf(c, q, f, b, o, r), NEW x \in o,
         \A y \in Txs : r2[y] = "sent" => y = x \/ r[y] = "sent"
  PROVE  NoGapOf(c, Append(q, x), f, b, o \ {x}, r2)
<1>. DEFINE p == Append(q, x)
<1>1. /\ p \in Seq(Txs) /\ Len(p) = Len(q) + 1 /\ Len(q) \in Nat /\ p[Len(q) + 1] = x
      /\ \A k \in 1..Len(q) : p[k] = q[k]
      /\ DOMAIN q = 1..Len(q) /\ DOMAIN p = 1..(Len(q) + 1)
  OBVIOUS
<1>. HIDE DEF p
<1>2. \A a, n : \A l \in 0..Len(q) : HeldBy(c, q, f, a, n, l) => HeldBy(c, p, f, a, n, l)
  <2>1. \A l \in 0..Len(q) : \A k \in 1..l : p[k] = q[k]
    BY <1>1
  <2>. QED BY <2>1 DEF HeldBy
<1>3. \A a, n : HeldBy(c, q, f, a, n, Len(q)) => HeldBy(c, p, f, a, n, Len(q) + 1)
  <2>1. \A k \in 1..Len(q) : k \in 1..(Len(q) + 1)
    BY <1>1
  <2>. QED BY <1>1, <2>1 DEF HeldBy
<1>4. \A t \in Try, a \in Who : HeldBy(c, p, f, a, b[t][a], Len(p))
  BY <1>1, <1>3 DEF NoGapOf
<1>5. \A y \in o \ {x} : HeldBy(c, p, f, y.who, f[y], Len(p))
  BY <1>1, <1>3 DEF NoGapOf
<1>6. \A i \in DOMAIN p : HeldBy(c, p, f, p[i].who, f[p[i]], i - 1)
  <2>. SUFFICES ASSUME NEW i \in DOMAIN p PROVE HeldBy(c, p, f, p[i].who, f[p[i]], i - 1)
    OBVIOUS
  <2>1. CASE i \in 1..Len(q)
    <3>1. i - 1 \in 0..Len(q) /\ i \in DOMAIN q /\ p[i] = q[i]
      BY <1>1, <2>1
    <3>. QED BY <1>2, <3>1 DEF NoGapOf
  <2>2. CASE i = Len(q) + 1
    <3>1. p[i] = x /\ i - 1 = Len(q) /\ Len(q) \in 0..Len(q)
      BY <1>1, <2>2
    <3>. QED BY <1>2, <3>1 DEF NoGapOf
  <2>. QED BY <1>1, <2>1, <2>2
<1>7. \A y \in Txs : r2[y] = "sent" => f[y] < c[y.who] \/ \E k \in DOMAIN p : p[k] = y
  <2>. SUFFICES ASSUME NEW y \in Txs, r2[y] = "sent"
                PROVE  f[y] < c[y.who] \/ \E k \in DOMAIN p : p[k] = y
    OBVIOUS
  <2>1. CASE y = x
    <3>1. Len(q) + 1 \in DOMAIN p
      BY <1>1
    <3>. QED BY <1>1, <2>1, <3>1
  <2>2. CASE r[y] = "sent"
    <3>1. f[y] < c[y.who] \/ \E k \in DOMAIN q : q[k] = y
      BY <2>2 DEF NoGapOf
    <3>2. \A k \in DOMAIN q : k \in DOMAIN p /\ p[k] = q[k]
      BY <1>1
    <3>. QED BY <3>1, <3>2
  <2>. QED BY <2>1, <2>2
<1>. QED BY <1>4, <1>5, <1>6, <1>7 DEF NoGapOf, p

\* Where in a sequence of n the j-th of those left was, when the i-th is taken out.
LEMMA OldPlace ==
  ASSUME NEW n \in Nat, NEW i \in 1..n, NEW j \in 1..(n - 1)
  PROVE  /\ (IF j < i THEN j ELSE j + 1) \in 1..n
         /\ (IF i <= (IF j < i THEN j ELSE j + 1) - 1 THEN ((IF j < i THEN j ELSE j + 1) - 1) - 1
             ELSE (IF j < i THEN j ELSE j + 1) - 1) = j - 1
OBVIOUS

\* And where the k-th goes, among all and among the first l.
LEMMA NewPlace ==
  ASSUME NEW n \in Nat, NEW i \in 1..n, NEW l \in 0..n, NEW k \in 1..l, k # i
  PROVE  \E j \in 1..(IF i <= l THEN l - 1 ELSE l) :
           j \in 1..(n - 1) /\ (IF j < i THEN j ELSE j + 1) = k
<1>1. CASE k < i
  <2>1. k \in 1..(IF i <= l THEN l - 1 ELSE l) /\ k \in 1..(n - 1)
    BY <1>1
  <2>. QED BY <1>1, <2>1
<1>2. CASE ~(k < i)
  <2>1. k - 1 \in 1..(IF i <= l THEN l - 1 ELSE l) /\ k - 1 \in 1..(n - 1)
        /\ ~(k - 1 < i) /\ (k - 1) + 1 = k
    BY <1>2
  <2>. QED BY <2>1
<1>. QED BY <1>1, <1>2

\* The first that can run leaves the queue.
LEMMA NoGapShrinks ==
  ASSUME NEW c \in [Who -> Nat], NEW d \in [Who -> Nat], NEW q \in Seq(Txs), NEW p \in Seq(Txs),
         NEW f \in [Txs -> Nat], NEW b \in [Try -> [Who -> Nat]], NEW o \in SUBSET Txs, NEW r,
         NoGapOf(c, q, f, b, o, r), NEW i \in 1..Len(q), Len(p) = Len(q) - 1,
         \A j \in 1..(Len(q) - 1) : p[j] = q[IF j < i THEN j ELSE j + 1],
         f[q[i]] <= c[q[i].who],
         \A a \in Who : d[a] = IF a = q[i].who /\ f[q[i]] = c[a] THEN c[a] + 1 ELSE c[a]
  PROVE  NoGapOf(d, p, f, b, o, r)
<1>1. /\ Len(q) \in Nat /\ i \in Nat /\ i >= 1 /\ i <= Len(q)
      /\ DOMAIN q = 1..Len(q) /\ DOMAIN p = 1..(Len(q) - 1)
      /\ q[i] \in Txs /\ q[i].who \in Who
  BY TxTypes
<1>2. ASSUME NEW a \in Who, NEW n, NEW l \in 0..Len(q), HeldBy(c, q, f, a, n, l), n \in Nat
      PROVE  HeldBy(d, p, f, a, n, IF i <= l THEN l - 1 ELSE l)
  <2>. SUFFICES ASSUME NEW m \in d[a]..(n - 1)
                PROVE  \E k \in 1..(IF i <= l THEN l - 1 ELSE l) : p[k].who = a /\ f[p[k]] = m
    BY DEF HeldBy
  <2>0. /\ c[a] \in Nat /\ d[a] \in Nat /\ f[q[i]] \in Nat /\ n \in Nat
        /\ d[a] = IF a = q[i].who /\ f[q[i]] = c[a] THEN c[a] + 1 ELSE c[a]
        /\ a = q[i].who => f[q[i]] <= c[a]
    BY <1>1, <1>2
  <2>1. m \in c[a]..(n - 1) /\ (a = q[i].who => m # f[q[i]])
    BY <2>0
  <2>2. PICK k \in 1..l : q[k].who = a /\ f[q[k]] = m
    BY <1>2, <2>1 DEF HeldBy
  <2>3. k # i /\ k \in 1..Len(q)
    BY <1>1, <2>1, <2>2
  <2>4. PICK k2 \in 1..(IF i <= l THEN l - 1 ELSE l) :
          k2 \in 1..(Len(q) - 1) /\ (IF k2 < i THEN k2 ELSE k2 + 1) = k
    <3>1. Len(q) \in Nat /\ i \in 1..Len(q) /\ k \in 1..l /\ k # i
      BY <1>1, <2>2, <2>3
    <3>. QED BY <3>1, NewPlace, Zenon
  <2>5. p[k2] = q[k]
    BY <2>4
  <2>. QED BY <2>2, <2>4, <2>5
<1>3. Len(q) \in 0..Len(q) /\ (IF i <= Len(q) THEN Len(q) - 1 ELSE Len(q)) = Len(p)
  BY <1>1
<1>4. \A t \in Try, a \in Who : b[t][a] \in Nat => HeldBy(d, p, f, a, b[t][a], Len(p))
  BY <1>2, <1>3 DEF NoGapOf
<1>5. \A x \in o \cap Txs : HeldBy(d, p, f, x.who, f[x], Len(p))
  BY <1>2, <1>3, TxTypes DEF NoGapOf
<1>6. ASSUME NEW j \in DOMAIN p PROVE HeldBy(d, p, f, p[j].who, f[p[j]], j - 1)
  <2>. DEFINE k == IF j < i THEN j ELSE j + 1
  <2>1. /\ k \in DOMAIN q /\ p[j] = q[k] /\ k - 1 \in 0..Len(q)
        /\ (IF i <= k - 1 THEN (k - 1) - 1 ELSE k - 1) = j - 1
        /\ q[k] \in Txs /\ q[k].who \in Who /\ f[q[k]] \in Nat
    <3>1. j \in 1..(Len(q) - 1)
      BY <1>1
    <3>2. k \in 1..Len(q) /\ (IF i <= k - 1 THEN (k - 1) - 1 ELSE k - 1) = j - 1
      BY <1>1, <3>1, OldPlace, Zenon
    <3>3. k \in DOMAIN q /\ p[j] = q[k] /\ k - 1 \in 0..Len(q)
      <4>1. p[j] = q[k]
        BY <3>1
      <4>. HIDE DEF k
      <4>. QED BY <1>1, <3>2, <4>1
    <3>4. q[k] \in Txs
      BY <3>3
    <3>. QED BY <3>2, <3>3, <3>4, TxTypes
  <2>. HIDE DEF k
  <2>2. HeldBy(c, q, f, q[k].who, f[q[k]], k - 1)
    BY <2>1 DEF NoGapOf
  <2>3. HeldBy(d, p, f, q[k].who, f[q[k]], IF i <= k - 1 THEN (k - 1) - 1 ELSE k - 1)
    BY <1>2, <2>1, <2>2
  <2>. QED BY <2>1, <2>3
<1>7. ASSUME NEW x \in Txs, r[x] = "sent" PROVE f[x] < d[x.who] \/ \E k \in DOMAIN p : p[k] = x
  <2>0. /\ x.who \in Who /\ f[x] \in Nat /\ c[x.who] \in Nat /\ d[x.who] >= c[x.who] /\ d[x.who] \in Nat
    <3>1. x.who \in Who /\ f[x] \in Nat /\ c[x.who] \in Nat /\ d[x.who] \in Nat
      BY TxTypes
    <3>2. d[x.who] = IF x.who = q[i].who /\ f[q[i]] = c[x.who] THEN c[x.who] + 1 ELSE c[x.who]
      BY <3>1
    <3>. QED BY <3>1, <3>2
  <2>1. CASE f[x] < c[x.who]
    BY <2>0, <2>1
  <2>2. CASE x = q[i]
    BY <2>0, <2>2, <2>1
  <2>3. ASSUME NEW k \in DOMAIN q, q[k] = x, k # i PROVE \E j \in DOMAIN p : p[j] = x
    <3>. DEFINE k2 == IF k < i THEN k ELSE k - 1
    <3>1. k2 \in 1..(Len(q) - 1) /\ (IF k2 < i THEN k2 ELSE k2 + 1) = k
      BY <1>1, <2>3
    <3>. QED BY <1>1, <2>3, <3>1
  <2>4. f[x] < c[x.who] \/ \E k \in DOMAIN q : q[k] = x
    BY <1>7 DEF NoGapOf
  <2>. QED BY <2>1, <2>2, <2>3, <2>4
<1>. QED BY <1>4, <1>5, <1>6, <1>7 DEF NoGapOf

\* What is sent needs nothing that is not held.
LEMMA SentIsHeld ==
  ASSUME TypeOK, Posted, NoGap, NEW t \in Try, NEW l, NEW S \in SUBSET Txs,
         Moves(t, l, S), Sends(t, l, S), NEW x \in S
  PROVE  HeldBy(count, queue, Nonces, x.who, Nonces[x], Len(queue))
<1>. DEFINE f == Nonces
<1>1. /\ x \in Txs /\ x.try = t /\ x.who \in Who /\ NoGapOf(count, queue, f, base, onway, req)
      /\ Len(queue) \in Nat /\ DOMAIN queue = 1..Len(queue)
      /\ count[x.who] \in Nat /\ base[t][x.who] \in Nat
  <2>1. x \in Txs /\ x.try = t /\ x.who \in Who
    BY TxTypes DEF Moves
  <2>2. /\ queue \in Seq(Txs) /\ count \in [Who -> Nat] /\ base \in [Try -> [Who -> Nat]]
    BY DEF TypeOK
  <2>. QED BY <2>1, <2>2, NoGapIs
<1>2. HeldBy(count, queue, f, x.who, base[t][x.who], Len(queue))
  BY <1>1 DEF NoGapOf
<1>3. CASE ~(x.kind = "act" /\ x.who \in Approvers(t))
  <2>1. f[x] = base[t][x.who]
    BY <1>1, <1>3 DEF Nonces, Nonce
  <2>. QED BY <1>2, <2>1
<1>4. CASE x.kind = "act" /\ x.who \in Approvers(t)
  <2>. DEFINE y == Approve(t, x.who)
  <2>1. y \in Txs /\ req[y] = "sent" /\ y.who = x.who
    BY <1>1, <1>4, TxTypes DEF Sends, Approve
  <2>2. f[x] = base[t][x.who] + 1 /\ f[y] = base[t][x.who]
    BY <1>1, <1>4, <2>1 DEF Nonces, Nonce, Approve
  <2>. HIDE DEF y, f
  <2>3. f[y] < count[x.who] \/ \E k \in 1..Len(queue) : queue[k] = y
    BY <1>1, <2>1 DEF NoGapOf
  <2>4. ASSUME NEW m \in count[x.who]..(f[x] - 1)
        PROVE  \E k \in 1..Len(queue) : queue[k].who = x.who /\ f[queue[k]] = m
    <3>1. CASE m \in count[x.who]..(base[t][x.who] - 1)
      BY <1>2, <3>1 DEF HeldBy
    <3>2. CASE m = base[t][x.who]
      BY <1>1, <2>1, <2>2, <2>3, <3>2
    <3>. QED BY <1>1, <2>2, <3>1, <3>2
  <2>. QED BY <2>4 DEF HeldBy, f
<1>. QED BY <1>3, <1>4

\* What is read has nothing that is not held below it.
LEMMA ReadIsHeld ==
  ASSUME TypeOK, NEW a \in Who, NEW n \in Counts, Reads(a, n)
  PROVE  HeldBy(count, queue, Nonces, a, n, Len(queue))
<1>1. count[a] \in Nat /\ n \in Nat /\ queue \in Seq(Txs)
  BY DEF TypeOK, Counts
<1>2. CASE n = count[a]
  BY <1>1, <1>2 DEF HeldBy
<1>3. CASE \A m \in count[a]..(n - 1) : m \in Taken(a)
  <2>1. ASSUME NEW m \in Taken(a) PROVE \E k \in 1..Len(queue) : queue[k].who = a /\ Nonces[queue[k]] = m
    <3>1. PICK k \in DOMAIN queue : queue[k].who = a /\ Nonce(queue[k]) = m
      BY <2>1 DEF Taken, Waiting
    <3>2. k \in 1..Len(queue) /\ queue[k] \in Txs
      BY <1>1
    <3>. QED BY <3>1, <3>2 DEF Nonces
  <2>. QED BY <1>3, <2>1 DEF HeldBy
<1>. QED BY <1>2, <1>3 DEF Reads

LEMMA StepNoGap ==
  ASSUME TypeOK, TypeOK', Posted, NoGap, [Next]_vars
  PROVE  NoGap'
<1>0. PlanKept
  BY StepPlanKept
<1>1. ASSUME NEW t \in Try, Working(t) PROVE NoGap'
  <2>1. PICK l \in Steps \cup Ended, S \in SUBSET Txs : Moves(t, l, S) /\ Sends(t, l, S)
    BY <1>1, WorkingMoves
  <2>2. \A x \in S : HeldBy(count, queue, Nonces, x.who, Nonces[x], Len(queue))
    BY <2>1, SentIsHeld
  <2>3. /\ UNCHANGED <<count, queue, base>> /\ Nonces' = Nonces /\ onway' = onway \cup S
        /\ \A x \in Txs : req'[x] = "sent" => req[x] = "sent"
    BY <2>1 DEF Moves, chain, Nonces, Nonce, Approvers, Paired
  <2>. QED BY <1>0, <2>2, <2>3, NoGapStays
<1>2. ASSUME NEW t \in Try, NEW p \in Paths, Request(t, p) PROVE NoGap'
  BY <1>0, <1>2, NoGapStays DEF Request, chain, wire
<1>3. ASSUME NEW t \in Try, Prepare(t) PROVE NoGap'
  <2>1. ASSUME NEW u \in Try, NEW a \in Who
        PROVE  base'[u][a] = base[u][a] \/ HeldBy(count, queue, Nonces, a, base'[u][a], Len(queue))
    <3>1. CASE UNCHANGED base
      BY <3>1
    <3>2. CASE \E n \in Counts : Reads(Dev, n) /\ base' = [base EXCEPT ![t][Dev] = n]
      <4>1. PICK n \in Counts : Reads(Dev, n) /\ base' = [base EXCEPT ![t][Dev] = n]
        BY <3>2
      <4>2. HeldBy(count, queue, Nonces, Dev, n, Len(queue))
        BY <4>1, ReadIsHeld, TxTypes
      <4>3. base'[u][a] = IF u = t /\ a = Dev THEN n ELSE base[u][a]
        BY <4>1 DEF TypeOK
      <4>. QED BY <4>2, <4>3
    <3>. QED BY <1>3, <3>1, <3>2 DEF Prepare
  <2>2. UNCHANGED <<count, queue, onway, req>>
    BY <1>3 DEF Prepare, Throw, chain, wire
  <2>. QED BY <1>0, <2>1, <2>2, NoGapStays
<1>4. ASSUME NEW t \in Try, Sign(t) PROVE NoGap'
  <2>1. ASSUME NEW u \in Try, NEW a \in Who
        PROVE  base'[u][a] = base[u][a] \/ HeldBy(count, queue, Nonces, a, base'[u][a], Len(queue))
    <3>1. CASE UNCHANGED base
      BY <3>1
    <3>2. CASE \E b \in [Wallets -> Counts] :
                 /\ \A w \in Wallets : Reads(w, b[w])
                 /\ base' = [base EXCEPT ![t] = [v \in Who |-> IF v = Dev THEN @[Dev] ELSE b[v]]]
      <4>1. PICK b \in [Wallets -> Counts] :
                 /\ \A w \in Wallets : Reads(w, b[w])
                 /\ base' = [base EXCEPT ![t] = [v \in Who |-> IF v = Dev THEN base[t][Dev] ELSE b[v]]]
        BY <3>2
      <4>2. \A w \in Wallets : HeldBy(count, queue, Nonces, w, b[w], Len(queue))
        BY <4>1, ReadIsHeld, TxTypes
      <4>3. base'[u][a] = IF u = t /\ a # Dev THEN b[a] ELSE base[u][a]
        BY <4>1 DEF TypeOK
      <4>. QED BY <4>2, <4>3 DEF Who
    <3>. QED BY <1>4, <3>1, <3>2 DEF Sign
  <2>2. UNCHANGED <<count, queue, onway, req>>
    BY <1>4 DEF Sign, Throw, chain, wire
  <2>. QED BY <1>0, <2>1, <2>2, NoGapStays
<1>5. ASSUME NEW x \in Txs, Arrive(x) PROVE NoGap'
  <2>1. UNCHANGED <<count, path, base>> /\ Nonces' = Nonces /\ x \in onway /\ onway' = onway \ {x}
    BY <1>5 DEF Arrive, plans, Nonces, Nonce, Approvers, Paired
  <2>2. CASE queue' = Append(queue, x) /\ Answer(x, "sent")
    <3>1. \A y \in Txs : req'[y] = "sent" => y = x \/ req[y] = "sent"
      BY <2>2 DEF Answer, TypeOK
    <3>2. queue \in Seq(Txs) /\ onway \in SUBSET Txs
      BY DEF TypeOK
    <3>3. NoGapOf(count, queue, Nonces, base, onway, req)
      BY NoGapIs
    <3>4. NoGapOf(count, Append(queue, x), Nonces, base, onway \ {x}, req')
      BY <2>1, <3>1, <3>2, <3>3, NoGapGrows
    <3>. QED BY <2>1, <2>2, <3>4, NoGapIsNext
  <2>3. CASE UNCHANGED queue /\ Answer(x, "failed")
    <3>1. \A y \in Txs : req'[y] = "sent" => req[y] = "sent"
      BY <2>3 DEF Answer, TypeOK
    <3>. QED BY <1>0, <2>1, <2>3, <3>1, NoGapStays
  <2>. QED BY <1>5, <2>2, <2>3 DEF Arrive
<1>6. ASSUME NEW x \in Txs, GivesUp(x) PROVE NoGap'
  <2>1. \A y \in Txs : req'[y] = "sent" => req[y] = "sent"
    BY <1>6 DEF GivesUp, Answer, TypeOK
  <2>. QED BY <1>0, <1>6, <2>1, NoGapStays DEF GivesUp, chain, plans
<1>7. ASSUME NEW i \in DOMAIN queue, Execute(i) PROVE NoGap'
  <2>. DEFINE f == Nonces
  <2>1. /\ UNCHANGED <<path, base, onway, req>> /\ f' = f /\ queue' = Without(i)
        /\ queue[i] \in Txs /\ queue[i].who \in Who
    BY <1>7, TxTypes DEF Execute, plans, wire, Nonces, Nonce, Approvers, Paired, TypeOK
  <2>2. /\ count \in [Who -> Nat] /\ count' \in [Who -> Nat] /\ queue \in Seq(Txs)
        /\ queue' \in Seq(Txs) /\ f \in [Txs -> Nat] /\ base \in [Try -> [Who -> Nat]]
        /\ onway \in SUBSET Txs
    BY NonceType DEF TypeOK, Nonces
  <2>3. /\ i \in 1..Len(queue) /\ Len(queue') = Len(queue) - 1
        /\ \A j \in 1..(Len(queue) - 1) : queue'[j] = queue[IF j < i THEN j ELSE j + 1]
    BY <2>1, WithoutIs
  <2>4. f[queue[i]] = Nonce(queue[i])
    BY <2>1 DEF Nonces
  <2>5. /\ f[queue[i]] <= count[queue[i].who]
        /\ \A a \in Who : count'[a] = IF a = queue[i].who /\ f[queue[i]] = count[a] THEN count[a] + 1 ELSE count[a]
    <3>1. /\ Nonce(queue[i]) <= count[queue[i].who]
          /\ count' = IF Nonce(queue[i]) = count[queue[i].who]
                      THEN [count EXCEPT ![queue[i].who] = @ + 1] ELSE count
      BY <1>7 DEF Execute, IsNext, Ready
    <3>. HIDE DEF f
    <3>. QED BY <2>1, <2>2, <2>4, <3>1
  <2>6. NoGapOf(count, queue, f, base, onway, req)
    BY NoGapIs
  <2>. HIDE DEF f
  <2>7. NoGapOf(count', queue', f, base, onway, req)
    BY <2>2, <2>3, <2>5, <2>6, NoGapShrinks
  <2>. QED BY <2>1, <2>7, NoGapIsNext DEF f
<1>8. CASE Tick \/ Drift \/ UNCHANGED vars
  BY <1>0, <1>8, NoGapStays DEF Tick, Drift, vars, chain, plans, wire
<1>9. CASE Crash
  <2>1. \A y \in Txs : req'[y] = "sent" => req[y] = "sent"
    BY <1>9 DEF Crash, TypeOK
  <2>. QED BY <1>0, <1>9, <2>1, NoGapStays DEF Crash, chain, plans
<1>. QED
  BY <1>1, <1>2, <1>3, <1>4, <1>5, <1>6, <1>7, <1>8, <1>9 DEF Next, Handler, Working

-----------------------------------------------------------------------------
(* What was executed                                                       *)

LEMMA ExecutedStays ==
  ASSUME TypeOK, TypeOK', Posted, PlanKept, Executed, UNCHANGED <<at, out, done>>,
         \A a \in Who : count'[a] >= count[a]
  PROVE  Executed'
<1>1. ASSUME NEW x \in Txs
      PROVE  /\ at[x] <= done /\ (ran(x) <=> out[x] # "none")
             /\ ran(x) => Nonce(x)' < count'[x.who]
             /\ out[x] = "stranded" => path'[x.try] = "native"
             /\ out[x] = "wasted" => path'[x.try] # "v1"
  <2>1. /\ at[x] <= done /\ (ran(x) <=> out[x] # "none") /\ (ran(x) => Nonce(x) < count[x.who])
        /\ (out[x] = "stranded" => path[x.try] = "native")
        /\ (out[x] = "wasted" => path[x.try] # "v1")
    BY DEF Executed
  <2>2. CASE ~ran(x)
    BY <2>1, <2>2
  <2>3. CASE ran(x)
    <3>1. req[x] # "unsent"
      BY <2>3 DEF Posted, ran
    <3>2. Nonce(x)' = Nonce(x) /\ path'[x.try] = path[x.try]
      BY <3>1, NonceKept DEF PlanKept
    <3>3. /\ Nonce(x) \in Nat /\ count[x.who] \in Nat /\ count'[x.who] \in Nat
          /\ count'[x.who] >= count[x.who]
      BY NonceType, TxTypes DEF TypeOK
    <3>. QED BY <2>1, <2>3, <3>2, <3>3
  <2>. QED BY <2>2, <2>3
<1>2. \A x, y \in Txs : ran(x) /\ at[x] = at[y] => x = y
  BY DEF Executed
<1>3. \A x \in Txs : /\ x.kind = "approve" => out[x] \in {"none", "ok"}
                     /\ x.who = Dev => out[x] \in {"none", "ok", "reverted"}
  BY DEF Executed
<1>4. \A t \in Try, w \in Wallets :
        Exists(t) /\ at[Buy(t, w)] > at[Launch(t)] => out[Buy(t, w)] \in {"ok", "reverted"}
  BY DEF Executed
<1>. QED BY <1>1, <1>2, <1>3, <1>4 DEF Executed, Exists, ran

LEMMA ExecuteExecuted ==
  ASSUME TypeOK, TypeOK', Posted, Executed, NEW i \in DOMAIN queue, Execute(i)
  PROVE  Executed'
<1>0. PlanKept
  BY DEF Execute, plans, PlanKept
<1>. DEFINE x == queue[i]
<1>1. x \in Txs /\ x.who \in Who /\ x.try \in Try /\ Nonce(x) <= count[x.who]
  BY TxTypes DEF TypeOK, Execute, IsNext, Ready
<1>2. CASE Nonce(x) # count[x.who]
  <2>1. UNCHANGED <<at, out, done, count>>
    BY <1>2 DEF Execute
  <2>2. \A a \in Who : count'[a] >= count[a]
    BY <2>1 DEF TypeOK
  <2>. QED BY <1>0, <2>1, <2>2, ExecutedStays
<1>3. CASE Nonce(x) = count[x.who]
  <2>1. /\ count' = [count EXCEPT ![x.who] = @ + 1] /\ done' = done + 1
        /\ at' = [at EXCEPT ![x] = done + 1] /\ out' = [out EXCEPT ![x] = Outcome(x)]
        /\ UNCHANGED <<path, base>>
    BY <1>3 DEF Execute, plans
  <2>. HIDE DEF x
  <2>2. /\ \A y \in Txs : at'[y] = IF y = x THEN done + 1 ELSE at[y]
        /\ \A y \in Txs : out'[y] = IF y = x THEN Outcome(x) ELSE out[y]
        /\ \A a \in Who : count'[a] = IF a = x.who THEN count[a] + 1 ELSE count[a]
    BY <1>1, <2>1 DEF TypeOK
  <2>3. /\ done \in Nat /\ \A y \in Txs : at[y] \in Nat /\ at[y] <= done
        /\ \A a \in Who : count[a] \in Nat
        /\ \A y \in Txs : Nonce(y) \in Nat /\ y.who \in Who /\ Nonce(y)' = Nonce(y)
    <3>1. \A y \in Txs : Nonce(y)' = Nonce(y)
      BY <2>1 DEF Nonce, Approvers, Paired
    <3>. QED BY <3>1, NonceType, TxTypes DEF TypeOK, Executed
  <2>4. /\ Outcome(x) \in {"ok", "reverted", "stranded", "wasted"}
        /\ x.kind = "approve" => Outcome(x) = "ok"
        /\ x.who = Dev => Outcome(x) \in {"ok", "reverted"}
        /\ Outcome(x) = "stranded" => path[x.try] = "native"
        /\ Outcome(x) = "wasted" => path[x.try] # "v1"
        /\ x.kind = "act" /\ Exists(x.try) => Outcome(x) \in {"ok", "reverted"}
    BY <1>1, TxTypes DEF Outcome
  <2>5. ~ran(x)
    BY <1>1, <1>3, <2>3 DEF Executed
  <2>6. \A y \in Txs : /\ at'[y] <= done' /\ (at'[y] > 0 <=> out'[y] # "none")
                       /\ at'[y] > 0 => Nonce(y)' < count'[y.who]
    <3>. SUFFICES ASSUME NEW y \in Txs
                  PROVE  /\ at'[y] <= done' /\ (at'[y] > 0 <=> out'[y] # "none")
                         /\ at'[y] > 0 => Nonce(y)' < count'[y.who]
      OBVIOUS
    <3>1. CASE y = x
      BY <1>1, <1>3, <2>1, <2>2, <2>3, <2>4, <3>1
    <3>2. CASE y # x
      <4>1. /\ at'[y] = at[y] /\ out'[y] = out[y] /\ (at[y] > 0 <=> out[y] # "none")
            /\ (at[y] > 0 => Nonce(y) < count[y.who]) /\ count'[y.who] >= count[y.who]
            /\ count'[y.who] \in Nat
        BY <2>2, <2>3, <3>2 DEF Executed, ran
      <4>. QED BY <2>1, <2>3, <4>1
    <3>. QED BY <3>1, <3>2
  <2>7. \A y, z \in Txs : at'[y] > 0 /\ at'[y] = at'[z] => y = z
    <3>. SUFFICES ASSUME NEW y \in Txs, NEW z \in Txs, at'[y] > 0, at'[y] = at'[z] PROVE y = z
      OBVIOUS
    <3>. QED BY <2>2, <2>3 DEF Executed, ran
  <2>8. \A y \in Txs : /\ y.kind = "approve" => out'[y] \in {"none", "ok"}
                       /\ y.who = Dev => out'[y] \in {"none", "ok", "reverted"}
                       /\ out'[y] = "stranded" => path'[y.try] = "native"
                       /\ out'[y] = "wasted" => path'[y.try] # "v1"
    BY <2>1, <2>2, <2>4 DEF Executed
  <2>9. ASSUME NEW t \in Try, NEW w \in Wallets, Exists(t)', at'[Buy(t, w)] > at'[Launch(t)]
        PROVE  out'[Buy(t, w)] \in {"ok", "reverted"}
    <3>. DEFINE y == Buy(t, w)  z == Launch(t)
    <3>1. y \in Txs /\ z \in Txs /\ y # z /\ y.kind = "act" /\ y.try = t
      BY TxTypes DEF Buy
    <3>2. out'[z] = "ok" /\ at'[y] > at'[z]
      BY <2>9 DEF Exists
    <3>3. CASE y = x
      <4>1. Exists(x.try)
        BY <2>2, <3>1, <3>2, <3>3 DEF Exists
      <4>. QED BY <2>2, <2>4, <3>1, <3>3, <4>1
    <3>4. CASE z = x
      BY <2>2, <2>3, <3>1, <3>2, <3>4
    <3>5. CASE y # x /\ z # x
      BY <2>2, <3>1, <3>2, <3>5 DEF Executed, Exists
    <3>. QED BY <3>3, <3>4, <3>5
  <2>. QED BY <2>6, <2>7, <2>8, <2>9 DEF Executed, ran
<1>. QED BY <1>2, <1>3

LEMMA StepExecuted ==
  ASSUME TypeOK, TypeOK', Posted, Executed, [Next]_vars
  PROVE  Executed'
<1>0. PlanKept
  BY StepPlanKept
<1>1. CASE UNCHANGED <<at, out, done, count>>
  <2>1. \A a \in Who : count'[a] >= count[a]
    BY <1>1 DEF TypeOK
  <2>. QED BY <1>0, <1>1, <2>1, ExecutedStays
<1>2. ASSUME NEW t \in Try, Working(t) PROVE Executed'
  BY <1>1, <1>2, WorkingMoves DEF Moves, chain
<1>3. ASSUME NEW t \in Try, Prepare(t) \/ Sign(t) PROVE Executed'
  BY <1>1, <1>3 DEF Prepare, Sign, chain
<1>4. ASSUME NEW t \in Try, NEW p \in Paths, Request(t, p) PROVE Executed'
  BY <1>1, <1>4 DEF Request, chain
<1>5. ASSUME NEW x \in Txs, Arrive(x) \/ GivesUp(x) PROVE Executed'
  BY <1>1, <1>5 DEF Arrive, GivesUp, chain
<1>6. ASSUME NEW i \in DOMAIN queue, Execute(i) PROVE Executed'
  BY <1>6, ExecuteExecuted
<1>7. CASE Tick \/ Drift \/ Crash \/ UNCHANGED vars
  BY <1>1, <1>7 DEF Tick, Drift, Crash, chain, vars
<1>. QED BY <1>2, <1>3, <1>4, <1>5, <1>6, <1>7 DEF Next, Handler, Working

-----------------------------------------------------------------------------
(* What the reports rest on                                                *)

\* What has been executed is final, and what is executed now comes after it.
Final == \A x \in Txs : IF ran(x) THEN at'[x] = at[x] /\ out'[x] = out[x]
                                  ELSE at'[x] = 0 \/ at'[x] > done

LEMMA StepFinal ==
  ASSUME TypeOK, Posted, Executed, [Next]_vars
  PROVE  Final
<1>1. CASE UNCHANGED <<at, out>>
  BY <1>1 DEF Final, ran, TypeOK
<1>2. ASSUME NEW t \in Try, Working(t) PROVE Final
  BY <1>1, <1>2, WorkingMoves DEF Moves, chain
<1>3. ASSUME NEW t \in Try, Prepare(t) \/ Sign(t) PROVE Final
  BY <1>1, <1>3 DEF Prepare, Sign, chain
<1>4. ASSUME NEW t \in Try, NEW p \in Paths, Request(t, p) PROVE Final
  BY <1>1, <1>4 DEF Request, chain
<1>5. ASSUME NEW x \in Txs, Arrive(x) \/ GivesUp(x) PROVE Final
  BY <1>1, <1>5 DEF Arrive, GivesUp, chain
<1>6. ASSUME NEW i \in DOMAIN queue, Execute(i) PROVE Final
  <2>. DEFINE x == queue[i]
  <2>1. x \in Txs /\ count[x.who] \in Nat /\ Nonce(x) \in Nat
    BY TxTypes, NonceType DEF TypeOK
  <2>2. CASE Nonce(x) = count[x.who]
    <3>1. ~ran(x)
      BY <2>1, <2>2 DEF Executed
    <3>2. at' = [at EXCEPT ![x] = done + 1] /\ out' = [out EXCEPT ![x] = Outcome(x)]
      BY <1>6, <2>2 DEF Execute
    <3>. HIDE DEF x
    <3>3. done \in Nat /\ \A y \in Txs : at[y] \in Nat /\ at'[y] = IF y = x THEN done + 1 ELSE at[y]
      BY <2>1, <3>2 DEF TypeOK
    <3>4. \A y \in Txs : y # x => out'[y] = out[y]
      BY <3>2 DEF TypeOK
    <3>. QED BY <3>1, <3>3, <3>4 DEF Final, ran
  <2>3. CASE Nonce(x) # count[x.who]
    BY <1>1, <1>6, <2>3 DEF Execute
  <2>. QED BY <2>2, <2>3
<1>7. CASE Tick \/ Drift \/ Crash \/ UNCHANGED vars
  BY <1>1, <1>7 DEF Tick, Drift, Crash, chain, vars
<1>. QED BY <1>2, <1>3, <1>4, <1>5, <1>6, <1>7 DEF Next, Handler, Working

\* The parts of Reported, by launch.
Claims(t) ==
  /\ report[t][Dev] \in {"confirmed", "reverted"} => ran(Launch(t))
  /\ report[t][Dev] = "confirmed" => Exists(t)
  /\ \A w \in Wallets : report[t][w] = "confirmed" => out[Buy(t, w)] \notin {"none", "reverted"}
Shown(t) ==
  \A w \in Wallets :
    path[t] # "v1" /\ w \notin flagged[t] /\ report[t][w] \in {"confirmed", "pending"} =>
      /\ report[t][Dev] = "confirmed"
      /\ report[t][w] = "confirmed" => at[Buy(t, w)] >= at[Launch(t)]

LEMMA ReportedIs == Reported <=> \A t \in Try : Claims(t) /\ (pc[t] = "done" => Shown(t))
BY DEF Reported, Claims, Shown

LEMMA ClaimsStay ==
  ASSUME TypeOK, TypeOK', Executed, Reported, Final, NEW t \in Try, report'[t] = report[t]
  PROVE  Claims(t)'
<1>1. Claims(t)
  BY ReportedIs
<1>2. Launch(t) \in Txs /\ \A w \in Wallets : Buy(t, w) \in Txs
  BY TxTypes
<1>3. \A x \in Txs : ran(x) => at'[x] > 0
  BY DEF Final, ran
<1>4. report[t][Dev] \in {"confirmed", "reverted"} => at'[Launch(t)] > 0
  BY <1>1, <1>2, <1>3 DEF Claims
<1>5. report[t][Dev] = "confirmed" => out'[Launch(t)] = "ok"
  BY <1>1, <1>2 DEF Claims, Exists, Final
<1>6. \A w \in Wallets : report[t][w] = "confirmed" => out'[Buy(t, w)] \notin {"none", "reverted"}
  BY <1>1, <1>2 DEF Claims, Executed, Final
<1>. QED BY <1>4, <1>5, <1>6 DEF Claims, ran, Exists

LEMMA ShownStays ==
  ASSUME TypeOK, Executed, Reported, Final, NEW t \in Try, pc[t] = "done",
         report'[t] = report[t], flagged'[t] = flagged[t], path'[t] = path[t]
  PROVE  Shown(t)'
<1>1. Claims(t) /\ Shown(t)
  BY ReportedIs
<1>2. Launch(t) \in Txs /\ \A w \in Wallets : Buy(t, w) \in Txs
  BY TxTypes
<1>3. report[t][Dev] = "confirmed" => at'[Launch(t)] = at[Launch(t)]
  BY <1>1, <1>2 DEF Claims, Final
<1>4. \A w \in Wallets : report[t][w] = "confirmed" => at'[Buy(t, w)] = at[Buy(t, w)]
  BY <1>1, <1>2 DEF Claims, Executed, Final
<1>. QED BY <1>1, <1>3, <1>4 DEF Shown

LEMMA StepUnasked ==
  ASSUME TypeOK, Unasked, [Next]_vars
  PROVE  Unasked'
<1>1. CASE /\ UNCHANGED told
           /\ \A t \in Try : pc'[t] \notin Ended \cup {"results"} => pc[t] \notin Ended \cup {"results"}
  BY <1>1 DEF Unasked, told
<1>2. ASSUME NEW t \in Try, NEW l, pc[t] \in Steps \ {"results"}, pc' = [pc EXCEPT ![t] = l], UNCHANGED told
      PROVE  Unasked'
  BY <1>1, <1>2 DEF TypeOK, Steps, Ended
<1>3. ASSUME NEW t \in Try, Receipt(t) PROVE Unasked'
  <2>1. /\ pc'[t] \in {"threw", "results"}
        /\ \A u \in Try : u # t => pc'[u] = pc[u] /\ report'[u] = report[u]
    BY <1>3 DEF Receipt, Throw, Over, Goto, TypeOK
  <2>. QED BY <2>1 DEF Unasked, Ended
<1>4. ASSUME NEW t \in Try, NEW w \in Wallets, Results(t, w) PROVE Unasked'
  <2>1. /\ pc'[t] \in {"done", "results"}
        /\ \A u \in Try : u # t => pc'[u] = pc[u] /\ report'[u] = report[u]
    BY <1>4 DEF Results, Over, TypeOK
  <2>. QED BY <2>1 DEF Unasked, Ended
<1>5. ASSUME NEW t \in Try, Prepare(t) \/ Sign(t) \/ Recheck(t) \/ Hold(t) PROVE Unasked'
  <2>1. /\ pc[t] \in {"prepare", "sign", "recheck", "hold"} /\ UNCHANGED told
        /\ \E l : pc' = [pc EXCEPT ![t] = l]
    BY <1>5 DEF Prepare, Sign, Recheck, Hold, SendLaunch, Throw, Over, Goto
  <2>. QED BY <1>2, <2>1 DEF Steps
<1>6. ASSUME NEW t \in Try, Approved(t) \/ ReadBlock(t) \/ Launched(t) PROVE Unasked'
  <2>1. /\ pc[t] \in {"approving", "block", "launching"} /\ UNCHANGED told
        /\ \E l : pc' = [pc EXCEPT ![t] = l]
    BY <1>6 DEF Approved, ReadBlock, Launched, SendLaunch, SendBuys, Throw, Over, Goto
  <2>. QED BY <1>2, <2>1 DEF Steps
<1>7. ASSUME NEW t \in Try, Ticked(t) \/ Lead(t) \/ Burst(t) PROVE Unasked'
  <2>1. /\ pc[t] \in {"wait", "lead", "burst"} /\ UNCHANGED told
        /\ \E l : pc' = [pc EXCEPT ![t] = l]
    BY <1>7 DEF Ticked, Lead, Burst, SendBuys, Throw, Over, Goto
  <2>. QED BY <1>2, <2>1 DEF Steps
<1>8. ASSUME NEW t \in Try, NEW p \in Paths, Request(t, p) PROVE Unasked'
  <2>1. UNCHANGED told /\ pc[t] = "none" /\ \A u \in Try : u # t => pc'[u] = pc[u]
    BY <1>8 DEF Request, TypeOK
  <2>. QED BY <1>1, <2>1 DEF Ended
<1>9. ASSUME NEW x \in Txs, Arrive(x) \/ GivesUp(x) PROVE Unasked'
  BY <1>1, <1>9 DEF Arrive, GivesUp
<1>10. ASSUME NEW i \in DOMAIN queue, Execute(i) PROVE Unasked'
  BY <1>1, <1>10 DEF Execute
<1>11. CASE Tick \/ Drift \/ UNCHANGED vars
  BY <1>1, <1>11 DEF Tick, Drift, vars
<1>12. CASE Crash
  <2>1. UNCHANGED told /\ \A u \in Try : pc'[u] = IF pc[u] \in Steps THEN "gone" ELSE pc[u]
    BY <1>12 DEF Crash
  <2>. QED BY <1>1, <2>1 DEF Ended
<1>. QED
  BY <1>3, <1>4, <1>5, <1>6, <1>7, <1>8, <1>9, <1>10, <1>11, <1>12 DEF Next, Handler

LEMMA ReceiptReported ==
  ASSUME TypeOK, TypeOK', Executed, Unasked, Reported, NEW t \in Try, Receipt(t)
  PROVE  Reported'
<1>1. /\ Final /\ UNCHANGED <<chain, path, flagged>> /\ pc[t] = "receipt"
      /\ \A u \in Try : u # t => pc'[u] = pc[u] /\ report'[u] = report[u]
      /\ pc'[t] # "done"
  BY DEF Final, ran, Receipt, plans, chain, Throw, Over, Goto, TypeOK
<1>2. \A u \in Try : u # t => Claims(u)' /\ (pc'[u] = "done" => Shown(u)')
  BY <1>1, ClaimsStay, ShownStays
<1>3. Claims(t)'
  <2>1. CASE report' = report
    BY <1>1, <2>1, ClaimsStay
  <2>2. ASSUME NEW s \in Statuses(Launch(t)), report' = [report EXCEPT ![t][Dev] = s]
        PROVE  Claims(t)'
    <3>1. report'[t][Dev] = s /\ \A w \in Wallets : report'[t][w] = report[t][w]
      BY <2>2, TxTypes DEF TypeOK
    <3>2. Launch(t) \in Txs /\ Launch(t).who = Dev
      BY TxTypes DEF Launch
    <3>3. Claims(t)
      BY ReportedIs
    <3>4. /\ s \in {"confirmed", "reverted"} => ran(Launch(t))
          /\ s = "confirmed" => Exists(t)
      BY <3>2 DEF Statuses, Executed, Exists
    <3>5. \A w \in Wallets : report'[t][w] = "none"
      BY <1>1, <3>1 DEF Unasked, Ended
    <3>. QED BY <1>1, <3>1, <3>3, <3>4, <3>5 DEF Claims, ran, Exists, chain
  <2>. QED BY <2>1, <2>2 DEF Receipt
<1>. QED BY <1>1, <1>2, <1>3 DEF Reported, Claims, Shown

LEMMA ResultsReported ==
  ASSUME TypeOK, TypeOK', Executed, Reported, NEW t \in Try, NEW w \in Wallets, Results(t, w)
  PROVE  Reported'
<1>0. PICK s \in Statuses(Buy(t, w)) \cup {"failed"} :
        LET r == [report[t] EXCEPT ![w] = s]
        IN  /\ report' = [report EXCEPT ![t] = r]
            /\ IF \A v \in Wallets : r[v] # "none"
               THEN Over(t, "done") /\ flagged' = [flagged EXCEPT ![t] = Flags(t, r)]
               ELSE UNCHANGED <<pc, launching, flagged>>
  BY DEF Results
<1>. DEFINE r == [report[t] EXCEPT ![w] = s]
<1>1. /\ Final /\ UNCHANGED <<chain, path>> /\ pc[t] = "results"
      /\ report' = [report EXCEPT ![t] = r]
      /\ \/ pc' = [pc EXCEPT ![t] = "done"] /\ flagged' = [flagged EXCEPT ![t] = Flags(t, r)]
         \/ UNCHANGED <<pc, flagged>>
  BY <1>0 DEF Final, ran, Results, plans, chain, Over, TypeOK
<1>2. s = "confirmed" => out[Buy(t, w)] \notin {"none", "reverted"}
  <2>1. Buy(t, w) \in Txs /\ (ran(Buy(t, w)) => out[Buy(t, w)] # "none")
    BY TxTypes DEF Executed
  <2>. QED BY <2>1 DEF Statuses
<1>3. /\ r[Dev] = report[t][Dev] /\ r[w] = s /\ \A v \in Wallets : v # w => r[v] = report[t][v]
  <2>1. DOMAIN report[t] = Who /\ w \in Who /\ Dev \in Who /\ w # Dev /\ Wallets \subseteq Who
    BY TxTypes DEF TypeOK
  <2>. QED BY <2>1
<1>. HIDE DEF r
<1>4. /\ \A u \in Try : u # t => pc'[u] = pc[u] /\ report'[u] = report[u] /\ flagged'[u] = flagged[u]
      /\ report'[t] = r
      /\ pc'[t] = "done" => flagged'[t] = Flags(t, r)
  BY <1>1 DEF TypeOK
<1>5. \A u \in Try : u # t => Claims(u)' /\ (pc'[u] = "done" => Shown(u)')
  BY <1>1, <1>4, ClaimsStay, ShownStays
<1>6. Claims(t)'
  <2>1. Claims(t)
    BY ReportedIs
  <2>. QED BY <1>1, <1>2, <1>3, <1>4, <2>1 DEF Claims, ran, Exists, chain
<1>7. pc'[t] = "done" => Shown(t)'
  <2>. SUFFICES ASSUME pc'[t] = "done", NEW v \in Wallets, path[t] # "v1", v \notin Flags(t, r),
                       r[v] \in {"confirmed", "pending"}
                PROVE  r[Dev] = "confirmed" /\ (r[v] = "confirmed" => at[Buy(t, v)] >= at[Launch(t)])
    BY <1>1, <1>4 DEF Shown, chain
  <2>1. r[Dev] = "confirmed"
    BY DEF Flags, Exposed
  <2>2. at[Buy(t, v)] \in Nat /\ at[Launch(t)] \in Nat
    BY TxTypes DEF TypeOK
  <2>3. r[v] = "confirmed" => ~(at[Buy(t, v)] < at[Launch(t)])
    BY <2>1 DEF Flags, Ahead
  <2>. QED BY <2>1, <2>2, <2>3
<1>. QED BY <1>5, <1>6, <1>7 DEF Reported, Claims, Shown

LEMMA StepReported ==
  ASSUME TypeOK, TypeOK', Posted, Executed, Unasked, Reported, [Next]_vars
  PROVE  Reported'
<1>0. Final
  BY StepFinal
<1>1. CASE /\ UNCHANGED told
           /\ \A t \in Try : pc'[t] = "done" => pc[t] = "done" /\ path'[t] = path[t]
  <2>1. \A t \in Try : Claims(t)' /\ (pc'[t] = "done" => Shown(t)')
    BY <1>0, <1>1, ClaimsStay, ShownStays DEF told
  <2>. QED BY <2>1 DEF Reported, Claims, Shown
<1>2. ASSUME NEW t \in Try, Working(t) PROVE Reported'
  <2>1. CASE Receipt(t) \/ \E w \in Wallets : Results(t, w)
    BY <2>1, ReceiptReported, ResultsReported
  <2>2. CASE ~(Receipt(t) \/ \E w \in Wallets : Results(t, w))
    <3>1. UNCHANGED told /\ pc'[t] # "done"
      BY <1>2, <2>2, WorkingReports
    <3>2. UNCHANGED path /\ \A u \in Try : u # t => pc'[u] = pc[u]
      <4>1. PICK l \in Steps \cup Ended, S \in SUBSET Txs : Moves(t, l, S)
        BY <1>2, WorkingMoves
      <4>. QED BY <4>1 DEF Moves, TypeOK
    <3>. QED BY <1>1, <3>1, <3>2
  <2>. QED BY <2>1, <2>2
<1>3. ASSUME NEW t \in Try, Prepare(t) \/ Sign(t) PROVE Reported'
  <2>1. UNCHANGED told /\ UNCHANGED path /\ pc'[t] # "done" /\ \A u \in Try : u # t => pc'[u] = pc[u]
    BY <1>3 DEF Prepare, Sign, Throw, Over, Goto, TypeOK
  <2>. QED BY <1>1, <2>1
<1>4. ASSUME NEW t \in Try, NEW p \in Paths, Request(t, p) PROVE Reported'
  <2>1. UNCHANGED told /\ pc'[t] # "done" /\ \A u \in Try : u # t => pc'[u] = pc[u] /\ path'[u] = path[u]
    BY <1>4 DEF Request, TypeOK
  <2>. QED BY <1>1, <2>1
<1>5. ASSUME NEW x \in Txs, Arrive(x) \/ GivesUp(x) PROVE Reported'
  BY <1>1, <1>5 DEF Arrive, GivesUp, plans
<1>6. ASSUME NEW i \in DOMAIN queue, Execute(i) PROVE Reported'
  BY <1>1, <1>6 DEF Execute, plans
<1>7. CASE Tick \/ Drift \/ UNCHANGED vars
  BY <1>1, <1>7 DEF Tick, Drift, plans, vars
<1>8. CASE Crash
  <2>1. UNCHANGED <<told, path>> /\ \A u \in Try : pc'[u] = "done" => pc[u] = "done"
    BY <1>8 DEF Crash, plans, TypeOK
  <2>. QED BY <1>1, <2>1
<1>. QED BY <1>2, <1>3, <1>4, <1>5, <1>6, <1>7, <1>8 DEF Next, Handler, Working

-----------------------------------------------------------------------------
(* The order of the queue                                                  *)

\* Places keep their order when one is taken out.
LEMMA PlacesInOrder ==
  ASSUME NEW n \in Nat, NEW i \in 1..n, NEW j \in 1..(n - 1), NEW k \in 1..(n - 1)
  PROVE  j < k <=> (IF j < i THEN j ELSE j + 1) < (IF k < i THEN k ELSE k + 1)
OBVIOUS

\* While a handler is at work no later launch has sent anything.
LEMMA LaterUnsent ==
  ASSUME TypeOK, Lock, Posted, NEW t \in Try, pc[t] \in Steps, NEW x \in Txs, x.try > t
  PROVE  req[x] = "unsent"
BY Locations, TxTypes DEF Posted, Before

\* A request that is answered was out, and its handler is at work.
LEMMA OutIsAtWork ==
  ASSUME Posted, NEW x \in Txs, req[x] = "out"
  PROVE  pc[x.try] \in Steps
BY DEF Posted, OutAt, Steps

LEMMA InOrderStays ==
  ASSUME TypeOK, Posted, InOrder, PlanKept, UNCHANGED queue,
         \A x \in Txs : req'[x] = "sent" => req[x] = "sent"
  PROVE  InOrder'
<1>1. \A k \in DOMAIN queue : queue[k] \in Txs /\ path'[queue[k].try] = path[queue[k].try]
  BY DEF TypeOK, Posted, PlanKept
<1>2. \A j, k \in DOMAIN queue : \A t \in Try :
        queue[j] = Launch(t) /\ req'[Launch(t)] = "sent" /\ queue[k].try > t => j < k
  BY TxTypes DEF InOrder
<1>3. \A i, j \in DOMAIN queue : \A t \in Try, w \in Wallets :
        path'[t] = "native" /\ queue[i] = Buy(t, w) /\ queue[j] = Launch(t) => j < i
  BY <1>1 DEF InOrder, Buy
<1>. QED BY <1>2, <1>3 DEF InOrder

LEMMA InOrderGrows ==
  ASSUME TypeOK, Lock, Posted, InOrder, NEW x \in Txs, Arrive(x), queue' = Append(queue, x),
         Answer(x, "sent")
  PROVE  InOrder'
<1>. DEFINE p == Append(queue, x)  n == Len(queue)
<1>1. /\ n \in Nat /\ DOMAIN queue = 1..n /\ DOMAIN p = 1..(n + 1) /\ p[n + 1] = x
      /\ \A k \in 1..n : p[k] = queue[k] /\ queue[k] \in Txs
  BY DEF TypeOK
<1>. HIDE DEF p, n
<1>2. /\ UNCHANGED path /\ x \in onway
      /\ \A y \in Txs : req'[y] = IF y = x /\ req[x] = "out" THEN "sent" ELSE req[y]
  BY DEF Arrive, plans, Answer, TypeOK
<1>3. ASSUME NEW j \in 1..(n + 1), NEW k \in 1..(n + 1), NEW t \in Try,
             p[j] = Launch(t), req'[Launch(t)] = "sent", p[k].try > t
      PROVE  j < k
  <2>1. CASE req[Launch(t)] = "sent"
    <3>1. Launch(t) # x
      BY <1>2, <2>1, TxTypes DEF Posted
    <3>2. j \in 1..n
      BY <1>1, <1>3, <3>1
    <3>3. CASE k = n + 1
      BY <1>1, <3>2, <3>3
    <3>4. CASE k \in 1..n
      BY <1>1, <1>3, <2>1, <3>2, <3>4 DEF InOrder
    <3>. QED BY <1>1, <3>3, <3>4
  <2>2. CASE req[Launch(t)] # "sent"
    <3>1. x = Launch(t) /\ req[x] = "out" /\ x.try = t
      BY <1>2, <1>3, <2>2, TxTypes DEF Launch
    <3>2. \A y \in Txs : y.try > t => req[y] = "unsent"
      BY <3>1, OutIsAtWork, LaterUnsent
    <3>3. k # n + 1
      <4>1. t \in Nat
        BY DEF Try
      <4>. QED BY <1>1, <1>3, <3>1, <4>1
    <3>4. k \in 1..n /\ p[k] = queue[k] /\ queue[k] \in Txs /\ req[queue[k]] # "unsent"
      BY <1>1, <3>3 DEF Posted
    <3>. QED BY <1>3, <3>2, <3>4
  <2>. QED BY <2>1, <2>2
<1>4. ASSUME NEW i \in 1..(n + 1), NEW j \in 1..(n + 1), NEW t \in Try, NEW w \in Wallets,
             path[t] = "native", p[i] = Buy(t, w), p[j] = Launch(t)
      PROVE  j < i
  <2>1. CASE j \in 1..n
    <3>1. CASE i = n + 1
      BY <1>1, <2>1, <3>1
    <3>2. CASE i \in 1..n
      BY <1>1, <1>4, <2>1, <3>2 DEF InOrder
    <3>. QED BY <1>1, <3>1, <3>2
  <2>2. CASE j = n + 1
    <3>1. x = Launch(t) /\ i \in 1..n
      BY <1>1, <1>4, <2>2, TxTypes
    <3>2. req[Buy(t, w)] # "unsent"
      BY <1>1, <1>4, <3>1 DEF Posted
    <3>3. req[Launch(t)] = "sent"
      BY <1>4, <3>2, TxTypes DEF Posted, Buy
    <3>. QED BY <1>2, <3>1, <3>3 DEF Posted
  <2>. QED BY <1>1, <2>1, <2>2
<1>5. queue' = p
  BY DEF p
<1>. QED BY <1>1, <1>2, <1>3, <1>4, <1>5 DEF InOrder

LEMMA InOrderShrinks ==
  ASSUME TypeOK, InOrder, NEW i \in DOMAIN queue, Execute(i)
  PROVE  InOrder'
<1>. DEFINE n == Len(queue)  old(j) == IF j < i THEN j ELSE j + 1
<1>1. /\ UNCHANGED <<path, req>> /\ n \in Nat /\ i \in 1..n /\ DOMAIN queue = 1..n
      /\ DOMAIN queue' = 1..(n - 1) /\ \A j \in 1..(n - 1) : queue'[j] = queue[old(j)]
  <2>1. UNCHANGED <<path, req>> /\ queue' = Without(i) /\ queue \in Seq(Txs)
    BY DEF Execute, wire, plans, TypeOK
  <2>2. /\ Len(queue) \in Nat /\ i \in 1..Len(queue)
        /\ Without(i) \in Seq(Txs) /\ Len(Without(i)) = Len(queue) - 1
        /\ \A j \in 1..(Len(queue) - 1) : Without(i)[j] = queue[IF j < i THEN j ELSE j + 1]
    BY WithoutIs
  <2>3. DOMAIN queue = 1..Len(queue) /\ DOMAIN queue' = 1..(Len(queue) - 1)
    BY <2>1, <2>2
  <2>. QED BY <2>1, <2>2, <2>3
<1>. HIDE DEF n
<1>2. \A j \in 1..(n - 1) : old(j) \in 1..n
  BY <1>1, OldPlace
<1>3. \A j, k \in 1..(n - 1) : j < k <=> old(j) < old(k)
  BY <1>1, PlacesInOrder
<1>. HIDE DEF old
<1>. QED BY <1>1, <1>2, <1>3 DEF InOrder

LEMMA StepInOrder ==
  ASSUME TypeOK, Lock, Posted, InOrder, [Next]_vars
  PROVE  InOrder'
<1>0. PlanKept
  BY StepPlanKept
<1>1. ASSUME NEW t \in Try, Working(t) PROVE InOrder'
  <2>1. PICK l \in Steps \cup Ended, S \in SUBSET Txs : Moves(t, l, S)
    BY <1>1, WorkingMoves
  <2>2. UNCHANGED queue /\ \A x \in Txs : req'[x] = "sent" => req[x] = "sent"
    BY <2>1 DEF Moves, chain
  <2>. QED BY <1>0, <2>2, InOrderStays
<1>2. CASE UNCHANGED <<queue, req>>
  BY <1>0, <1>2, InOrderStays
<1>3. ASSUME NEW t \in Try, Prepare(t) \/ Sign(t) PROVE InOrder'
  BY <1>2, <1>3 DEF Prepare, Sign, Throw, chain, wire
<1>4. ASSUME NEW t \in Try, NEW p \in Paths, Request(t, p) PROVE InOrder'
  BY <1>2, <1>4 DEF Request, chain, wire
<1>5. ASSUME NEW x \in Txs, Arrive(x) PROVE InOrder'
  <2>1. CASE UNCHANGED queue /\ Answer(x, "failed")
    <3>1. \A y \in Txs : req'[y] = "sent" => req[y] = "sent"
      BY <2>1 DEF Answer, TypeOK
    <3>. QED BY <1>0, <2>1, <3>1, InOrderStays
  <2>2. CASE queue' = Append(queue, x) /\ Answer(x, "sent")
    BY <1>5, <2>2, InOrderGrows
  <2>. QED BY <1>5, <2>1, <2>2 DEF Arrive
<1>6. ASSUME NEW x \in Txs, GivesUp(x) PROVE InOrder'
  <2>1. UNCHANGED queue /\ \A y \in Txs : req'[y] = "sent" => req[y] = "sent"
    BY <1>6 DEF GivesUp, Answer, TypeOK, chain
  <2>. QED BY <1>0, <2>1, InOrderStays
<1>7. ASSUME NEW i \in DOMAIN queue, Execute(i) PROVE InOrder'
  BY <1>7, InOrderShrinks
<1>8. CASE Tick \/ Drift \/ UNCHANGED vars
  BY <1>2, <1>8 DEF Tick, Drift, vars, chain, wire
<1>9. CASE Crash
  <2>1. UNCHANGED queue /\ \A y \in Txs : req'[y] = "sent" => req[y] = "sent"
    BY <1>9 DEF Crash, TypeOK, chain
  <2>. QED BY <1>0, <2>1, InOrderStays
<1>. QED
  BY <1>1, <1>3, <1>4, <1>5, <1>6, <1>7, <1>8, <1>9 DEF Next, Handler, Working

-----------------------------------------------------------------------------
(* What earlier launches leave in doubt                                    *)

\* What a launch's record can do in a step: what was sent was sent, an ended handler says
\* no more, and what a launch rests on is read in prepare, at or above what has run.
History ==
  /\ \A x \in Txs : req[x] # "unsent" => req'[x] # "unsent"
  /\ \A u \in Try : pc[u] \notin Steps => report'[u] = report[u]
  /\ \A u \in Try : pc[u] \in Ended => pc'[u] = pc[u]
  /\ \A t \in Try : Begun(t)' => \/ Begun(t) /\ base'[t][Dev] = base[t][Dev]
                                 \/ pc[t] \in Steps /\ base'[t][Dev] >= count[Dev]
  /\ \A x \in Txs : req'[x] = "sent" /\ req[x] # "sent" =>
       req[x] = "out" /\ UNCHANGED count /\ Nonce(x) >= count[x.who]

LEMMA WorkingHistory ==
  ASSUME TypeOK, Posted, NEW t \in Try, Working(t)
  PROVE  History
<1>1. PICK l \in Steps \cup Ended, S \in SUBSET Txs : Moves(t, l, S)
  BY WorkingMoves
<1>2. pc[t] \in Steps \ {"prepare", "sign"} /\ \A u \in Try : u # t => pc'[u] = pc[u]
  BY <1>1 DEF Moves, TypeOK
<1>3. /\ \A x \in Txs : req'[x] = IF x \in S THEN "out" ELSE req[x]
      /\ \A x \in S : x.try = t /\ UNCHANGED base
  BY <1>1 DEF Moves
<1>4. \A u \in Try : pc[u] \notin Steps => report'[u] = report[u]
  <2>1. CASE UNCHANGED told
    BY <2>1 DEF told
  <2>2. CASE Receipt(t)
    BY <1>2, <2>2 DEF Receipt, TypeOK
  <2>3. CASE \E w \in Wallets : Results(t, w)
    BY <1>2, <2>3 DEF Results, TypeOK
  <2>. QED BY <2>1, <2>2, <2>3, WorkingReports
<1>5. \A u \in Try : Begun(u)' => Begun(u) /\ base'[u][Dev] = base[u][Dev]
  <2>1. UNCHANGED base
    BY <1>1 DEF Moves
  <2>2. \A u \in Try : Launch(u) \in S => u = t
    BY <1>3 DEF Launch
  <2>3. \A u \in Try : u # t => req'[Launch(u)] = req[Launch(u)]
    BY <1>3, <2>2, TxTypes
  <2>. QED BY <1>2, <2>1, <2>3 DEF Begun
<1>6. \A u \in Try : pc[u] \in Ended => pc'[u] = pc[u]
  BY <1>2 DEF Steps, Ended
<1>. QED BY <1>3, <1>4, <1>5, <1>6 DEF History

LEMMA PrepareHistory ==
  ASSUME TypeOK, Posted, NEW t \in Try, Prepare(t) \/ Sign(t)
  PROVE  History
<1>1. /\ pc[t] \in {"prepare", "sign"} /\ UNCHANGED <<req, report>>
      /\ \A u \in Try : u # t => pc'[u] = pc[u] /\ base'[u] = base[u]
  BY DEF Prepare, Sign, Throw, Over, Goto, wire, told, TypeOK
<1>2. CASE Sign(t)
  <2>1. base'[t][Dev] = base[t][Dev] /\ pc[t] = "sign"
    <3>1. CASE UNCHANGED base
      BY <1>2, <3>1 DEF Sign
    <3>2. ASSUME NEW b \in [Wallets -> Counts],
                 base' = [base EXCEPT ![t] = [a \in Who |-> IF a = Dev THEN @[Dev] ELSE b[a]]]
          PROVE  base'[t][Dev] = base[t][Dev]
      BY <3>2, TxTypes DEF TypeOK
    <3>. QED BY <1>2, <3>1, <3>2 DEF Sign
  <2>. QED BY <1>1, <2>1 DEF History, Begun, Steps, Ended
<1>3. CASE Prepare(t)
  <2>1. CASE Throw(t) /\ UNCHANGED base
    <3>1. pc'[t] = "threw"
      BY <2>1 DEF Throw, Over, TypeOK
    <3>. QED BY <1>1, <2>1, <3>1 DEF History, Begun, Steps, Ended
  <2>2. ASSUME NEW n \in Counts, Reads(Dev, n), base' = [base EXCEPT ![t][Dev] = n] PROVE History
    <3>1. base'[t][Dev] = n /\ n >= count[Dev]
      BY <2>2, TxTypes DEF Reads, TypeOK, Counts
    <3>. QED BY <1>1, <3>1 DEF History, Begun, Steps, Ended
  <2>. QED BY <1>3, <2>1, <2>2 DEF Prepare
<1>. QED BY <1>2, <1>3

LEMMA StepHistory ==
  ASSUME TypeOK, Posted, [Next]_vars
  PROVE  History
<1>1. ASSUME NEW t \in Try, Working(t) PROVE History
  BY <1>1, WorkingHistory
<1>2. ASSUME NEW t \in Try, Prepare(t) \/ Sign(t) PROVE History
  BY <1>2, PrepareHistory
<1>3. ASSUME NEW t \in Try, NEW p \in Paths, Request(t, p) PROVE History
  <2>1. /\ UNCHANGED <<req, report, base>> /\ pc[t] = "none" /\ pc'[t] = "prepare"
        /\ \A u \in Try : u # t => pc'[u] = pc[u]
    BY <1>3 DEF Request, wire, told, TypeOK
  <2>. QED BY <2>1 DEF History, Begun, Steps, Ended
<1>4. CASE /\ UNCHANGED <<pc, report, base>> /\ \A x \in Txs : req'[x] = "unsent" <=> req[x] = "unsent"
           /\ \A x \in Txs : req'[x] = "sent" /\ req[x] # "sent" =>
                req[x] = "out" /\ UNCHANGED count /\ Nonce(x) >= count[x.who]
  BY <1>4, TxTypes DEF History, Begun
<1>5. ASSUME NEW x \in Txs, Arrive(x) PROVE History
  <2>1. \A y \in Txs : req'[y] = req[y] \/ (y = x /\ req[x] = "out" /\ req'[y] \in {"sent", "failed"})
    BY <1>5 DEF Arrive, Answer, TypeOK
  <2>2. \A y \in Txs : req'[y] = "sent" /\ req[y] # "sent" => y = x /\ Nonce(x) >= count[x.who]
    BY <1>5 DEF Arrive, Answer, TypeOK
  <2>. QED BY <1>4, <1>5, <2>1, <2>2 DEF Arrive, told, plans
<1>6. ASSUME NEW x \in Txs, GivesUp(x) PROVE History
  <2>1. \A y \in Txs : req'[y] = req[y] \/ (y = x /\ req[x] = "out" /\ req'[y] = "failed")
    BY <1>6 DEF GivesUp, Answer, TypeOK
  <2>. QED BY <1>4, <1>6, <2>1 DEF GivesUp, told, plans
<1>7. ASSUME NEW i \in DOMAIN queue, Execute(i) PROVE History
  BY <1>4, <1>7 DEF Execute, told, plans, wire
<1>8. CASE Tick \/ Drift \/ UNCHANGED vars
  BY <1>4, <1>8 DEF Tick, Drift, vars, told, plans, wire
<1>9. CASE Crash
  <2>1. /\ \A y \in Txs : req'[y] = IF req[y] = "out" THEN "failed" ELSE req[y]
        /\ \A u \in Try : pc'[u] = (IF pc[u] \in Steps THEN "gone" ELSE pc[u])
        /\ UNCHANGED <<report, base>>
    BY <1>9 DEF Crash, told, plans, TypeOK
  <2>. QED BY <2>1, TxTypes DEF History, Begun, Steps, Ended
<1>. QED
  BY <1>1, <1>2, <1>3, <1>5, <1>6, <1>7, <1>8, <1>9 DEF Next, Handler, Working

\* Doubt is not lifted.
LEMMA DoubtStays ==
  ASSUME History, NEW u \in Try, InDoubt(u)
  PROVE  InDoubt(u)'
<1>1. pc'[u] \in Ended /\ report'[u] = report[u]
  BY DEF History, InDoubt, Steps, Ended
<1>2. \E x \in {Launch(u), Approve(u, Dev)} : req'[x] # "unsent"
  BY TxTypes DEF History, InDoubt
<1>. QED BY <1>1, <1>2 DEF InDoubt

\* What takes the nonce of a native launch that was answered is of a launch in doubt.
LEMMA Overtaken ==
  ASSUME TypeOK, Lock, Posted, NoGap, InOrder, Doubts, NEW i \in DOMAIN queue, IsNext(i),
         NEW t \in Try, path[t] = "native", req[Launch(t)] = "sent", queue[i] # Launch(t),
         queue[i].who = Dev, Nonce(queue[i]) = count[Dev], Nonce(Launch(t)) = count[Dev]
  PROVE  \E u \in Try : u < t /\ InDoubt(u)
<1>. DEFINE y == queue[i]  u == y.try
<1>1. /\ y \in Txs /\ req[y] # "unsent" /\ u \in Try /\ y.kind \in {"approve", "act"}
      /\ count[Dev] \in Nat /\ Launch(t) \in Txs /\ Launch(t).who = Dev /\ Launch(t).try = t
      /\ t \in Int /\ u \in Int
  BY TxTypes DEF TypeOK, Posted, Launch, Try
<1>2. \A j \in DOMAIN queue : queue[j] = Launch(t) => i < j
  <2>. SUFFICES ASSUME NEW j \in DOMAIN queue, queue[j] = Launch(t) PROVE i < j
    OBVIOUS
  <2>1. Ready(j)
    BY <1>1 DEF Ready
  <2>2. j \notin 1..(i - 1) /\ j # i
    BY <2>1 DEF IsNext
  <2>3. i \in 1..Len(queue) /\ j \in 1..Len(queue) /\ Len(queue) \in Nat
    BY DEF TypeOK
  <2>. QED BY <2>2, <2>3
<1>3. PICK j \in DOMAIN queue : queue[j] = Launch(t)
  <2>1. ~(Nonce(Launch(t)) < count[Launch(t).who])
    BY <1>1
  <2>. QED BY <1>1, <2>1 DEF NoGap
<1>4. ~(u > t)
  <2>1. i \in Int /\ j \in Int /\ i < j
    BY <1>2, <1>3 DEF TypeOK
  <2>2. u > t => j < i
    BY <1>3 DEF InOrder
  <2>. QED BY <2>1, <2>2
<1>5. y = Launch(u) \/ y = Approve(u, Dev)
  BY <1>1, TxTypes
<1>6. u # t
  <2>1. Dev \notin Approvers(t)
    BY DEF Approvers, Paired
  <2>. QED BY <1>1, <1>5, <2>1 DEF Posted, Approve
<1>7. u < t
  BY <1>1, <1>4, <1>6
<1>8. pc[u] \in Ended
  <2>1. pc[t] # "none"
    BY <1>1 DEF Posted, Before
  <2>. QED BY <1>1, <1>7, <2>1 DEF Lock
<1>9. report[u][Dev] \notin {"confirmed", "reverted"}
  <2>. SUFFICES ASSUME report[u][Dev] \in {"confirmed", "reverted"} PROVE FALSE
    OBVIOUS
  <2>1. Nonce(Launch(u)) < base[t][Dev]
    BY <1>1, <1>7 DEF Doubts, Begun
  <2>2. Nonce(Launch(t)) = base[t][Dev]
    <3>1. Dev \notin Approvers(t) /\ base[t][Dev] \in Nat
      BY TxTypes DEF Approvers, Paired, TypeOK
    <3>. QED BY <3>1 DEF Nonce, Launch
  <2>3. Nonce(y) <= Nonce(Launch(u))
    <3>1. base[u][Dev] \in Nat
      BY <1>1, TxTypes DEF TypeOK
    <3>2. Nonce(Launch(u)) \in {base[u][Dev], base[u][Dev] + 1}
      BY <3>1 DEF Nonce, Launch
    <3>3. Nonce(Approve(u, Dev)) = base[u][Dev]
      BY <3>1 DEF Nonce, Approve
    <3>. QED BY <1>5, <3>1, <3>2, <3>3
  <2>4. Nonce(Launch(u)) \in Nat
    BY <1>1, NonceType, TxTypes
  <2>. QED BY <1>1, <2>1, <2>2, <2>3, <2>4
<1>10. InDoubt(u)
  BY <1>1, <1>5, <1>8, <1>9 DEF InDoubt
<1>. QED BY <1>1, <1>7, <1>10

\* The count of a wallet moves when its next is executed, and with it that is run.
LEMMA CountMoves ==
  ASSUME TypeOK, Posted, [Next]_vars, NEW a \in Who, count'[a] # count[a]
  PROVE  \E i \in DOMAIN queue :
           /\ IsNext(i) /\ queue[i].who = a /\ Nonce(queue[i]) = count[a]
           /\ count'[a] = count[a] + 1 /\ at'[queue[i]] = done + 1
<1>1. ASSUME NEW i \in DOMAIN queue, Execute(i)
      PROVE  /\ IsNext(i) /\ queue[i].who = a /\ Nonce(queue[i]) = count[a]
             /\ count'[a] = count[a] + 1 /\ at'[queue[i]] = done + 1
  <2>1. queue[i] \in Txs /\ queue[i].who \in Who /\ IsNext(i)
    BY <1>1, TxTypes DEF TypeOK, Execute
  <2>2. /\ count' = [count EXCEPT ![queue[i].who] = @ + 1] /\ Nonce(queue[i]) = count[queue[i].who]
        /\ at' = [at EXCEPT ![queue[i]] = done + 1]
    BY <1>1 DEF Execute
  <2>. QED BY <2>1, <2>2 DEF TypeOK
<1>2. ASSUME NEW t \in Try, Working(t) PROVE FALSE
  BY <1>2, WorkingMoves DEF Moves, chain
<1>3. ASSUME NEW t \in Try, Prepare(t) \/ Sign(t) PROVE FALSE
  BY <1>3 DEF Prepare, Sign, chain
<1>4. ASSUME NEW t \in Try, NEW p \in Paths, Request(t, p) PROVE FALSE
  BY <1>4 DEF Request, chain
<1>5. ASSUME NEW x \in Txs, Arrive(x) \/ GivesUp(x) PROVE FALSE
  BY <1>5 DEF Arrive, GivesUp, chain
<1>6. CASE Tick \/ Drift \/ Crash \/ UNCHANGED vars
  BY <1>6 DEF Tick, Drift, Crash, chain, vars
<1>. QED BY <1>1, <1>2, <1>3, <1>4, <1>5, <1>6 DEF Next, Handler, Working

LEMMA StepDoubts ==
  ASSUME TypeOK, TypeOK', Lock, Posted, NoGap, Executed, Reported, InOrder, Doubts, [Next]_vars
  PROVE  Doubts'
<1>0. PlanKept /\ History /\ Final
  BY StepPlanKept, StepHistory, StepFinal
<1>1. ASSUME NEW t \in Try, NEW u \in Try, u < t, Begun(t)',
             report'[u][Dev] \in {"confirmed", "reverted"}
      PROVE  Nonce(Launch(u))' < base'[t][Dev]
  <2>1. pc[u] \notin Steps
    <3>. SUFFICES ASSUME pc[u] \in Steps PROVE FALSE
      OBVIOUS
    <3>1. pc[t] = "none" /\ t > u
      BY <1>1, Locations DEF Try
    <3>2. ~Begun(t)
      BY <3>1, TxTypes DEF Begun, Steps, Posted, Before, Launch
    <3>. QED BY <1>0, <1>1, <3>1, <3>2 DEF History, Steps
  <2>2. report[u][Dev] \in {"confirmed", "reverted"}
    BY <1>0, <1>1, <2>1 DEF History
  <2>3. ran(Launch(u))
    BY <2>2 DEF Reported
  <2>4. Nonce(Launch(u))' = Nonce(Launch(u)) /\ Nonce(Launch(u)) < count[Dev] /\ Nonce(Launch(u)) \in Nat
    <3>1. Launch(u) \in Txs /\ Launch(u).who = Dev /\ req[Launch(u)] # "unsent"
      BY <2>3, TxTypes DEF Posted, ran, Launch
    <3>. QED BY <1>0, <2>3, <3>1, NonceKept, NonceType DEF Executed
  <2>5. CASE Begun(t) /\ base'[t][Dev] = base[t][Dev]
    BY <1>1, <2>2, <2>4, <2>5 DEF Doubts
  <2>6. CASE base'[t][Dev] >= count[Dev]
    <3>1. base'[t][Dev] \in Nat /\ count[Dev] \in Nat
      BY TxTypes DEF TypeOK
    <3>. QED BY <2>4, <2>6, <3>1
  <2>. QED BY <1>0, <1>1, <2>5, <2>6 DEF History
<1>2. ASSUME NEW t \in Try, path'[t] = "native", req'[Launch(t)] = "sent", ~(at'[Launch(t)] > 0),
             Nonce(Launch(t))' < count'[Dev]
      PROVE  \E u \in Try : u < t /\ InDoubt(u)'
  <2>. DEFINE x == Launch(t)
  <2>1. x \in Txs /\ x.who = Dev /\ x.try = t /\ count[Dev] \in Nat /\ count'[Dev] \in Nat
    BY TxTypes DEF Launch, TypeOK
  <2>2. req[x] # "unsent"
    BY <1>0, <1>2, <2>1 DEF History
  <2>3. Nonce(x)' = Nonce(x) /\ path[t] = "native" /\ Nonce(x) \in Nat
    BY <1>0, <1>2, <2>1, <2>2, NonceKept, NonceType DEF PlanKept
  <2>4. ~ran(x)
    BY <1>0, <1>2, <2>1 DEF Final, ran
  <2>. HIDE DEF x
  <2>5. req[x] = "sent"
    BY <1>0, <1>2, <2>1, <2>3 DEF History, x
  <2>6. CASE Nonce(x) < count[Dev]
    BY <1>0, <2>1, <2>3, <2>4, <2>5, <2>6, DoubtStays DEF Doubts, x
  <2>7. CASE ~(Nonce(x) < count[Dev])
    <3>1. count'[Dev] # count[Dev]
      BY <1>2, <2>3, <2>7 DEF x
    <3>2. PICK i \in DOMAIN queue :
            /\ IsNext(i) /\ queue[i].who = Dev /\ Nonce(queue[i]) = count[Dev]
            /\ count'[Dev] = count[Dev] + 1 /\ at'[queue[i]] = done + 1
      BY <3>1, CountMoves, TxTypes
    <3>3. Nonce(x) = count[Dev]
      BY <1>2, <2>1, <2>3, <2>7, <3>2 DEF x
    <3>4. queue[i] # x
      BY <1>2, <3>2 DEF TypeOK, x
    <3>5. \E u \in Try : u < t /\ InDoubt(u)
      BY <2>3, <2>5, <3>2, <3>3, <3>4, Overtaken DEF x
    <3>. QED BY <1>0, <3>5, DoubtStays
  <2>. QED BY <2>6, <2>7
<1>. QED BY <1>1, <1>2 DEF Doubts, ran

-----------------------------------------------------------------------------
(* The properties                                                          *)

\* When a native buy is the sequencer's next its launch is not in the queue: it would be
\* in front, and of what is before it there is one that can run.
LEMMA NotInFront ==
  ASSUME TypeOK, NoGap, InOrder, NEW i \in DOMAIN queue, IsNext(i),
         NEW t \in Try, NEW w \in Wallets, queue[i] = Buy(t, w), path[t] = "native",
         NEW j \in DOMAIN queue, queue[j] = Launch(t)
  PROVE  FALSE
<1>. DEFINE x == Launch(t)
<1>1. x \in Txs /\ x.who = Dev /\ count[Dev] \in Nat /\ Nonce(x) \in Nat
  BY TxTypes, NonceType DEF Launch, TypeOK
<1>2. j < i
  BY DEF InOrder
<1>3. /\ Len(queue) \in Nat /\ i \in 1..Len(queue) /\ j \in 1..Len(queue)
      /\ \A k \in 1..(i - 1) : ~(Nonce(queue[k]) <= count[queue[k].who])
  BY DEF TypeOK, IsNext, Ready
<1>4. j \in 1..(i - 1)
  BY <1>2, <1>3
<1>5. ~(Nonce(x) <= count[Dev])
  BY <1>1, <1>3, <1>4
<1>6. Held(Dev, Nonce(x), j - 1)
  BY <1>1 DEF NoGap
<1>7. PICK k \in 1..(j - 1) : queue[k].who = Dev /\ Nonce(queue[k]) = count[Dev]
  <2>1. count[Dev] \in count[Dev]..(Nonce(x) - 1)
    BY <1>1, <1>5
  <2>. QED BY <1>6, <2>1 DEF Held
<1>8. k \in 1..(i - 1)
  BY <1>3, <1>4
<1>. QED BY <1>1, <1>3, <1>7, <1>8

\* A native buy that finds no curve: its launch ran, or lost its nonce.
LEMMA StrandedNow ==
  ASSUME TypeOK, Posted, NoGap, InOrder, Doubts, NEW i \in DOMAIN queue, IsNext(i),
         NEW t \in Try, NEW w \in Wallets, queue[i] = Buy(t, w), path[t] = "native"
  PROVE  ran(Launch(t)) \/ \E u \in Try : u < t /\ InDoubt(u)
<1>. SUFFICES ASSUME ~ran(Launch(t)) PROVE \E u \in Try : u < t /\ InDoubt(u)
  OBVIOUS
<1>. DEFINE x == Launch(t)
<1>1. /\ x \in Txs /\ x.who = Dev /\ count[Dev] \in Nat /\ Nonce(x) \in Nat
      /\ Buy(t, w) \in Txs /\ Buy(t, w).kind = "act" /\ Buy(t, w).who # Dev /\ Buy(t, w).try = t
  BY TxTypes, NonceType DEF Launch, Buy, TypeOK
<1>2. req[x] = "sent"
  <2>1. req[Buy(t, w)] # "unsent"
    BY DEF Posted
  <2>. QED BY <1>1, <2>1 DEF Posted
<1>3. CASE Nonce(x) < count[Dev]
  BY <1>2, <1>3 DEF Doubts
<1>4. ASSUME NEW j \in DOMAIN queue, queue[j] = x PROVE FALSE
  BY <1>4, NotInFront
<1>. QED BY <1>1, <1>2, <1>3, <1>4 DEF NoGap

\* What came of a transaction is settled when it is executed.
LEMMA OutMoves ==
  ASSUME TypeOK, Posted, [Next]_vars, NEW x \in Txs, out'[x] # out[x]
  PROVE  \E i \in DOMAIN queue :
           /\ IsNext(i) /\ queue[i] = x /\ at'[x] = done + 1 /\ out'[x] = Outcome(x)
<1>1. ASSUME NEW i \in DOMAIN queue, Execute(i)
      PROVE  IsNext(i) /\ queue[i] = x /\ at'[x] = done + 1 /\ out'[x] = Outcome(x)
  <2>1. IsNext(i) /\ at' = [at EXCEPT ![queue[i]] = done + 1]
        /\ out' = [out EXCEPT ![queue[i]] = Outcome(queue[i])]
    BY <1>1 DEF Execute
  <2>. QED BY <2>1 DEF TypeOK
<1>2. ASSUME NEW t \in Try, Working(t) PROVE FALSE
  BY <1>2, WorkingMoves DEF Moves, chain
<1>3. ASSUME NEW t \in Try, Prepare(t) \/ Sign(t) PROVE FALSE
  BY <1>3 DEF Prepare, Sign, chain
<1>4. ASSUME NEW t \in Try, NEW p \in Paths, Request(t, p) PROVE FALSE
  BY <1>4 DEF Request, chain
<1>5. ASSUME NEW x2 \in Txs, Arrive(x2) \/ GivesUp(x2) PROVE FALSE
  BY <1>5 DEF Arrive, GivesUp, chain
<1>6. CASE Tick \/ Drift \/ Crash \/ UNCHANGED vars
  BY <1>6 DEF Tick, Drift, Crash, chain, vars
<1>. QED BY <1>1, <1>2, <1>3, <1>4, <1>5, <1>6 DEF Next, Handler, Working

LEMMA StepFollows ==
  ASSUME TypeOK, Posted, NoGap, Executed, InOrder, Doubts, NativeBuyFollowsItsLaunch, [Next]_vars
  PROVE  NativeBuyFollowsItsLaunch'
<1>0. Final /\ History
  BY StepFinal, StepHistory
<1>. SUFFICES ASSUME NEW t \in Try, NEW w \in Wallets, out'[Buy(t, w)] = "stranded"
              PROVE  \/ at'[Launch(t)] > 0 /\ at'[Launch(t)] < at'[Buy(t, w)]
                     \/ \E u \in Try : u < t /\ InDoubt(u)'
  BY DEF NativeBuyFollowsItsLaunch, ran
<1>. DEFINE x == Launch(t)  y == Buy(t, w)
<1>1. x \in Txs /\ y \in Txs /\ y.kind = "act" /\ y.who # Dev /\ y.try = t
  BY TxTypes DEF Buy
<1>2. ASSUME NEW u \in Try, u < t, InDoubt(u) PROVE \E v \in Try : v < t /\ InDoubt(v)'
  BY <1>0, <1>2, DoubtStays
<1>3. CASE out[y] = "stranded"
  <2>1. ran(y) /\ at'[y] = at[y]
    BY <1>0, <1>1, <1>3 DEF Executed, Final
  <2>2. CASE ran(x) /\ at[x] < at[y]
    BY <1>0, <1>1, <2>1, <2>2 DEF Final, ran
  <2>. QED BY <1>2, <1>3, <2>1, <2>2 DEF NativeBuyFollowsItsLaunch
<1>4. CASE out[y] # "stranded"
  <2>1. PICK i \in DOMAIN queue : IsNext(i) /\ queue[i] = y /\ at'[y] = done + 1 /\ out'[y] = Outcome(y)
    BY <1>1, <1>4, OutMoves
  <2>2. path[t] = "native"
    BY <1>1, <2>1 DEF Outcome
  <2>3. CASE ran(x)
    <3>1. at'[x] = at[x] /\ at[x] > 0 /\ at[x] <= done /\ done \in Nat /\ at[x] \in Nat
      BY <1>0, <1>1, <2>3 DEF Final, Executed, ran, TypeOK
    <3>. QED BY <2>1, <3>1
  <2>. QED BY <1>2, <2>1, <2>2, <2>3, StrandedNow
<1>. QED BY <1>3, <1>4

\* Nothing gets into the queue but what was on its way.
LEMMA QueueMoves ==
  ASSUME TypeOK, Posted, [Next]_vars, NEW k \in DOMAIN queue'
  PROVE  queue'[k] \in onway \/ \E j \in DOMAIN queue : queue'[k] = queue[j]
<1>1. CASE UNCHANGED queue
  BY <1>1
<1>2. ASSUME NEW t \in Try, Working(t) PROVE UNCHANGED queue
  BY <1>2, WorkingMoves DEF Moves, chain
<1>3. ASSUME NEW t \in Try, Prepare(t) \/ Sign(t) PROVE UNCHANGED queue
  BY <1>3 DEF Prepare, Sign, chain
<1>4. ASSUME NEW t \in Try, NEW p \in Paths, Request(t, p) PROVE UNCHANGED queue
  BY <1>4 DEF Request, chain
<1>5. ASSUME NEW x \in Txs, Arrive(x), queue' = Append(queue, x)
      PROVE  queue'[k] \in onway \/ \E j \in DOMAIN queue : queue'[k] = queue[j]
  <2>1. queue \in Seq(Txs) /\ x \in onway
    BY <1>5 DEF Arrive, TypeOK
  <2>. QED BY <1>5, <2>1
<1>6. ASSUME NEW x \in Txs, Arrive(x) \/ GivesUp(x)
      PROVE  queue'[k] \in onway \/ \E j \in DOMAIN queue : queue'[k] = queue[j]
  BY <1>1, <1>5, <1>6 DEF Arrive, GivesUp, chain
<1>7. ASSUME NEW i \in DOMAIN queue, Execute(i)
      PROVE  \E j \in DOMAIN queue : queue'[k] = queue[j]
  <2>1. queue' = Without(i)
    BY <1>7 DEF Execute
  <2>2. /\ Len(queue) \in Nat \ {0} /\ i \in 1..Len(queue)
        /\ Without(i) \in Seq(Txs) /\ Len(Without(i)) = Len(queue) - 1
        /\ \A j \in 1..(Len(queue) - 1) : Without(i)[j] = queue[IF j < i THEN j ELSE j + 1]
    BY WithoutIs
  <2>3. k \in 1..(Len(queue) - 1)
    BY <2>1, <2>2
  <2>4. (IF k < i THEN k ELSE k + 1) \in DOMAIN queue
    BY <2>2, <2>3 DEF TypeOK
  <2>. QED BY <2>1, <2>2, <2>3, <2>4
<1>8. CASE Tick \/ Drift \/ Crash \/ UNCHANGED vars
  BY <1>1, <1>8 DEF Tick, Drift, Crash, chain, vars
<1>. QED BY <1>1, <1>2, <1>3, <1>4, <1>6, <1>7, <1>8 DEF Next, Handler, Working

LEMMA StepBehind ==
  ASSUME TypeOK, Posted, NoGap, Executed, Executed', InOrder, Behind, [Next]_vars
  PROVE  Behind'
<1>0. Final /\ PlanKept
  BY StepFinal, StepPlanKept
<1>. SUFFICES ASSUME NEW t \in Try, NEW w \in Wallets, path'[t] = "native", at'[Buy(t, w)] > 0
              PROVE  /\ \A k \in DOMAIN queue' : queue'[k] # Launch(t)
                     /\ at'[Launch(t)] > 0 => at'[Launch(t)] < at'[Buy(t, w)]
  BY DEF Behind, ran
<1>. DEFINE x == Launch(t)  y == Buy(t, w)
<1>1. x \in Txs /\ y \in Txs /\ y.kind = "act" /\ y.who # Dev /\ y.try = t
  BY TxTypes DEF Buy
<1>2. at[x] \in Nat /\ at[y] \in Nat /\ done \in Nat /\ at[x] <= done
  BY <1>1 DEF TypeOK, Executed
<1>3. CASE ran(y)
  <2>1. req[y] # "unsent" /\ at'[y] = at[y]
    BY <1>0, <1>1, <1>3 DEF Posted, Final, ran
  <2>2. path[t] = "native"
    BY <1>0, <1>1, <2>1 DEF PlanKept
  <2>3. x \notin onway
    BY <1>1, <2>1, <2>2 DEF Posted
  <2>4. \A k \in DOMAIN queue : queue[k] # x
    BY <1>3, <2>2 DEF Behind
  <2>5. \A k \in DOMAIN queue' : queue'[k] # x
    BY <2>3, <2>4, QueueMoves
  <2>6. out'[x] = out[x]
    BY <1>1, <2>4, OutMoves
  <2>7. at'[x] > 0 => ran(x) /\ at'[x] = at[x]
    BY <1>0, <1>1, <2>6 DEF Executed, Final, ran
  <2>. QED BY <1>3, <2>1, <2>2, <2>5, <2>7 DEF Behind
<1>4. CASE ~ran(y)
  <2>1. out[y] = "none" /\ out'[y] # "none"
    BY <1>1, <1>4 DEF Executed, ran
  <2>2. PICK i \in DOMAIN queue : IsNext(i) /\ queue[i] = y /\ at'[y] = done + 1
    BY <1>1, <2>1, OutMoves
  <2>3. req[y] # "unsent"
    BY <2>2 DEF Posted
  <2>4. path[t] = "native"
    BY <1>0, <1>1, <2>3 DEF PlanKept
  <2>5. x \notin onway
    BY <1>1, <2>3, <2>4 DEF Posted
  <2>6. \A k \in DOMAIN queue : queue[k] # x
    BY <2>2, <2>4, NotInFront
  <2>7. \A k \in DOMAIN queue' : queue'[k] # x
    BY <2>5, <2>6, QueueMoves
  <2>8. out'[x] = out[x]
    BY <1>1, <2>6, OutMoves
  <2>9. at'[x] > 0 => at'[x] = at[x]
    BY <1>0, <1>1, <2>8 DEF Executed, Final, ran
  <2>. QED BY <1>2, <2>2, <2>7, <2>9
<1>. QED BY <1>3, <1>4

\* Taken all together.
Inv == TypeOK /\ IInv /\ NativeBuyFollowsItsLaunch

LEMMA InitInv == Init => Inv
<1>1. Init => NativeBuyFollowsItsLaunch
  BY TxTypes DEF Init, NativeBuyFollowsItsLaunch
<1>. QED BY <1>1, InitTypes, InitIInv DEF Inv

LEMMA StepInv == Inv /\ [Next]_vars => Inv'
<1>. SUFFICES ASSUME Inv, [Next]_vars PROVE Inv'
  OBVIOUS
<1>1. /\ TypeOK /\ Lock /\ Posted /\ NoGap /\ Executed /\ Unasked /\ Reported /\ InOrder /\ Doubts
      /\ Behind /\ NativeBuyFollowsItsLaunch
  BY DEF Inv, IInv
<1>2. TypeOK'
  BY <1>1, StepTypes
<1>3. Lock' /\ Posted'
  BY <1>1, StepLock, StepPosted
<1>4. NoGap' /\ Executed'
  BY <1>1, <1>2, StepNoGap, StepExecuted
<1>5. Unasked' /\ Reported' /\ InOrder'
  BY <1>1, <1>2, StepUnasked, StepReported, StepInOrder
<1>6. Doubts'
  BY <1>1, <1>2, StepDoubts
<1>7. Behind' /\ NativeBuyFollowsItsLaunch'
  BY <1>1, <1>4, StepBehind, StepFollows
<1>. QED BY <1>2, <1>3, <1>4, <1>5, <1>6, <1>7 DEF Inv, IInv

LEMMA AlwaysInv == Spec => []Inv
BY InitInv, StepInv, PTL DEF Spec

\* The types hold, and with them the bounds on ticks and faults the model states.
THEOREM Types == Spec => []TypeOK
<1>1. Inv => TypeOK
  BY DEF Inv
<1>. QED BY <1>1, AlwaysInv, PTL

\* routes/launch.js's lock: of the handlers of launches at most one is at work, and it is
\* that of the last one asked for, so none reads a nonce while another may still sign
\* at it.
OneLaunchAtATime ==
  \A t, u \in Try : pc[t] \in Steps /\ u # t => pc[u] \in Ended \cup {"none"}

\* Whatever is asked for, fails or restarts, withLaunchLock lets one launch in at a time.
THEOREM OneAtATime == Spec => []OneLaunchAtATime
<1>1. Inv => OneLaunchAtATime
  <2>. SUFFICES ASSUME Inv, NEW t \in Try, NEW u \in Try, pc[t] \in Steps, u # t
                PROVE  pc[u] \in Ended \cup {"none"}
    BY DEF OneLaunchAtATime
  <2>. QED BY Locations DEF Inv, IInv, Try
<1>. QED BY <1>1, AlwaysInv, PTL

\* What the sequencer holds can run: what a launch signs at was read off a queue without
\* holes, is sent behind what it needs (the dev wallet's approve is awaited, a buy whose
\* approve failed is not sent: fireV2.js), and the queue only grows at its end, or gives
\* up its first.
THEOREM NoGaps == Spec => []NothingWaitsBehindAGap
<1>1. Inv => NothingWaitsBehindAGap
  <2>. SUFFICES ASSUME Inv, NEW i \in DOMAIN queue,
                       NEW n \in count[queue[i].who]..(Nonce(queue[i]) - 1)
                PROVE  n \in Taken(queue[i].who)
    BY DEF NothingWaitsBehindAGap
  <2>1. Held(queue[i].who, Nonce(queue[i]), i - 1) /\ queue \in Seq(Txs)
    BY DEF Inv, IInv, NoGap, TypeOK
  <2>2. PICK k \in 1..(i - 1) : queue[k].who = queue[i].who /\ Nonce(queue[k]) = n
    BY <2>1 DEF Held
  <2>3. k \in DOMAIN queue
    BY <2>1
  <2>. QED BY <2>2, <2>3 DEF Taken, Waiting
<1>. QED BY <1>1, AlwaysInv, PTL

\* What a result lists without a flag, whichever receipts stayed unread: a confirmed buy has
\* bought, for it is taken for a purchase only if the launch's receipt says it was there
\* before (boughtNothing and strandSuspected, fireV2.js; a v1 buy reverts when it finds no
\* curve), and a pending one has not paid into an address without a contract, for the
\* launch confirmed and what was awaited in front of the buy keeps it behind.
THEOREM NoneIsPassedOff == Spec => []NothingIsPassedOffAsBought
<1>1. Inv => NothingIsPassedOffAsBought
  <2>. SUFFICES ASSUME Inv, NEW t \in Try, NEW w \in Wallets, pc[t] = "done", w \notin flagged[t]
                PROVE  /\ report[t][w] = "confirmed" => out[Buy(t, w)] = "ok"
                       /\ report[t][w] = "pending" => out[Buy(t, w)] # "stranded"
    BY DEF NothingIsPassedOffAsBought
  <2>. DEFINE x == Launch(t)  y == Buy(t, w)
  <2>1. /\ TypeOK /\ Executed /\ Reported /\ Behind /\ x \in Txs /\ y \in Txs /\ x # y
        /\ y.try = t /\ at[x] \in Nat /\ at[y] \in Nat
    BY TxTypes DEF Inv, IInv, Buy, TypeOK
  <2>2. report[t][w] = "confirmed" => out[y] \notin {"none", "reverted"} /\ ran(y)
    BY <2>1 DEF Reported, Executed
  <2>3. path[t] # "v1" /\ report[t][w] \in {"confirmed", "pending"} =>
          /\ Exists(t) /\ ran(x)
          /\ report[t][w] = "confirmed" => at[y] >= at[x]
    BY <2>1 DEF Reported
  <2>4. Exists(t) /\ at[y] > at[x] => out[y] \in {"ok", "reverted"}
    BY <2>1 DEF Executed
  <2>5. ASSUME report[t][w] = "confirmed" PROVE out[y] = "ok"
    <3>1. CASE path[t] = "v1"
      BY <2>1, <2>2, <2>5, <3>1 DEF Executed, TypeOK
    <3>2. CASE path[t] # "v1"
      <4>1. at[y] # at[x]
        BY <2>1, <2>2, <2>5 DEF Executed
      <4>. QED BY <2>1, <2>2, <2>3, <2>4, <2>5, <3>2, <4>1
    <3>. QED BY <3>1, <3>2
  <2>6. ASSUME report[t][w] = "pending", out[y] = "stranded" PROVE FALSE
    <3>1. path[t] = "native" /\ ran(y)
      BY <2>1, <2>6 DEF Executed
    <3>2. at[x] < at[y]
      BY <2>1, <2>3, <2>6, <3>1 DEF Behind
    <3>. QED BY <2>1, <2>3, <2>4, <2>6, <3>1, <3>2
  <2>. QED BY <2>5, <2>6
<1>. QED BY <1>1, AlwaysInv, PTL

\* A native buy pays into an address: for every number of wallets and of launches, and
\* whatever fails, it is executed behind its launch, or behind what took its launch's
\* nonce, which is of an earlier launch whose handler ended in doubt.
THEOREM BuysFollow == Spec => []NativeBuyFollowsItsLaunch
<1>1. Inv => NativeBuyFollowsItsLaunch
  BY DEF Inv
<1>. QED BY <1>1, AlwaysInv, PTL
=============================================================================
