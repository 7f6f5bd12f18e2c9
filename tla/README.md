# pons-launcher: TLA+ models, checks and proofs

This directory holds TLA+ models of the parts of this repository that keep state
across an `await`, a timer, a crash or a second actor; the TLC configurations that
check them on small instances; and TLAPS proofs of what matters most for every
instance.

    tlc -workers 2 -config VaultSaves.cfg MCVaultStore.tla
    tlapm RelayChainProofs.tla

Paths below are relative to the repository, and `file.js:12` is a line of it.
`PROJECT.json` holds the machine-readable side: the runs, the mutants that show each
property can fail, the source lines each definition stands for, the hazards, the
findings and the theorems.

## 1. The system and its components

One Node process (CommonJS, Express, `backend/`) serves a React console and a public
trading page with an in-browser wallet, the dApp (`frontend/`). There is no database:
long-running jobs live in `Map`s keyed by user, timers are `setTimeout`, and what must
survive is JSON on disk. Everything runs on one event loop, so the only interleavings are
those at an `await`, but there are many of those: disk calls, RPC calls, Relay HTTP
calls and receipts. Failure means a rejected promise, a receipt that does not come, or
the process going away with everything in its maps.

| Component | State it keeps | What is hard | What makes it correct | Module |
|---|---|---|---|---|
| **Vault store** `tp/vaultStore.js` | one encrypted list per address, `.prev`, `deleted/` copies, `revoked.json` + `revoked.log`; tallies, revocation map, the lane | several disk steps per write, crash or error between any two; two byte budgets; sessions revoked while their writes are queued | it is a compare-and-set register; no list goes without a copy; a revoked session changes nothing; tallies follow the disk; the lane never wedges | `VaultStore`, `VaultRegister` |
| **Accounts and sessions** `tp/account.js` | challenges, signed session tokens | check on entry, effect later | sessions end at a DELETE | with `VaultStore`; challenges not modelled |
| **Relay-chain engines** `v3/v6/v7/engine.js` | one job per user: status, index, records, timer, `inFlight` | each cycle is 6–10 awaits; a step that fails, lands unseen, or whose receipt is late; stop/resume/start during them | one cycle at a time; no step repeated; nothing taken as done that is not; a run ends | `RelayChain` |
| **V4 campaigns** `v4/` | campaign file with a cache; runner map with timers | persisted status vs. broadcast; failed writes; crash between them; pause and cancel with a send out | no wallet funded twice; what runs is armed; no burst | `Campaign` |
| **Timed funders** `relay/timedFunding.js` (v2), `v5/relayFundJob.js`, `v8/timedTransfer.js` | one job per user: status, index, `nextRunAt`, timer, ticking | stop/resume in a pause, a gap or a call; timers that outlive jobs | each wallet once; one signer; paced; no lost wakeup | `TimedFunder` |
| **Keystore** `wallets/keystore.js`, `scripts/archive.js` | two JSON files, each cached for ever | two processes write them; delete and restore are two writes | no key lost; what is destroyed stays so | `Keystore` |
| **V5 launcher** `routes/v5.js`, `v5/` | locks, the parked launch | a launch whose receipt never came; a restart; six signers of one key | one launch can mine; one spender; no gap in the nonces; never bricked | `Launcher` |
| **V1/V2 launch bundles** `bundle/`, `routes/launch.js` | prepared signed transactions, the launch lock | nonces fixed before the launch lands; order of arrival | no buy ahead of its launch; nothing reported bought that is not; nothing behind a gap | `Bundle` |
| **Chain feed** `tp/indexer.js`, `stream.js` | cursors, charted trades, subscribers | two loops, graduation, visitors who come and go | a trade twice only where two loops meet, none skipped, viewers up to date | `ChartFeed` |
| **dApp: vault sync** `frontend/src/dapp/account/vaultSync.js` | tagged list, the rev it was read at | two devices, stale revs, lost calls, leaving | no saved wallet lost by a merge, removals stay | `VaultSync` |
| **HTTP routes and server start** `routes/`, `server.js` | locks in memory | a guard read before an `await` | nothing signs for a wallet another part signs for | the guards of the modelled parts only |
| **Funding and distribution** `wallets/funding.js`, `evm/` | deployed contract addresses | a batch whose answer is lost | nobody paid twice | – |
| **Relay-chain sizing** `v*/sizing.js` | none | rounding, zero | slices sum to the position | – |
| **Exit, sweep, gather and routes** of v3/v6/v7 | none of their own | running beside an engine | refused while a run signs | – |
| **Broadcast and limits** `tp/broadcast.js`, `limits.js` | token buckets | answers disagree | accepted if any node took it | – |
| **Quotes, tokens, venues, logos; dApp keys and UI; console panels; activity, history, IPFS, prices, auth; scripts; contracts** | caches, view state, append-only files | – | – | – |

How they interact: routes call engines, funders and stores directly and ask them for
"is something running" before they sign with the same wallet; engines and funders share
`relay/` and the EVM helpers, and *the shared state between them is the nonce of a wallet
on chain*, which each caller reads for itself. The dApp talks to the vault store through
the account routes, with the rev it last read. `scripts/archive.js` is a second process
that writes the keystore files.

`PROJECT.json` lists under "hazards" everything of this that a test would hardly
reach, at its line, modelled or not.

## 2. The plan

Done, in this order, because the first protects users' only copy of their keys, the next
move money unattended, and the rest do so on request: `VaultStore`, `RelayChain`,
`TimedFunder`, `VaultRegister` (the abstract specification `VaultStore` implements, and
`VaultSync` is built on), `VaultSync`, `Campaign`, `Keystore`, `Launcher`, `ChartFeed`,
`Bundle`. No module that is proved about declares a RECURSIVE operator.

Not written: pure operators for sizing and for the disperse batch with its one-by-one
fallback (`funding.js:272`); the sells and swaps of the bundles; account challenges;
broadcast and limits; the routes' guards around the engines.

## 3. Modules and the code

### `VaultStore` (+ `MCVaultStore`, `VaultProofs`)

`backend/src/tp/vaultStore.js` with the session side of `tp/account.js`.

- **State.** `main`, `prev`, `deleted`, `snap`, `log`, `torn` are the disk: the list, its
  `.prev`, the copies in `deleted/`, `revoked.json`, the parsable lines of `revoked.log`
  and whether it ends in half a line. `up`, `revoked`, `logBytes`, `tally` are the process's
  memory and vanish in `Crash`. `queue`, `pc`, `job` are the write lane: the request at
  the head, its next disk step and what it read. `acked`, the revocation time of the last
  DELETE that was answered, is a history variable.
- **Actions.** `Login`, `Logout`, `AskPut`, `AskDelete`, `AskPurge` are the routes (a read
  that finds a kept copy expired asks for a purge); a request is admitted by the session check and the lane's length and
  then waits. A `put` is `StartPut` (all synchronous checks, or `RefusePut`), `RotatePrev`,
  `WriteMain`. A `remove` is `StartDelete`, `AppendRevocation`, `WriteSnapshot`/`UnlinkLog`
  when the log is over its cap, `GatherDeleted`, `MakeRoom`/`Evict`, `KeepCopy`, `TrimCopy`,
  `UnlinkPrev`, `UnlinkMain`: one action per awaited disk call, with the synchronous code
  around it. `DiskError` and `Crash` may strike at every one of them; `Restart` is
  `openStore`. `Tick` moves the clock, and no write waits in the lane for longer than
  `LaneWait`.
- **Abstractions.** A ciphertext is a blob with a size. Files are replaced atomically
  (`writeAtomic` is a write to a temporary file, fsync, rename), so an interrupted write
  leaves the old file; only the append can tear, and does so where `Tears` holds. A log line
  is one unit of the log's cap.

### `RelayChain` (+ `MCRelayChain`, `RelayChainProofs`)

`backend/src/v3/engine.js`, and `v6/engine.js` and `v7/engine.js` as `Engine = "v6"`, which
differ in how they recognise a fill (v3: an absolute balance; v6/v7: an increase over the
balance read before the transfer) and in what they make of a sell without a receipt.

- **State.** Per job `status`, `index`, `inFlight`, `timer` and the step records `rec`
  (sell, transfer, fill, buy, what was raised and the base balance). `flights` are the
  running async cycles, each at one of its awaits. `position` and `ether` are the chain;
  `orders` are Relay orders not filled, `late` transactions whose receipt has not
  come. `sold`, `sent`, `filled`, `bought`, `blind` are history.
- **Actions.** `Start`, `Stop`, `Resume`, `TimerFires` (`runNext` up to its first await),
  then each await in order: `BigBuyLands`, `SizeSell`, `SellLands`, `SizeTransfer`,
  `TransferLands`, `FillSeen` or `FillTimeout`, `SizeBuy`, `Refilled`, `BuyLands`. Any of them
  may fail (`StepFails`), land without returning (`StepLandsAndThrows`), revert or be pending.
  `Finish`/`Throw` are the tail of the cycle, `finally` included: arming the next timer,
  completing, or halting. The environment is `FillArrives`, `LateLands`, `LateDrops`.
- **Abstractions.** Ether is in units. A sell raises nothing or a good amount; a slice is
  any amount of the position but for the last wallet, which takes all; a fill of an
  order brings `Fund`. A transfer waits for no receipt in the code (the fill is its
  proof), so a deposit that is dropped is an order that is never filled. `FillTimeout` is
  the last look at the balance finding no fill; the sleep after it is no step of its own,
  as a fill that comes in it leaves the same state as one that comes after the halt.

### `TimedFunder` (+ `TimedFunderProofs`)

`backend/src/relay/timedFunding.js`, `v5/relayFundJob.js`, `v8/timedTransfer.js` and
`relayFundingActive` of `routes/v5.js`. The variable `funder` says which of the three a
behaviour is; it never changes.

- **State.** `cur` is the job in the map; `status`, `busy` (`ticking`/`inFlight`), `index`
  (`currentIndex`), `armed` (the timer) and `left` (what remains until `nextRunAt`) are of
  each job; `ticks` are the running `runNext` calls, in a call or in the gap between two
  wallets of a v2 batch. `since` and `quiet` are what the code measures with timestamps.
  `unmined` is the chain. `tried`, `cutShort` are history.
- **Actions.** `Start`, `Stop`, `Resume` (v5 has none), `TimerFires` (the timer passes the
  *user*, so it runs whatever job is current), `CallSettles`, `GapEnds`, `DepositMined`, `Tick`,
  `Restart`. v2's batch is `PerTick` wallets; v5 draws its delay, here `Interval` or one more.
- **Abstractions.** There is no clock: every delay counts down. A call broadcasts a
  deposit or fails, by the environment's choice, and takes any time. Whether a failed call
  had in truth broadcast is not told apart: the code moves on either way. The activity log
  swallows its errors (`store/activity.js`), so the `catch` around a whole tick is never
  reached.

### `VaultRegister`

What the account store promises its clients, with no code of its own: one list per address
that changes in one step, and only for a client that names the rev of the list it replaces or
takes away. `VaultStore` implements it with the lists on disk, without their writers and
times, as the register (`Shown`): the rename of the new list and the unlink of the old one are where
an operation takes effect. `VaultSync` is built on it, as the server of its tabs, and
`SyncUsesTheRegister` (section 7) proves that its tabs use it as one: what holds of the
tabs holds of them over the store that was proved to be that register.

### `VaultSync` (+ `MCVaultSync`, `VaultProofs`)

`frontend/src/dapp/account/vaultSync.js`, started and stopped by `ui/App.jsx`,
`ui/leaveAccount.js` and `account/account.js`, over the wallets of `keys/walletStore.js`.

- **State.** `list` is the server (`VaultRegister`). Of each tab: whether it syncs, its session,
  the wallets it holds, their tags and tombstones, the rev its copy was read at, the
  call that is out, and how far leaving has come. `late` are PUTs given up on that the
  server may still get.
- **Actions.** A call goes out (`LoadStart`, `SaveStart`), is served (`GetServed`, `PutServed`)
  and comes back (`GetBack`, `PutSaved`, `PutConflicts`, `PutMismatches`, `SessionIsOver`,
  `CallFails`); either half may be lost (`Lose`), and `LateServed` is the lost PUT that
  arrives. The visitor may `Import`, `Remove`, `Open`, `Close`, `SignInAgain`, `DeleteSaved` and
  leave (`LeaveStart` … `LeaveEnd`).
- **Abstractions.** A tab is a device of its own. Positions, the thirty days of tombstones, the
  caps on tags, copies that do not decrypt and the bound on 409 rounds are left out; so is signing
  in again while a call is out.

### `Campaign` (+ `MCCampaign`, `CampaignProofs`)

`backend/src/v4/runner.js` over `v4/store.js`, with `routes/v4.js` and the boot of `server.js`.

- **State.** `cache` and `file` are the store in memory and on disk; `job` holds each campaign's
  timer and in-flight flag, `flight` its sends that have not answered, `post` the POSTs between
  the route's checks and `start()`; `boot` is `resumeAll()`'s loop. `edges`, `sentNow` and
  `unarmed` are what the properties speak of.
- **Actions.** `Post`, `PostRefused`, `Start`, `Fire`, `FireInFlight`, `SendSucceeds`,
  `SendFails`, `Pause`, `Cancel`, `Resume`, `Rearm`, `Crash`, `Boot`, `BootOne`, `Tick`. An
  operation that writes the file several times is a sequence of caches; `InCallback` and
  `InRequest` let it succeed whole or stop at the first write that fails, with memory one
  write ahead of disk.
- **Abstractions.** Times are countdowns. One user; splits, which only claim no seeds, are
  left out, as are the dice of `plan.js`, the quote, the sweep, and a seed deleted while
  a campaign is being created.

### `Keystore` (+ `MCKeystore`, `KeystoreProofs`)

`backend/src/wallets/keystore.js` and the archive commands of `backend/scripts/archive.js`.

- **State.** `disk` and `tmp` are the two files and their temporary files; `cache` is what each
  process holds of each; `todo`, `wrote` and `call` are the running call's writes. `owed`, `out`
  and `dead` are what the user was told.
- **Actions.** `Generate`, `ImportKey`, `SetRole`, `Remove` of the server, `Restore` and `Purge`
  of the archive process, `WriteTmp`, `Rename` and their failures, `Stop` of either process, `Boot`.
- **Abstractions.** A wallet is its key; `deletedAt` is a counter; encryption, labels, exports,
  the users file and the caps on counts are left out.

### `Launcher` (+ `LauncherProofs`)

The `v5dev` wallet: `backend/src/routes/v5.js` and `v5/launch.js`, `v5/bundle.js`.

- **State.** The node as the code reads it: the mined count, the mempool by nonce, the launches
  that have a receipt; the locks; the parked launch; where each handler is, with the nonces and
  counts it has read.
- **Actions.** One per await of the launch, the fan-out, the action handlers (approve, withdraw,
  cancel), the timed deposits and `/launch/resolve`; and what the node does: mine, forget, take
  late. `Crash` forgets all but the node.
- **Abstractions.** One account; sells and buys are locks that are held for a while; the
  funding job is coarse (its own steps are in `TimedFunder`); a launch our node has evicted is
  taken as gone.

### `ChartFeed` (+ `MCChartFeed`, `ChartFeedProofs`)

`backend/src/tp/indexer.js`, the registry and the streams of `tp/stream.js`.

- **State.** `blocks` is the chain, a trade or none in each, on the curve or in the pool; `ix` is
  the indexer (cursor, charted trades, how often each was added, what waits for a batch); `live`
  and `hist` are the awaits of its two loops; `viewer` and `shown` are the streams.
- **Actions.** The live poll (`Tick`, `ScanAnswers`, `PhaseAnswers`, and what throws), the
  history (`HistTick`, `HistAnswers`, `HistFails`), `Flush`, the mark (`MarkAnswers`, `MarkFails`),
  a visitor's stream (`Ask`, `Refused`, `Open`, `Leave`; `acquire` makes the indexer), `Stop`, and
  the chain: `Mint` a block, `Migrate` from curve to pool.
- **Abstractions.** Candles, prices, times, the caps on what is kept, `wss.js` (which only moves
  timers), the slots per address and several nodes that answer differently are left out. The
  check for a trade already charted is taken at the start of a read, a wider window than the
  code's. The venue and the first head are two calls of the node, between which up to `LoadLag`
  blocks may come and the token may leave its curve; `both`, a history variable, holds the blocks
  whose trade both loops held at once.

### `Bundle` (+ `MCBundle`, `BundleProofs`)

`backend/src/bundle/prepare.js`, `fire.js`, `blockwait.js`, `prepareV2.js`, `fireV2.js` and
`routes/launch.js`.

- **State.** The sequencer's queue, what was executed and with what outcome, the nonces, the
  block number; what each handler knows of each request (`req`) and what is still on its way
  (`onway`); of each launch its handler's point, the nonces `prepare` read, and the result.
- **Actions.** `Request` (`withLaunchLock`), `Prepare`, `Sign`, `Recheck`, `Hold`, `Approved`,
  `ReadBlock`, `Launched`, `Ticked`, `Lead`, `Burst`, `Receipt`, `Results`; the wire's `Arrive` and
  `GivesUp`; the chain's `Execute`, `Tick`, `Drift`; `Crash`.
- **Abstractions.** Amounts, taxes, gas and the simulation are one bit, whether the factory
  would let the launch through. A receipt may stay unread whatever the chain did: v2's poll
  swallows every error and gives up at its deadline (`evm/receipt.js:38-48`), and reports
  `pending`; v1's wait may throw, and reports `unknown` (`Statuses`). The dry run, the salt, the
  fresh-second hold's timing and wallets skipped for lack of funds are left out; receipts are read
  in any order; the nonces of the bundle wallets are read together. v1's `prepare` refuses neither a
  wallet named twice nor the dev wallet as a buyer, which the model excludes (`Wallets` is a set
  without `Dev`); a node lags in what is pending (`Lags`), never in what is mined; timed funders
  that sign with the dev wallet outside the launch lock are not in it.

## 4. The runs

`CHECK_DEADLOCK FALSE` everywhere: these systems may stop (nobody asks for anything, a run is
complete), and the counters that bound a run stop them too.

| Run | Instance | Shows |
|---|---|---|
| `vault_saves` | 1 address, 2 sessions, 2 keys, records of size 1 and 2, live budget 3, deleted budget 2, 4 requests, 1 disk error, 1 crash; 2.4 M states | the store is the register; tallies equal the disk after every step; a list is unlinked only with its copy down; no session takes the other's newest version |
| `vault_revocations` | log compacts at one line, deleted budget 2, 6 requests, clock to 4, 1 crash, fairness; 582 k | revocation on disk before the list goes; a revoked session's queued write changes nothing; the lane drains |
| `chain_resume` | v6, 3 wallets that already hold ether, 2 faults of any kind, 2 resumes; 19 k | no recorded step repeated; a fill is a fill; complete means placed |
| `chain_jobs` | v3, 2 wallets, 2 jobs, 1 late receipt or failure, 2 resumes, 1 restart, fairness; 369 k | one cycle per job; a run ends |
| `funder_jobs` | v2, v5 and v8; 3 wallets, batches of 2, 2 jobs, 2 stops, 1 restart, fairness; 94 k | each wallet once, one signer (v5, v8), pacing, a job ends |
| `campaigns` | 2 campaigns, 2 wallets, 2 seeds, 2 requests, 1 failed write, 1 crash, an empty or a restored file, fairness; 337 k | no seed paid twice; what runs is armed; running campaigns share no wallet; no burst; a campaign ends |
| `sync` | 2 devices, 1 wallet, 2 keys, 4 acts, 1 lost call, 1 deletion, fairness; 0.7 M | merges, removals, leaving, an import reaches the copy |
| `keystore` | 3 keys (symmetric), archive of 1, 6 requests, 1 failed write, 2 stops; 1.1 M | no key lost; what is destroyed stays so |
| `keystore_alongside` | the archive commands beside a running server; **violated** | the finding of section 6 |
| `launcher` | 3 nonces, 2 launches, fan-out of 2, 1 fault (a restart, a late request, a read that throws, a forgotten transaction), fairness; 609 k | one launch can mine; one spender; a live launch is parked; no gap in a fan-out; never bricked |
| `chart` | 4 blocks, windows of 1, 1 viewer, a block between the venue's read and the first head, 1 failed read, fairness; 442 k | a trade is charted twice only if both loops held it at once, none is skipped, viewers up to date, the feed catches up |
| `bundles` | 1 bundle wallet, all four paths, 2 launches, 1 fault, lagging nodes; 2.1 M | no native buy ahead of its launch; nothing passed off as bought; nothing behind a gap |

*Why these bounds are enough.* Vault: a budget hazard needs records of two sizes and a
budget that the second does not fit; a revocation hazard needs one session before and one after
a DELETE, and ages on both sides of the two windows; a failure between two steps needs one
failure, as the store keeps no memory of more than the request at the head. Chain: three
wallets give a first, a middle and a last (which alone sells the remainder); two faults let a
retry fail as well; two jobs give the overlap. Funders: three wallets and batches of two give a
full batch, a short one and a gap; an interval of two lets a stop fall inside a pause; two stops
let a stopped and resumed job be stopped again. Campaigns: two of everything that can be
contended; the failed write and the crash are the two ways memory and file part. Sync: two devices
are what a merge is between; a deletion gives a rev of a copy that is gone. Keystore: three
keys fill an archive of one twice. Launcher: one launch parked, a second signed, a
third nonce for what gets in between. Chart: four blocks give a block on each side of the first
head and of the end of the curve, and one block between the venue's read and that head is the
least that lets both loops read the same trade (`ChartDouble` reaches it). Bundles: two launches give one whose leftovers meet the next; one
wallet is enough as the wallets touch one another only through the result's last read,
which `BundleEnds` has with two. The bounds (`Max…`) only limit how often users, errors, crashes
and restarts act, and stand in the guards of exactly those actions; in `RelayChain`,
`MaxFaults` also bounds late receipts, and reverts are not bounded.

*Further configurations* in this directory that pass: `VaultDeletes` (2 addresses, 8 requests: first
copies are evicted last, `FirstCopyOutlivesLaterOnes`; 4.7 M states), `CampaignFaults` (4 requests,
2 failed writes; 3.9 M), `LauncherFaults` (two faults, safety; 4.1 M), `ChartLoad` (the feed is
made twice; 0.9 M), `ChartTwo` (two viewers; 1.9 M), `BundleEnds` (two wallets, `LaunchEnds`
under fairness; 0.26 M). Those that TLC finds violated are in section 6.

The type invariants (`TypeOK`) are proved where a module of proofs exists, and were checked by
TLC on these instances first.

*Mutants.* For each property of each passing run `PROJECT.json` names an operator (commented
"Mutant" in the modules) that changes one definition as a plausible bug would. Under it TLC finds
the property violated in the same run.

## 5. Fairness

- `VaultStore`: weak fairness of `LaneStep` and `Restart`. The lane is a promise chain; its
  head goes on when its disk call settles. Errors, crashes and clients owe nothing.
- `RelayChain`: weak fairness of each job's timer and of the awaits of its cycle settling.
  None of stop, resume, Relay or the chain: the fill wait ends by its deadline, a receipt
  wait by its timeout. So `RunEnds` says that no silence from outside keeps a run running.
- `TimedFunder`: weak fairness of time, timers, calls and gaps settling, and of deposits
  being mined (else `Tick`, which assumes that a deposit is mined within `MineTime`, is
  blocked). Nothing of the operator.
- `Campaign`: weak fairness of time, of the boot and its loop, of each campaign's timer firing,
  and of its sends answering. Nothing of requests.
- `VaultSync`: weak fairness of each tab's calls going out, being served and coming back, and of
  leaving, once begun, ending. Nothing of the visitor, and losses are bounded.
- `Launcher`: weak fairness of the handlers' steps and of `/resolve`, and of a cancel that
  stands in the mempool being mined. `Unbricked` is a promise to an operator who keeps
  cancelling and resolving, so the cancel and its answer are strongly fair: an
  assumption on the environment, not on the code.
- `ChartFeed`: weak fairness of the timers of the two loops and of their reads settling.
  Nothing of visitors or of the chain.
- `Bundle`: weak fairness of each v2 handler, whose receipt waits end by their deadline, and of
  a broadcast being answered or given up. Nothing of the chain, nor of a v1 handler, whose wait for
  a receipt has none.

## 6. What the code does that its documentation denies

**A running server never sees what the archive commands do** (`wallets/keystore.js:281`; run
`keystore_alongside`). The server reads the keystore once and keeps it. `archive:restore`,
a process of its own, writes the wallet into the live file and takes it out of the archive; the
server's next write puts back the list it holds, and the key is in neither file.
`scripts/archive.js:154` tells the operator that "a running server reads the keystore per request;
no restart needed".

The following are configurations that TLC finds violated, each of one definition; they are
kept as further configurations rather than runs.

| Configuration, definition | What happens |
|---|---|
| `VaultDeleteRefused`, `DeleteIsNotRefused` | `vaultStore.js:705`: `remove` lists the address's copies before making room; the eviction can erase one of them, and trimming it again throws. The DELETE is answered 503, the list stays, and all its sessions are revoked. The header (94, 615) says a DELETE is never refused for space. |
| `VaultStaleLog`, `SnapshotSurvivesRestart` | `vaultStore.js:591`: the newest revocation goes into the snapshot only; if the log's unlink is lost in a crash, or fails and is ignored, its older line is replayed over it. |
| `ChainOverlap`, `OneCycleAtATime` | `v3/engine.js:818` (v6, v7 alike): `stop` frees the slot while its cycle still awaits; `start` asks only for `running`. The funders of v5 (`v5/relayFundJob.js:183-188`) and v8 refuse exactly this. |
| `ChainPending`, `DoneStepsAreOnChain` | `v3/engine.js:395`, 582, 719: a receipt that did not come is `pending`, and only `reverted` is tested for, against "nothing is ever left pending" (19-21). v6 halts on such a sell (335-354) but not on the buys. |
| `FunderGrace`, `LauncherFreeMeansMined` | `routes/v5.js:52-61`: the drain grace of 15 s counts from the stop, and the call may be retried past it (`v5/relayFund.js:55-66`) and broadcast afterwards. |
| `CampaignCancel`, `CancelIsFinal` | `v4/runner.js:521`: the last failing send's `halt()` overwrites `cancelled`, against "cancelling is final" (926, `routes/v4.js:225`). |
| `SyncLeave`, `LeavingAsks` | `ui/leaveAccount.js:49`: a wallet imported during Lock's save, or while it awaits the logout, is wiped without being asked about (6). |
| `KeystoreSingletons`, `OneHolder` | `keystore.js:605`: `restore()` asks only for `dev`: delete, replace and restore a wallet in any other singleton role leaves two. |
| `LauncherDropped`, `DroppedNeverMined` | `v5/launch.js:826-859`: the receipt reads null, the launch mines, the count reads higher, and it is reported as "dropped … it never mined … safe to launch anew". |
| `LauncherSplit`, `SplitIsSettled` | `v5/bundle.js:166-170` reads the balance before the gate at 228-245 says that nothing is in flight, which is there (243) "so the split is sized on a settled balance". |
| `LauncherMarker`, `LiveLaunchIsGuarded` | `routes/v5.js:751`: `/resolve` with an explicit earlier hash clears the marker of a launch that was parked meanwhile (80-82). |
| `ChartGap`, `NoGapAtGraduation` | `indexer.js:600-603`: trades on the curve after the last poll before its end is seen are never read, against "no gap" (33-35). |
| `ChartDouble`, `ChartedOnce` | With a block between the venue being read and the first head, both loops read a block with different sources; both checked `_seen` before they awaited, against "the dedup set drops anything already charted" (600-601). |
| `ChartLate`, `NothingIsSkipped` | With more such blocks than the rescan margin the rescan begins too late. |
| `BundleClaims`, `BuysMissTheLaunchBlock` | `bundle/fire.js:138-140`: a tick between the read of `block.number` and the launch puts the launch in the block the buys are then released into, where they revert. |
| `BundleClaims`, `OnlyARevertStrands` | `routes/launch.js:22-30` ("In-memory is sufficient"): a lost answer or a restart frees the lock while the launch may be out, and a lagging node takes the next at its nonce. |
| `BundleClaims`, `AFailedLaunchIsNoLaunch` | `fireV2.js:562-568` ("a curve that was never created"): the answer of an asynchronous launch was lost, and it went through. |
| `BundleClaims`, `OvertakesAreSeen` | `fireV2.js:623-629` (a buy in front of its launch is read off the receipts, "so the operator sees them instead of inferring them from a balance"): `waitForReceipt` turns every error into `null` at its deadline (`evm/receipt.js:38-48`), and a paired buy that overtook is then listed as pending, with no block to compare and no flag (617-621). |
| `BundleClaims`, `StrandedIsFlagged` | `fireV2.js:675-681` ("flag every sent buy"): a native buy whose broadcast answer was lost is `failed`, and not flagged. |

(`BundleClaims` holds five invariants; TLC stops at the first, take out those seen.)

Met while modelling, and seen in the model without a configuration of their own:

- *Vault.* An append that tears leaves half a line; the next is glued to it, so a later,
  acknowledged revocation is lost at the next boot (`vaultStore.js:598`).
  `RevocationIsDownFirst` and `RevokedSessionChangesNothing` are therefore checked where
  appends do not tear; and, because of `VaultStaleLog`, with crashes but no disk errors.
  A save stopped between its two writes has rotated `.prev` already: the list before the
  author's session is gone with nothing saved (564/567). The DELETE that had listed a
  copy whose time then ran out may take the next one for a later copy and trim it;
  `FirstCopyOutlivesLaterOnes` excepts it. And a kept copy's name can be taken again:
  `remove` lists the copies (702), the eviction erases one that was listed (643), and if the
  address was deleted in that very instant, or the clock went back, the new copy is
  given the freed name (659-661) and trimmed as the listed one (705). The list then goes
  without a copy, against 695-701; `DeletedListIsKept` excepts `NameStillToCome`, and without the
  exception TLC finds it with the constants of `VaultDeletes`.
- *Chain.* v3 recognises a fill by an absolute balance (`v3/engine.js:372`), which a wallet may
  hold before the transfer; v6 and v7 (`v6/engine.js:247`) compare with a base.
  `FillWaitIsForTheFill` is checked for v6 with wallets that hold more than an order, and one
  run: a second run takes a late fill of the first for its own. "Halts
  after the in-flight step" (`docs/superpowers/specs/2026-08-17-v3-relay-chain-design.md:329`):
  `stop` in fact lets the whole cycle run on (`engine.js:798`). A stop during the last cycle
  leaves the job `stopped` with nothing to resume.
- *Funders.* v2's `start` asks only for the status (`relay/timedFunding.js:335`), so after a stop
  in mid-batch two jobs can sign for the dev wallet: `OneSigner` is stated for v5 and v8. A job
  stopped while its call is out and resumed fires at once, as `nextRunAt` is stale
  (`v8/timedTransfer.js:290`, whose comment says it honours the pause), and a timer armed by
  a resume during the last call outlives its job and, being told only the user, can start the
  next job's tick early; `TicksArePaced` excepts both. v8's one-shot transfer
  (`routes/v8.js:236`) is not seen by the timed start (272).
- *Campaigns.* The guard on `sentTransfers` in `fire()` is never reached, nor the `existing` branch
  of `start()`. A failed write ends `resumeAll()`'s loop, and what is left says it runs, without
  a timer. Pausing or cancelling with a send in flight frees the wallet. After a restored file
  in which two campaigns share a wallet and a failed write at boot, two clicks on resume could
  arm both: `RunningCampaignsShareNoWallet` is stated while no write has failed.
- *Sync.* Importing a wallet again replaces its tags, so a removal names only the new one. A wallet
  removed before the first read comes back with it. The copy of a save that was refused
  twice may lose an import of another tab it never saw (`UnseenImportSurvives`,
  `App.jsx:621`), which no run states.
- *Keystore.* `generate()` that throws in mid-batch leaves wallets in the cache that are in no
  file (436). When the archive write fails after an eviction, the retry returns no `evicted`, so
  the log never names the key, although `README.md:300` says every eviction is logged.
- *Launcher.* After a restart a mined launch nobody saw may be launched again: it fails open, by
  design.
- *Bundles.* v1 waits for receipts with no deadline, so its lock can be held for ever;
  `LaunchEnds` is stated for v2 only.

## 7. What is proved

TLAPS, for every value of the constants that satisfies the modules' named assumptions
(sizes positive, limits natural, finitely many addresses, `NoRec` no record; `Gas < Fund`,
at least one wallet; positive interval and batch, …), each as `THEOREM Spec => …`. `PROJECT.json` "theorems"
lists them with the property of a run each states.

**`VaultProofs`, the store.** `StoreTypes`, `LaneInvariant`, `ChangesNameTheirRev`,
`OtherVersionsSurvive`, `StoreIsARegister`, `DeletedListsAreKept`, `RevokedBeforeGone`,
`RevokedForGood`, `TalliesMatch`, `StoreTypeInvariant`. The rev check is one step of a `put` and the
rename that makes it good another, two awaits later. That nothing comes between them is no
property of a single action: it is `LaneInv`, which says of every intermediate step that what the
request read is still on disk, that its checks still pass, and that another session's
outgoing version is already in `.prev`. `StoreTypeOK /\ LaneInv` is inductive: one step per
action, disk errors and crashes included. The action properties then follow from it and a single
step of `Next`; `StoreIsARegister` is the refinement of `VaultRegister`: every step that
leaves the lists on disk as they are is a stutter, and the two that do not are its two
actions. The byte tallies are left out of `StoreTypeOK`, as these proofs do not need them.
`DeletedListsAreKept` (where any copies are kept, `KeepDeleted > 0`) rests on `KeepInv`: from the
copy's rename to the last unlink it is in `deleted/`, as what is trimmed is never the newest,
except where `NameStillToCome` (section 6). The revocations need three invariants: what
waits in the lane has not waited for longer than `LaneWait`; what was acknowledged
is in memory and in what a restart would read; and so, after its append, is that of the DELETE
that runs. A restart reads the last line of an address in the log over the snapshot, so a
compaction is safe when its log goes with it. Hypotheses: `~Tears`; `KeepsLongEnough`,
`SessionTTL + LaneWait <= RevocationKeep`, which the code satisfies by construction
(`REVOCATION_KEEP_MS` is the day of a session and a minute for the lane); and, of the behaviour,
`UnlinkWorks`: the unlink of the compacted log, when the process lives to try it, works.
Without the first or the last it is false (section 6). Disk errors are otherwise not restricted,
where the run has none.

`TalliesMatch` states that the three counters the store never recomputes while it is up agree with
the disk, and `StoreTypeInvariant` that none goes below zero. `TallyInv` is exact at every disk
step, as the code moves a counter in the step that moves the file, and `LaneInv` supplies
what a write subtracts: the sizes it read are the sizes on disk. The work is in the sums. The
model adds bytes up with the community modules' fold, which is defined by recursion over the
parts of a set, and induction over sets cannot be instantiated here. So the lemmas of "Sums
over finite sets" argue by the least counterexample: a part of a finite set of smallest
cardinality for which a sum does not exist, is not a natural number, or depends on the order of
addition (`SmallestPart`, from the well-foundedness of the naturals). From them come
`TotalChanges` (one member's share changes) and `TotalSplits` (a set is a part and the rest), which
the actions need. `AddrAssumption`, finitely many addresses, is what the code has: an address is 20
bytes.

**`VaultProofs`, the dApp's side.** `SyncTypeInvariant`, `SyncInvariant`, `NothingIsForgotten`,
`LeavesSaved`, `SavedWalletsStay`, `RemovalsAreKept`, `SyncUsesTheRegister`, for any number of tabs,
wallets, keys, acts and losses. None of the properties is inductive: a PUT is accepted long
after its content was put together. `SyncInv` therefore says of every rev that a tab, an answer or
a PUT names, in which life of the copy it was read or written, and that it is not ahead of
the copy (`Behind`); and *while it is the copy's own* (`Current`), that what goes with it is
true of the copy: what the tab knows is the copy's content (`TabKnows`), an answer on its way is
the copy (`TabCall`), and a PUT on its way, also one given up on, would take nothing out
that its sender had not heard of (`PutInv`). When the copy moves, the rev is behind for good
(`BehindStays`), so all this stays true of tabs that do nothing (`OtherTabStays`); for the tab
that moves it is shown action by action. `Heard` is what a merge achieves: the copy's
tombstones are the tab's, and a wallet of the copy that the tab does not hold was removed by
tabs that had held each of its tags. `Sound` (tags were minted, tombstones are of removals)
gives that a tag minted now is in no tombstone. `SavedWalletsStay` and `RemovalsAreKept` are
then one step of `SyncNext`: a PUT of the copy's own life is `Current` when it is accepted. The exception
`clobbered`, a PUT based on a deleted copy's rev, is real (section 6). `TabSaves` and `TabLeaves`
strengthen the two invariants about unsaved changes by what holds while a call is out. TLC
checked `SyncInv` first, as an invariant of `sync` (0.7 M states) and with a second wallet
(5.7 M). `SyncUsesTheRegister` assumes `Content \subseteq Contents`: the register takes what the
tabs send.

**`RelayChainProofs`.** `ChainTypesHold`, `OneCycle`, `NoLostWakeup`, `StepsLand`,
`FillsAreOrders`, `FillIsTheFill`, `RunsComplete`, `CompleteRunsArePlaced`. The first three come
from one invariant, types together with "the cycles that run
are exactly those of the jobs with `inFlight`, one each, at their index; a running job is
the current one, has a cycle left, and has a timer or a cycle in flight; only a running job has
a timer". All steps of a cycle are one of three kinds, going on (`Goto`), ending (`Finish`) and
halting (`Throw`), and the invariant is proved for the kinds, then for each action as one of
them. `StepsLand` (`LandInv`, under `~Slow`, every receipt in time) needs more: for each cycle,
what has landed is at most what is recorded
plus the blind steps, and a step that is still out is not recorded. The fills (`FillInv`,
`Engine = "v6"`): a wallet holds its recorded base and no more until some order for it was filled.
Which order is not told: with a second run on the same wallets a late fill of the first is taken for
the second's, so that the fill is the cycle's *own* is proved, and stated by the run, for one
job, and that it is *some* order's for any number. A complete run (`DoneInv`, `~Slow`): what is
recorded has landed, and each cycle before the index has bought and has its transfer on record, for
any number of runs. That nothing is left in the main wallet (`PlaceInv`: the last wallet's sell
takes all there is) is for one job: a second may sell the same position.

**`TimedFunderProofs`.** `FunderTypes`, `WalletsOnce`, `NoLostWakeup`, `SingleSigner`, `Paced`. The
invariant relates each running tick to its job (busy, at the wallet after `currentIndex`), says
that a running job is the current one and has a wallet left, that `tried` is what
`currentIndex` and the calls that are out imply, and that for v5 and v8 every tick is the current
job's, which is what their `start` refuses for. `Paced` adds `PaceInv`: the time since the
last wallet and what the timer has left make up an interval, unless the last tick was cut short.

**`CampaignProofs`.** `PaidOnce`, `NoWalletIsShared`, `RunningIsArmed`, `SendsAreApart`. Each seed is
in the plan of one campaign; a campaign's only
send is to a transfer that is pending in memory; and a payment that is not forgotten is
recorded as sent in memory while the process is up, on disk when it is down. The writes of
an operation are a sequence of stores, so each is shown of any prefix of it. The other three share
`FullInv`: that plus `ShareInv` (while no write has failed, the running campaigns that boot
is through with have distinct wallets, and those are the ones its loop has claimed) and `ArmInv` (a
timer, a send or an entry in `unarmed`, and no timer due at the instant of a send). These hold
only between the stretches of synchronous code, so each action is taken whole: what it leaves
(`Leaves`, `Turn`), and what it finds (`Ready`).

**`KeystoreProofs`.** `KeysAreKept`, `GoneForGood`. A key the user is owed is in a file, and in the
server's view of it, which is its cache where it has one; between the two writes of a delete or a
restore it is in both files, as the write that adds it comes first.

**`LauncherProofs`.** `Typing`, `Booking`, `OneFee`, `OneKey`, `MarkerKept`, `NoHoles`. Every launch was
signed at a nonce the count had reached, so all launches that are still out have the nonce
`count`, and one of them can mine; at most one handler holds the key, by the locks; and,
where `/resolve` is asked of the parked launch only (`AnyHash = FALSE`), a launch that can
still mine is parked or its handler waits for it. `NoHoles` rests on `InFront`: behind every nonce
that a handler has read as pending, signs at, or has sent and that may yet arrive, each lower
one is mined, pooled, or forgotten by the node. It is stable because the node only mines, keeps
or forgets, and because a fan-out sends a transfer only after the one before was taken.

**`ChartFeedProofs`.** `FeedTypes`, `NoBlockIsPassedOver`, `DoublesWereReadTogether`,
`StreamsAreUpToDate`. One loop owns the blocks up to the first head and the other those above it;
a poll gone back below the first head reads the pool only, which has no trade in blocks that were
there when the token was seen on its curve (`ReadInv`). So a trade both may hold is one of the
pool, between the venue's read and the first head, however far these are apart: `Shared` says
that what a loop holds is not charted yet, or was once by the other while both held it, and that
what is charted twice was. Only `NoBlockIsPassedOver` has a hypothesis, `LoadLag <= Margin`, and
fails without it (section 6). For `StreamsAreUpToDate` the invariant is `SentInv` with `Counted`:
the registry's count is the number of open streams, so no indexer is stopped under one; what the poll
brings is pending until a batch; what the history brings lies below the first head, and each
stream gets a snapshot in the step that completes its hour or its day (`HistoryAdds`); nothing is
charted above the last head, so a mark asked for at that head is as new as every trade, and a
read that was overtaken is dirty and asks again (`ReadIs`). TLC checked it first, with two
visitors, two loads and a first head later than the margin.

**`BundleProofs`.** `Types`, `OneAtATime`, `NoGaps`, `NoneIsPassedOff`, `BuysFollow`. One inductive
invariant in parts, each shown of all steps in a lemma of its own. `Lock` and `Posted` say where a
handler is and what it has sent by then; a step of a handler is only ever "send these, go
there" (`Moves`, `Sends`). `NoGap` says that below each nonce read, on its way or queued every
nonce is spent or held, and of the queue: *in front of it*, so the first that can run is never
behind a hole; executing one shifts the places (`NoGapShrinks`), and a nonce once used stays what it
was (`PlanKept`). `Executed`, `Reported` and `Unasked` relate outcomes, order of execution and
result: a buy executed after a launch that created its curve is not stranded, and one reported
confirmed and unflagged did buy. `InOrder`: a launch
whose answer came is in front of all that later launches send, and a native launch of its
buys. `Behind`: a native buy that was executed has its launch before it or gone, never still
queued, so one that is listed as pending under a confirmed launch, its receipt unread, has
stranded nothing. Of a paired buy no such thing holds (`OvertakesAreSeen`, section 6). `Doubts`:
what a launch reads is past every launch known to have run, so what takes its nonce is of one in
doubt; this is the case of the receipt that timed out, the lost answer and the
restart. No hypothesis but the module's own assumption.

## 8. What is only model-checked

- Liveness: `LaneDrains`, `RunEnds`, `JobEnds`, `CampaignEnds`, `ImportReachesTheCopy`,
  `Unbricked`, `CatchesUp`, `LaunchEnds`. Fairness and ENABLED are beyond the prover.
- Where a theorem has a hypothesis (section 7), the cases outside it: a receipt that does not come
  in time, appends that tear, a second job on the same wallets.

## 9. What is not modelled

Cryptography (signatures, envelopes, key derivation), HTTP parsing and validation, wording
of answers and of the log, the curve arithmetic and the building of transactions.
Of `account.js`: challenges and rate limits. Of the engines: the routes around them and the
keystore they read. Of the funders: the one-shot many-wallet runs. Of the bundles: selling
and swapping. The components of section 1 without a module are not modelled: sizing and
funding because they are arithmetic and one-shot loops that come next in the plan; the console,
the UI, and the read-only services because they keep no state two actors share; the contracts
because each of their calls is one atomic transaction.
