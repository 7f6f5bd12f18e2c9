------------------------------ MODULE ChartFeed ------------------------------
(***************************************************************************)
(* The trading page's chart feed: one token's indexer                      *)
(* (backend/src/tp/indexer.js), its entry in the registry, and the streams *)
(* that show it (backend/src/tp/stream.js).                                *)
(*                                                                         *)
(* Two loops read the chain, each over awaits of its own: the live poll,   *)
(* upward from the head of the chain at start, and the history, downward   *)
(* from it, first an hour and then a day.  Both add to one set of charted  *)
(* trades, which a trade is checked against when it is read and joins when *)
(* its block's time is known.  When the token leaves its curve for a pool  *)
(* the live poll changes its source and goes back to re-read.              *)
(*                                                                         *)
(* A block holds one trade at most; one is charted as often as it was      *)
(* added.  Candles, prices and times are left out, and so are the caps on  *)
(* what is kept (the last 500 trades, 20,000 keys, a day of candles).      *)
(* There is no clock: a timer fires at any time, so what wss.js does,      *)
(* which is to move timers, is left out, and so is the interval between    *)
(* phase reads.                                                            *)
(***************************************************************************)
EXTENDS Integers, Sequences, FiniteSets

CONSTANTS
  Viewers,
  Begun,       \* the chain at the start
  MaxBlock,    \* bound on the chain
  LogWindow,   \* LOG_WINDOW, blocks per read
  HourBlocks,  \* HOUR_BLOCKS, what the history reads first
  DayBlocks,   \* DAY_BLOCKS
  Margin,      \* PHASE_RESCAN_MARGIN
  LoadLag,     \* blocks that may come between the venue being read and the first head
  MaxLoads,    \* bound on how often an indexer is made
  Unreliable,  \* loops whose reads may throw: "live", "hist", "mark"
  MaxFaults    \* bound on reads that throw

ASSUME ChartFeedAssumption ==
  /\ Begun \in Seq({"curve", "quiet"}) /\ MaxBlock \in Nat /\ Len(Begun) \in 1..MaxBlock
  /\ LogWindow \in Nat \ {0} /\ HourBlocks \in Nat \ {0} /\ DayBlocks \in Nat /\ DayBlocks >= HourBlocks
  /\ Margin \in Nat /\ LoadLag \in Nat /\ MaxLoads \in Nat
  /\ Unreliable \subseteq {"live", "hist", "mark"} /\ MaxFaults \in Nat

None   == -1
Never  == MaxBlock + 1
Blocks == 1..MaxBlock
Venues == {"curve", "pool"}   \* venue.kind "curve" and "graduated"

VARIABLES
  blocks,   \* the trade in each block, and where: "quiet", "curve" or "pool"
  phase,    \* of the token: 0 on its curve, 1 migrating, 2 in its pool
  up,       \* the registry holds an indexer for the token
  refs,     \* its entry's count of streams
  viewer,   \* each visitor's stream
  shown,    \* the trades it has been sent
  ix,       \* the indexer's state
  live,     \* the live poll: the await it is at
  hist,     \* the history loop
  reading,  \* the readMark in flight
  mark,     \* the last mark that was read
  loads, loadedAt, faults,
  missed,   \* history: the last readMark failed
  left,     \* history: the cursor when the curve was found to be left, or Never
  both      \* history: the blocks of trades that both loops held at once

world == <<blocks, phase>>
seats == <<up, refs, viewer, loads, loadedAt>>
marks == <<reading, mark, missed>>
ghosts == <<left, both>>
vars == <<blocks, phase, up, refs, viewer, shown, ix, live, hist, reading, mark, loads, loadedAt,
          faults, missed, ghosts>>

\* The indexer as the constructor leaves it.
Fresh(v) == [venue |-> v, cursor |-> None, lastHead |-> 0, low |-> 0, first |-> 0, history |-> 0,
             confirmed |-> 0, times |-> [b \in Blocks |-> 0], pending |-> {}, flushing |-> FALSE]
Idle   == [pc |-> "timer", to |-> 0, target |-> 0, found |-> {}]
Asleep == [pc |-> "none", from |-> 0, found |-> {}]
NoMark == [venue |-> "none", at |-> 0]
NoRead == [busy |-> FALSE, dirty |-> FALSE, venue |-> "none", at |-> 0]

TypeOK ==
  /\ Len(blocks) <= MaxBlock /\ blocks \in Seq(Venues \cup {"quiet"}) /\ phase \in 0..2
  /\ up \in BOOLEAN /\ refs \in Nat
  /\ viewer \in [Viewers -> {"none", "resolving", "gone", "open"}]
  /\ shown \in [Viewers -> SUBSET Blocks]
  /\ ix \in [venue : Venues, cursor : -1..MaxBlock, lastHead : 0..MaxBlock, low : 0..(MaxBlock + 1),
             first : 0..MaxBlock, history : 0..2, confirmed : 0..MaxBlock,
             times : [Blocks -> Nat], pending : SUBSET Blocks, flushing : BOOLEAN]
  /\ live \in [pc : {"timer", "scan", "phase"}, to : 0..MaxBlock, target : 0..MaxBlock,
               found : SUBSET Blocks]
  /\ hist \in [pc : {"none", "timer", "scan", "done"}, from : 0..MaxBlock, found : SUBSET Blocks]
  /\ reading \in [busy : BOOLEAN, dirty : BOOLEAN, venue : Venues \cup {"none"}, at : 0..MaxBlock]
  /\ mark \in [venue : Venues \cup {"none"}, at : 0..MaxBlock]
  /\ loads \in 0..MaxLoads /\ loadedAt \in 0..MaxBlock
  /\ faults \in 0..MaxFaults
  /\ missed \in BOOLEAN /\ left \in 0..Never /\ both \subseteq Blocks

Init ==
  /\ blocks = Begun /\ phase = 0
  /\ up = FALSE /\ refs = 0 /\ loads = 0 /\ loadedAt = 0
  /\ viewer = [v \in Viewers |-> "none"] /\ shown = [v \in Viewers |-> {}]
  /\ ix = Fresh("curve") /\ live = Idle /\ hist = Asleep
  /\ reading = NoRead /\ mark = NoMark /\ missed = FALSE
  /\ faults = 0 /\ left = Never /\ both = {}
-----------------------------------------------------------------------------
(* The chain: a curve trades until the token leaves it, then its pool.     *)

tip == Len(blocks)
Loading == up /\ ix.cursor = None

Mint(trade) ==
  /\ tip < MaxBlock /\ (Loading => tip < loadedAt + LoadLag)
  /\ trade = "curve" => phase = 0
  /\ trade = "pool" => phase = 2
  /\ blocks' = Append(blocks, trade)
  /\ UNCHANGED <<phase, seats, shown, ix, live, hist, marks, faults, ghosts>>

Migrate ==
  /\ phase < 2 /\ (Loading => LoadLag > 0)
  /\ phase' = phase + 1
  /\ UNCHANGED <<blocks, seats, shown, ix, live, hist, marks, faults, ghosts>>
-----------------------------------------------------------------------------
(* What both loops add to.                                                 *)

Charted(x) == {b \in Blocks : x.times[b] > 0}
Max2(a, b) == IF a > b THEN a ELSE b
Min2(a, b) == IF a < b THEN a ELSE b

Throws(loop) == loop \in Unreliable /\ faults < MaxFaults /\ faults' = faults + 1

\* Mutant: what is charted is read again.
ScanUnasked(x, from, to, sources) == {b \in from..to : blocks[b] \in sources}

\* _scan: the trades of these sources that are not charted at the time of the read.
Scan(x, from, to, sources) == {b \in from..to : blocks[b] \in sources /\ x.times[b] = 0}

\* What a loop has read and is yet to chart, and what both had of it at once.
Holds(loop) == IF loop.pc = "scan" THEN loop.found ELSE {}
Together == both \cup (Holds(live') \cap Holds(hist'))

liveFilters(v) == {v}
historyFilters(v) == IF v = "pool" THEN {"pool", "curve"} ELSE {"curve"}

\* _ingest.
Ingest(x, found, isLive) ==
  [x EXCEPT !.times = [b \in Blocks |-> IF b \in found THEN @[b] + 1 ELSE @[b]],
            !.pending = IF isLive THEN @ \cup found ELSE @]

\* Mutant: a request during a read is dropped.
RequestMarkUnlessBusy(v, at) ==
  /\ reading' = IF reading.busy THEN reading
                ELSE [busy |-> TRUE, dirty |-> FALSE, venue |-> v, at |-> at]
  /\ missed' = (missed /\ reading.busy)
  /\ UNCHANGED mark

\* _requestMark: one read at a time, and once more if asked during it.
RequestMark(v, at) ==
  /\ reading' = IF reading.busy THEN [reading EXCEPT !.dirty = TRUE]
                ELSE [busy |-> TRUE, dirty |-> FALSE, venue |-> v, at |-> at]
  /\ missed' = (missed /\ reading.busy)
  /\ UNCHANGED mark

MarkSettles(ok) ==
  /\ up /\ reading.busy
  /\ mark' = IF ok /\ reading.venue = ix.venue THEN [venue |-> ix.venue, at |-> reading.at] ELSE mark
  /\ reading' = IF reading.dirty
                THEN [busy |-> TRUE, dirty |-> FALSE, venue |-> ix.venue, at |-> ix.lastHead]
                ELSE NoRead
  /\ missed' = (~ok /\ ~reading.dirty)
  /\ UNCHANGED <<world, seats, shown, ix, live, hist, ghosts>>

MarkAnswers == MarkSettles(TRUE) /\ UNCHANGED faults
MarkFails ==
  /\ Throws("mark")
  /\ MarkSettles(FALSE)
-----------------------------------------------------------------------------
(* The history loop.                                                       *)

HourFloor(x) == Max2(1, x.first - HourBlocks + 1)
DayFloor(x) == Max2(1, x.first - DayBlocks + 1)

\* _historyWindow: the next window down, to the hour's floor first.
Window(x) ==
  LET to == x.low - 1
      floor == IF x.low > HourFloor(x) THEN HourFloor(x) ELSE DayFloor(x)
      from == Max2(floor, to - LogWindow + 1)
  IN  [pc |-> "scan", from |-> from, found |-> Scan(x, from, to, historyFilters(x.venue))]

HistTick ==
  /\ up /\ hist.pc = "timer"
  /\ hist' = Window(ix)
  /\ UNCHANGED <<world, seats, shown, ix, live, marks, faults, left>>
  /\ both' = Together

\* historySeconds once a window that reached down to `from` is in.
HistoryAt(x, from) ==
  IF from <= DayFloor(x) THEN 2 ELSE IF from <= HourFloor(x) THEN 1 ELSE x.history

\* A window is in: each stream is sent a snapshot when the history has grown.
HistAnswers ==
  /\ up /\ hist.pc = "scan"
  /\ LET got == [Ingest(ix, hist.found, FALSE) EXCEPT !.low = hist.from]
         grown == [got EXCEPT !.history = HistoryAt(ix, hist.from)]
     IN  /\ ix' = grown
         /\ hist' = [Asleep EXCEPT !.pc = IF hist.from > DayFloor(ix) THEN "timer" ELSE "done"]
         /\ shown' = [v \in Viewers |-> IF viewer[v] = "open" /\ grown.history > ix.history
                                        THEN Charted(grown) ELSE shown[v]]
         /\ IF ix.low > HourFloor(ix) /\ hist.from <= HourFloor(ix)
            THEN RequestMark(ix.venue, ix.lastHead) ELSE UNCHANGED marks
  /\ UNCHANGED <<world, seats, live, faults, ghosts>>

\* Mutant: the history is not scheduled again.
HistGivesUp ==
  /\ up /\ hist.pc = "scan" /\ Throws("hist")
  /\ hist' = Asleep
  /\ UNCHANGED <<world, seats, shown, ix, live, marks, ghosts>>

HistFails ==
  /\ up /\ hist.pc = "scan" /\ Throws("hist")
  /\ hist' = [Asleep EXCEPT !.pc = "timer"]
  /\ UNCHANGED <<world, seats, shown, ix, live, marks, ghosts>>
-----------------------------------------------------------------------------
(* The live poll.                                                          *)

\* The end of _tick: the timers of the next tick and of the flush.
EndTick(x) ==
  /\ live' = Idle
  /\ ix' = [x EXCEPT !.flushing = @ \/ x.pending # {}]

\* The next window of _poll; after the last the phase may be due, if there is one.
Poll(x, target) ==
  IF target > x.cursor
  THEN LET to == Min2(target, x.cursor + LogWindow)
       IN  /\ ix' = x
           /\ live' = [pc |-> "scan", to |-> to, target |-> target,
                       found |-> Scan(x, x.cursor + 1, to, liveFilters(x.venue))]
  ELSE \/ EndTick(x)
       \/ /\ x.venue = "curve"
          /\ ix' = x /\ live' = [Idle EXCEPT !.pc = "phase"]

\* _init: history from the head down, the live poll from the next block up.
Begins(x) == [x EXCEPT !.cursor = tip, !.lastHead = tip, !.low = tip + 1, !.first = tip,
                       !.confirmed = tip]

\* A tick, up to the answer to its getBlockNumber; the first one begins.
Tick ==
  /\ up /\ live.pc = "timer"
  /\ IF ix.cursor = None
     THEN ix' = Begins(ix) /\ hist' = [Asleep EXCEPT !.pc = "timer"] /\ UNCHANGED live
     ELSE Poll([ix EXCEPT !.lastHead = Max2(@, tip)], tip) /\ UNCHANGED hist
  /\ UNCHANGED <<world, seats, shown, marks, faults, left>>
  /\ both' = Together

ScanAnswers ==
  /\ up /\ live.pc = "scan"
  /\ Poll([Ingest(ix, live.found, TRUE) EXCEPT !.cursor = live.to], live.target)
  /\ UNCHANGED hist
  /\ UNCHANGED <<world, seats, shown, marks, faults, left>>
  /\ both' = Together

\* A read throws: what was read before it stays, and the next tick begins where it ended.
LiveFails ==
  /\ up /\ live.pc = "scan"
  /\ Throws("live")
  /\ EndTick(ix)
  /\ UNCHANGED <<world, seats, shown, hist, marks, ghosts>>

\* Mutant: the new source is followed from here on.
RewoundNot(x) == x.cursor

\* _maybeCheckPhase: the source changes, and is read again from before the last block at
\* which the old one was confirmed.
Rewound(x) == Min2(x.cursor, Max2(1, x.confirmed - Margin) - 1)

PhaseAnswers ==
  /\ up /\ live.pc = "phase"
  /\ CASE phase = 0 -> EndTick([ix EXCEPT !.confirmed = ix.cursor]) /\ UNCHANGED <<marks, left>>
       [] phase = 1 -> EndTick(ix) /\ UNCHANGED <<marks, left>>
       [] phase = 2 -> /\ EndTick([ix EXCEPT !.venue = "pool", !.cursor = Rewound(ix),
                                             !.confirmed = ix.cursor])
                       /\ RequestMark("pool", ix.lastHead)
                       /\ left' = ix.cursor
  /\ UNCHANGED <<world, seats, shown, hist, faults, both>>

PhaseFails ==
  /\ up /\ live.pc = "phase"
  /\ Throws("live")
  /\ EndTick(ix)
  /\ UNCHANGED <<world, seats, shown, hist, marks, ghosts>>

\* _flush: one batch to every stream, and then a mark.
Flush ==
  /\ up /\ ix.flushing
  /\ ix' = [ix EXCEPT !.flushing = FALSE, !.pending = {}]
  /\ IF ix.pending = {} THEN UNCHANGED <<shown, marks>>
     ELSE /\ shown' = [v \in Viewers |-> IF viewer[v] = "open" THEN shown[v] \cup ix.pending ELSE shown[v]]
          /\ RequestMark(ix.venue, ix.lastHead)
  /\ UNCHANGED <<world, seats, live, hist, faults, ghosts>>
-----------------------------------------------------------------------------
(* The streams and the registry.                                           *)

Ask(v) ==
  /\ viewer[v] = "none"
  /\ viewer' = [viewer EXCEPT ![v] = "resolving"]
  /\ UNCHANGED <<world, up, refs, loads, loadedAt, shown, ix, live, hist, marks, faults, ghosts>>

\* The venue is read: a token between curve and pool is refused.
Refused(v) ==
  /\ viewer[v] \in {"resolving", "gone"} /\ phase = 1
  /\ viewer' = [viewer EXCEPT ![v] = "none"]
  /\ UNCHANGED <<world, up, refs, loads, loadedAt, shown, ix, live, hist, marks, faults, ghosts>>

\* acquire: the token's indexer, or a new one at the venue just read.
acquire ==
  IF up THEN UNCHANGED <<up, loads, loadedAt, ix, live, ghosts>>
  ELSE /\ loads < MaxLoads /\ loads' = loads + 1 /\ loadedAt' = tip
       /\ up' = TRUE /\ live' = Idle /\ left' = Never /\ both' = {}
       /\ ix' = Fresh(IF phase = 2 THEN "pool" ELSE "curve")

\* A stream opens with a snapshot, its listeners in the same step; or its visitor has
\* left meanwhile, and the indexer is released at once.
Open(v) ==
  /\ viewer[v] \in {"resolving", "gone"} /\ phase # 1
  /\ acquire
  /\ IF viewer[v] = "resolving"
     THEN /\ refs' = refs + 1
          /\ viewer' = [viewer EXCEPT ![v] = "open"]
          /\ shown' = [shown EXCEPT ![v] = Charted(ix)]
     ELSE viewer' = [viewer EXCEPT ![v] = "none"] /\ UNCHANGED <<refs, shown>>
  /\ UNCHANGED <<world, hist, marks, faults>>

\* The visitor leaves: onEarlyClose, or finish.
Leave(v) ==
  \/ /\ viewer[v] = "resolving"
     /\ viewer' = [viewer EXCEPT ![v] = "gone"]
     /\ UNCHANGED <<world, up, refs, loads, loadedAt, shown, ix, live, hist, marks, faults, ghosts>>
  \/ /\ viewer[v] = "open"
     /\ viewer' = [viewer EXCEPT ![v] = "none"] /\ refs' = Max2(0, refs - 1)
     /\ shown' = [shown EXCEPT ![v] = {}]
     /\ UNCHANGED <<world, up, loads, loadedAt, ix, live, hist, marks, faults, ghosts>>

\* Nobody watches: five minutes later, or when another token needs the place, the
\* indexer is stopped, and what its reads bring is dropped.
Stop ==
  /\ up /\ refs = 0
  /\ up' = FALSE /\ ix' = Fresh("curve") /\ live' = Idle /\ hist' = Asleep
  /\ reading' = NoRead /\ mark' = NoMark /\ missed' = FALSE /\ left' = Never
  /\ both' = {}
  /\ UNCHANGED <<world, refs, viewer, loads, loadedAt, shown, faults>>
-----------------------------------------------------------------------------
Chain == Migrate \/ \E trade \in Venues \cup {"quiet"} : Mint(trade)
Loops == HistTick \/ HistAnswers \/ Tick \/ ScanAnswers \/ PhaseAnswers \/ Flush
Visits == \E v \in Viewers : Ask(v) \/ Refused(v) \/ Open(v) \/ Leave(v)

Next ==
  \/ Chain \/ Loops \/ Visits \/ Stop
  \/ MarkAnswers \/ MarkFails \/ HistFails \/ LiveFails \/ PhaseFails

Spec == Init /\ [][Next]_vars

\* Timers fire and reads settle; nothing is owed by the visitors or the chain.
FairSpec ==
  /\ Spec
  /\ WF_vars(HistTick) /\ WF_vars(HistAnswers) /\ WF_vars(Flush)
  /\ WF_vars(Tick) /\ WF_vars(ScanAnswers) /\ WF_vars(PhaseAnswers)
-----------------------------------------------------------------------------
\* Two loops read the chain, each looking at what is charted before an await and charting
\* after it (indexer.js:511, 575).  A trade is charted twice only if both held it at once,
\* which a rewound poll and the history may do with a pool's trade between the reading of
\* the venue and the first head; it is not charted again after that.
TwiceOnlyIfReadTogether ==
  \A b \in Blocks : ix.times[b] > 1 =>
    ix.times[b] = 2 /\ b \in both /\ blocks[b] = "pool" /\ b \in (loadedAt + 1)..ix.first

\* The trades between the history's low end and the cursor, of what the indexer knows of.
Read == {b \in 1..tip : ix.low <= b /\ b <= ix.cursor /\ blocks[b] \in historyFilters(ix.venue)}

\* Each of them is charted, through errors, both loops' windows and the change of source;
\* but for a curve's trades after the last poll before it was found to be left, for which
\* see NoGapAtGraduation.
NothingIsSkipped ==
  up => \A b \in Read : ix.times[b] > 0 \/ (blocks[b] = "curve" /\ b > left)

\* An open stream hangs on a running indexer, has been sent every charted trade but those
\* of the next batch and of a history that is not complete, and a mark that is as new as
\* its trades and of its venue is there or on its way, unless the last read failed.
ViewersAreUpToDate ==
  \A v \in Viewers : viewer[v] = "open" =>
    /\ up
    /\ \A b \in Charted(ix) \ shown[v] :
         \/ b \in ix.pending
         \/ b <= ix.first /\ (IF b < HourFloor(ix) THEN ix.history < 2 ELSE ix.history < 1)
    /\ reading.busy \/ missed
         \/ /\ mark # NoMark => mark.venue = ix.venue
            /\ \A b \in shown[v] : b > ix.first => b \in ix.pending \/ mark.at >= b

\* While the token is watched, every block is polled, sent, and the day's history read.
CatchesUp ==
  \A n \in Len(Begun)..MaxBlock : (up /\ tip = n) ~>
    (~up \/ (ix.cursor >= n /\ ix.history = 2 /\ ix.pending = {}))
-----------------------------------------------------------------------------
(* What the code or its comments say and these violate (see README).       *)

\* Each of them is charted: a change of source "re-reads the new source from just before
\* the block where the old phase was last confirmed - no gap" (indexer.js:33-35).
NoGapAtGraduation == up => \A b \in Read : ix.times[b] > 0

\* A trade is charted once: "the dedup set drops anything already charted"
\* (indexer.js:600-601).
ChartedOnce == \A b \in Blocks : ix.times[b] <= 1
=============================================================================
