-------------------------- MODULE ChartFeedProofs --------------------------
(***************************************************************************)
(* Proofs about ChartFeed for any chain, window, margin, number of         *)
(* visitors and of reads that throw:                                       *)
(*   - the types;                                                          *)
(*   - an open stream is up to date (ViewersAreUpToDate);                  *)
(*   - no block is passed over (NothingIsSkipped), as long as no more      *)
(*     blocks come between the venue's read and the first head than the    *)
(*     poll goes back when its source changes;                             *)
(*   - a trade is charted twice only if both loops held it at once         *)
(*     (TwiceOnlyIfReadTogether).                                          *)
(*                                                                         *)
(* What they rest on: of the two loops one owns the blocks up to the head  *)
(* it began at and the other those above; a poll that has gone back below  *)
(* that head reads the pool only, which has no trade in any block that was *)
(* there when the token was seen on its curve.  For the streams: what the  *)
(* poll brings is pending until it is sent; what the history brings is     *)
(* below the head it began at, and is sent when it has reached its hour or *)
(* its day; a mark is asked for with each batch, at a head above all that  *)
(* is charted; and the registry counts the open streams, so that it stops  *)
(* no indexer under one.                                                   *)
(***************************************************************************)
EXTENDS ChartFeed, FiniteSetTheorems, TLAPS

NotIn(venue, last) == \A b \in 1..tip : b <= last => blocks[b] # venue

\* There is no trade of a pool that is not there yet.
PoolOpens == tip >= 1 /\ (phase # 2 => NotIn("pool", tip))

\* Where the token was when the indexer was made.
Origin ==
  /\ loadedAt <= tip
  /\ ix.venue = "curve" \/ left # Never => NotIn("pool", loadedAt)
  /\ ix.venue = "pool" => phase = 2
  /\ ix.venue = "pool" /\ left = Never => \A b \in 1..tip : b > loadedAt => blocks[b] # "curve"
  /\ left # Never => ix.venue = "pool"

\* Before the first head nothing is read.
Waits ==
  /\ live.pc = "timer" /\ hist.pc = "none" /\ left = Never
  /\ tip <= loadedAt + LoadLag
  /\ \A b \in Blocks : ix.times[b] = 0

\* Where the loops are.
Places ==
  /\ loadedAt <= ix.first /\ ix.first <= loadedAt + LoadLag /\ 1 <= ix.first /\ ix.first <= tip
  /\ 1 <= ix.low /\ ix.low <= ix.first + 1 /\ ix.cursor <= tip /\ ix.confirmed <= tip
  /\ ix.venue = "curve" => NotIn("pool", ix.confirmed) \/ ix.confirmed = ix.first
  /\ left = Never => ix.cursor >= ix.first
  /\ left # Never => left <= tip
  /\ live.pc = "phase" => ix.venue = "curve"
  /\ live.pc = "scan" => ix.cursor < live.to /\ live.to <= live.target /\ live.target <= tip
  /\ hist.pc \in {"timer", "scan"} => ix.low > DayFloor(ix)
  /\ hist.pc = "scan" => DayFloor(ix) <= hist.from /\ hist.from < ix.low

\* What the history is to bring: of a token whose source has changed the poll brings
\* the pool's trades.
Owed == IF ix.venue = "pool" /\ left = Never THEN {"pool", "curve"} ELSE {"curve"}

HistoryIsIn ==
  /\ \A b \in 1..tip : ix.low <= b /\ b <= ix.first /\ blocks[b] \in Owed => ix.times[b] > 0
  /\ hist.pc = "scan" =>
       \A b \in 1..tip : hist.from <= b /\ b < ix.low /\ blocks[b] \in Owed =>
         ix.times[b] > 0 \/ b \in hist.found

PollIsIn ==
  /\ left = Never =>
       \A b \in 1..tip : ix.first < b /\ b <= ix.cursor /\ blocks[b] = ix.venue => ix.times[b] > 0
  /\ left # Never =>
       /\ \A b \in 1..tip : ix.first < b /\ b <= left /\ blocks[b] = "curve" => ix.times[b] > 0
       /\ LoadLag <= Margin =>
            \A b \in 1..tip : b <= ix.cursor /\ blocks[b] = "pool" => ix.times[b] > 0
  /\ live.pc = "scan" =>
       \A b \in 1..tip : ix.cursor < b /\ b <= live.to /\ blocks[b] = ix.venue =>
         ix.times[b] > 0 \/ b \in live.found

Running == up /\ ix.cursor # None

ReadInv ==
  /\ PoolOpens
  /\ ~up => hist.pc = "none"
  /\ up => Origin
  /\ Loading => Waits
  /\ Running => Places /\ HistoryIsIn /\ PollIsIn

\* A trade the loops may both read: of a pool that opened before the first head.
Between(b) == loadedAt < b /\ b <= ix.first /\ b <= tip /\ blocks[b] = "pool"

\* What a loop holds is not charted, or was by the other while both held it.
Shared ==
  /\ Loading => both = {}
  /\ \A b \in Holds(live) : b \in 1..tip /\ ix.cursor < b /\ blocks[b] = ix.venue
  /\ \A b \in Holds(hist) : b \in 1..tip /\ b <= ix.first
  /\ \A b \in Holds(live) \cap Holds(hist) : b \in both /\ ix.times[b] = 0
  /\ \A b \in Holds(live) \cup Holds(hist) : ix.times[b] = 0 \/ (ix.times[b] = 1 /\ b \in both)
  /\ \A b \in Blocks : ix.times[b] <= 1 \/ (ix.times[b] = 2 /\ b \in both)
  /\ \A b \in both : Between(b)
-----------------------------------------------------------------------------
(* The types                                                               *)

IxType ==
  [venue : Venues, cursor : -1..MaxBlock, lastHead : 0..MaxBlock, low : 0..(MaxBlock + 1),
   first : 0..MaxBlock, history : 0..2, confirmed : 0..MaxBlock,
   times : [Blocks -> Nat], pending : SUBSET Blocks, flushing : BOOLEAN]
LiveType == [pc : {"timer", "scan", "phase"}, to : 0..MaxBlock, target : 0..MaxBlock,
             found : SUBSET Blocks]
HistType == [pc : {"none", "timer", "scan", "done"}, from : 0..MaxBlock, found : SUBSET Blocks]
ReadType == [busy : BOOLEAN, dirty : BOOLEAN, venue : Venues \cup {"none"}, at : 0..MaxBlock]
MarkType == [venue : Venues \cup {"none"}, at : 0..MaxBlock]

LEMMA TypeParts ==
  TypeOK <=>
    /\ Len(blocks) <= MaxBlock /\ blocks \in Seq(Venues \cup {"quiet"}) /\ phase \in 0..2
    /\ up \in BOOLEAN /\ refs \in Nat
    /\ viewer \in [Viewers -> {"none", "resolving", "gone", "open"}]
    /\ shown \in [Viewers -> SUBSET Blocks]
    /\ ix \in IxType /\ live \in LiveType /\ hist \in HistType
    /\ reading \in ReadType /\ mark \in MarkType
    /\ loads \in 0..MaxLoads /\ loadedAt \in 0..MaxBlock
    /\ faults \in 0..MaxFaults
    /\ missed \in BOOLEAN /\ left \in 0..Never /\ both \subseteq Blocks
BY DEF TypeOK, IxType, LiveType, HistType, ReadType, MarkType

LEMMA Numbers ==
  /\ MaxBlock \in Nat /\ MaxBlock >= 1 /\ LogWindow \in Nat /\ LogWindow >= 1
  /\ HourBlocks \in Nat /\ HourBlocks >= 1 /\ DayBlocks \in Nat /\ DayBlocks >= HourBlocks
  /\ Margin \in Nat /\ LoadLag \in Nat /\ MaxLoads \in Nat /\ MaxFaults \in Nat
  /\ Begun \in Seq({"curve", "quiet"}) /\ Len(Begun) >= 1 /\ Len(Begun) <= MaxBlock
<1>1. Len(Begun) \in 1..MaxBlock /\ MaxBlock \in Nat
  BY ChartFeedAssumption
<1>. QED BY <1>1, ChartFeedAssumption

\* The chain only grows, by a block that changes none of the others.
LEMMA Grows ==
  ASSUME TypeOK, NEW trade \in Venues \cup {"quiet"}, tip < MaxBlock, blocks' = Append(blocks, trade)
  PROVE  /\ tip' = tip + 1 /\ tip \in Nat /\ blocks' \in Seq(Venues \cup {"quiet"})
         /\ \A b \in 1..tip : blocks'[b] = blocks[b]
         /\ blocks'[tip + 1] = trade
BY DEF TypeOK, tip

LEMMA WindowType ==
  ASSUME ix \in IxType
  PROVE  Window(ix) \in HistType
<1>. DEFINE floor == IF ix.low > HourFloor(ix) THEN HourFloor(ix) ELSE DayFloor(ix)
            from == Max2(floor, ix.low - 1 - LogWindow + 1)
<1>1. ix.low \in 0..(MaxBlock + 1) /\ ix.first \in 0..MaxBlock
  BY DEF IxType
<1>2. floor \in 1..MaxBlock
  BY <1>1, Numbers DEF HourFloor, DayFloor, Max2
<1>3. from \in 1..MaxBlock
  <2>. HIDE DEF floor
  <2>. QED BY <1>1, <1>2, Numbers DEF Max2
<1>4. Scan(ix, from, ix.low - 1, historyFilters(ix.venue)) \in SUBSET Blocks
  <2>. HIDE DEF from, floor
  <2>. QED BY <1>1, <1>3, Numbers DEF Scan, Blocks
<1>5. Window(ix) = [pc |-> "scan", from |-> from,
                    found |-> Scan(ix, from, ix.low - 1, historyFilters(ix.venue))]
  BY DEF Window
<1>. QED
  <2>. HIDE DEF from, floor
  <2>. QED BY <1>3, <1>4, <1>5 DEF HistType

\* Of what the invariants are about only the charted trades may differ.
Same(y, x) ==
  /\ y.low = x.low /\ y.cursor = x.cursor /\ y.venue = x.venue
  /\ y.first = x.first /\ y.confirmed = x.confirmed

Adds(y, x, found) ==
  \A b \in Blocks : y.times[b] = IF b \in found THEN x.times[b] + 1 ELSE x.times[b]

LEMMA IngestType ==
  ASSUME NEW x \in IxType, NEW found \in SUBSET Blocks, NEW isLive \in BOOLEAN
  PROVE  /\ Ingest(x, found, isLive) \in IxType
         /\ Same(Ingest(x, found, isLive), x)
         /\ Adds(Ingest(x, found, isLive), x, found)
<1>. DEFINE y == Ingest(x, found, isLive)
<1>. DEFINE T == [b \in Blocks |-> IF b \in found THEN x.times[b] + 1 ELSE x.times[b]]
            P == IF isLive THEN x.pending \cup found ELSE x.pending
<1>1. x.times \in [Blocks -> Nat] /\ x.pending \in SUBSET Blocks
  BY DEF IxType
<1>2. T \in [Blocks -> Nat] /\ P \in SUBSET Blocks
  BY <1>1
<1>3. y = [x EXCEPT !.times = T, !.pending = P]
  BY DEF Ingest
<1>4. y \in IxType /\ Same(y, x) /\ y.times = T
  <2>. HIDE DEF T, P, y
  <2>. QED BY <1>2, <1>3 DEF IxType, Same
<1>5. Adds(y, x, found)
  <2>. HIDE DEF y
  <2>. QED BY <1>4 DEF Adds
<1>. QED BY <1>4, <1>5

\* The end of a tick leaves of the indexer all but a timer as it was.
LEMMA EndTickTypes ==
  ASSUME NEW x \in IxType, EndTick(x)
  PROVE  /\ ix' \in IxType /\ live' = Idle /\ live' \in LiveType
         /\ Same(ix', x) /\ ix'.times = x.times
<1>. DEFINE flushing == x.flushing \/ x.pending # {}
<1>1. flushing \in BOOLEAN
  OBVIOUS
<1>2. ix' = [x EXCEPT !.flushing = flushing] /\ live' = Idle
  BY DEF EndTick
<1>3. Idle \in LiveType
  BY Numbers DEF Idle, LiveType
<1>. QED
  <2>. HIDE DEF flushing
  <2>. QED BY <1>1, <1>2, <1>3 DEF IxType, Same

LEMMA MarkTypes ==
  ASSUME TypeOK, NEW v \in Venues, NEW at \in 0..MaxBlock, RequestMark(v, at)
  PROVE  reading' \in ReadType /\ mark' \in MarkType /\ missed' \in BOOLEAN
BY TypeParts DEF RequestMark, ReadType, marks

LEMMA InitTypes == Init => TypeOK
<1> SUFFICES ASSUME Init PROVE TypeOK
  OBVIOUS
<1>1. blocks \in Seq(Venues \cup {"quiet"}) /\ Len(blocks) <= MaxBlock
  <2>1. Seq({"curve", "quiet"}) \subseteq Seq(Venues \cup {"quiet"})
    BY DEF Venues
  <2>. QED BY <2>1, Numbers DEF Init
<1>2. ix \in IxType /\ live \in LiveType /\ hist \in HistType
  BY Numbers DEF Init, Fresh, Idle, Asleep, IxType, LiveType, HistType, None, Venues, Blocks
<1>3. reading \in ReadType /\ mark \in MarkType /\ left \in 0..Never
  BY Numbers DEF Init, NoRead, NoMark, ReadType, MarkType, Never
<1>4. /\ viewer \in [Viewers -> {"none", "resolving", "gone", "open"}]
      /\ shown \in [Viewers -> SUBSET Blocks]
  BY DEF Init
<1>5. /\ phase \in 0..2 /\ refs \in Nat /\ loads \in 0..MaxLoads
      /\ loadedAt \in 0..MaxBlock /\ faults \in 0..MaxFaults
  BY Numbers DEF Init
<1>6. up \in BOOLEAN /\ missed \in BOOLEAN /\ both \subseteq Blocks
  BY DEF Init
<1>. QED BY <1>1, <1>2, <1>3, <1>4, <1>5, <1>6, TypeParts

LEMMA FreshTypes ==
  ASSUME NEW v \in Venues
  PROVE  Fresh(v) \in IxType /\ Idle \in LiveType /\ Asleep \in HistType /\ NoRead \in ReadType
         /\ NoMark \in MarkType
<1>0. 0 \in 0..MaxBlock /\ 0 \in 0..(MaxBlock + 1) /\ None \in -1..MaxBlock /\ 0 \in 0..2
  BY Numbers DEF None
<1>1. Fresh(v) \in IxType
  BY <1>0 DEF Fresh, IxType
<1>2. Idle \in LiveType /\ Asleep \in HistType
  BY <1>0 DEF Idle, Asleep, LiveType, HistType
<1>3. NoRead \in ReadType /\ NoMark \in MarkType
  BY <1>0 DEF NoRead, NoMark, ReadType, MarkType
<1>. QED BY <1>1, <1>2, <1>3

LEMMA ChainTypes == TypeOK /\ Chain => TypeOK'
<1> SUFFICES ASSUME TypeOK, Chain PROVE TypeOK'
  OBVIOUS
<1>1. CASE Migrate
  <2>1. phase' \in 0..2
    BY <1>1, TypeParts DEF Migrate
  <2>. QED BY <1>1, <2>1 DEF Migrate, TypeOK, seats, marks, ghosts
<1>2. ASSUME NEW trade \in Venues \cup {"quiet"}, Mint(trade) PROVE TypeOK'
  <2>1. Len(blocks') <= MaxBlock /\ blocks' \in Seq(Venues \cup {"quiet"})
    BY <1>2, Grows, Numbers DEF Mint, tip
  <2>. QED BY <1>2, <2>1 DEF Mint, TypeOK, seats, marks, ghosts
<1>. QED BY <1>1, <1>2 DEF Chain

-----------------------------------------------------------------------------
(* What the loops do to the indexer                                        *)

\* A window of the history is in.
LEMMA HistAnswersDoes ==
  ASSUME TypeOK, HistAnswers
  PROVE  /\ ix' \in IxType /\ hist' \in HistType
         /\ ix'.low = hist.from /\ ix'.cursor = ix.cursor /\ ix'.venue = ix.venue
         /\ ix'.first = ix.first /\ ix'.confirmed = ix.confirmed
         /\ Adds(ix', ix, hist.found)
         /\ hist'.pc = IF hist.from > DayFloor(ix) THEN "timer" ELSE "done"
         /\ shown' \in [Viewers -> SUBSET Blocks]
<1>0. ix \in IxType /\ hist \in HistType
  BY TypeParts
<1>1. hist.found \in SUBSET Blocks /\ hist.from \in 0..(MaxBlock + 1)
  BY <1>0, Numbers DEF HistType
<1>2. PICK got : got = Ingest(ix, hist.found, FALSE)
  OBVIOUS
<1>3. got \in IxType /\ Same(got, ix) /\ Adds(got, ix, hist.found)
  <2>1. FALSE \in BOOLEAN
    OBVIOUS
  <2>. QED BY <1>0, <1>1, <1>2, <2>1, IngestType, Zenon
<1>4. PICK lower : lower = [got EXCEPT !.low = hist.from]
  OBVIOUS
<1>5. /\ lower \in IxType /\ lower.low = hist.from /\ lower.cursor = got.cursor
      /\ lower.venue = got.venue /\ lower.first = got.first
      /\ lower.confirmed = got.confirmed /\ lower.times = got.times
  BY <1>1, <1>3, <1>4 DEF IxType
<1>6. PICK n \in 0..2 : n = HistoryAt(ix, hist.from)
  BY <1>0 DEF HistoryAt, IxType
<1>. DEFINE grown == [lower EXCEPT !.history = n]
<1>. HIDE DEF grown
<1>9. grown = [lower EXCEPT !.history = n]
  BY DEF grown
<1>10. /\ grown \in IxType /\ grown.low = lower.low /\ grown.cursor = lower.cursor
       /\ grown.venue = lower.venue /\ grown.first = lower.first
       /\ grown.confirmed = lower.confirmed /\ grown.times = lower.times
  BY <1>5, <1>9 DEF IxType
<1>11. /\ ix' = grown
       /\ shown' = [v \in Viewers |-> IF viewer[v] = "open" /\ grown.history > ix.history
                                      THEN Charted(grown) ELSE shown[v]]
  BY <1>2, <1>4, <1>6, <1>9 DEF HistAnswers
<1>7. hist' \in HistType /\ hist'.pc = IF hist.from > DayFloor(ix) THEN "timer" ELSE "done"
  BY Numbers DEF HistAnswers, Asleep, HistType
<1>8. shown' \in [Viewers -> SUBSET Blocks]
  <2>1. \A v \in Viewers : shown[v] \in SUBSET Blocks
    BY DEF TypeOK
  <2>2. Charted(grown) \in SUBSET Blocks
    BY DEF Charted
  <2>. QED BY <1>11, <2>1, <2>2
<1>. QED BY <1>3, <1>5, <1>7, <1>8, <1>10, <1>11 DEF Same, Adds

\* The next step of a poll: a window is read, or the tick ends, or the phase is read.
LEMMA PollDoes ==
  ASSUME TypeOK, NEW x \in IxType, x.cursor # None, NEW target \in 0..MaxBlock, Poll(x, target)
  PROVE  /\ ix' \in IxType /\ live' \in LiveType
         /\ Same(ix', x) /\ ix'.times = x.times
         /\ \/ /\ live'.pc = "scan" /\ x.cursor < live'.to /\ live'.to <= target
               /\ live'.target = target
               /\ live'.found = {b \in (x.cursor + 1)..live'.to :
                                   blocks[b] \in liveFilters(x.venue) /\ x.times[b] = 0}
            \/ live'.pc = "timer"
            \/ live'.pc = "phase" /\ x.venue = "curve"
<1>0. x.cursor \in 0..MaxBlock
  BY DEF IxType, None
<1>1. CASE target > x.cursor
  <2>. DEFINE to == Min2(target, x.cursor + LogWindow)
              found == Scan(x, x.cursor + 1, to, liveFilters(x.venue))
  <2>1. to \in 0..MaxBlock /\ x.cursor < to /\ to <= target
    BY <1>0, <1>1, Numbers DEF Min2
  <2>2. ix' = x /\ live' = [pc |-> "scan", to |-> to, target |-> target, found |-> found]
    BY <1>1 DEF Poll
  <2>. HIDE DEF to
  <2>3. found = {b \in (x.cursor + 1)..to : blocks[b] \in liveFilters(x.venue) /\ x.times[b] = 0}
    BY DEF Scan
  <2>4. found \in SUBSET Blocks
    BY <1>0, <2>1, Numbers DEF Scan, Blocks
  <2>. HIDE DEF found
  <2>5. live' \in LiveType /\ live'.pc = "scan" /\ live'.to = to /\ live'.target = target
        /\ live'.found = found
    BY <2>1, <2>2, <2>4 DEF LiveType
  <2>. QED BY <2>1, <2>2, <2>3, <2>5 DEF Same
<1>2. CASE ~ (target > x.cursor) /\ EndTick(x)
  <2>1. live'.pc = "timer"
    BY <1>2, EndTickTypes DEF Idle
  <2>. QED BY <1>2, <2>1, EndTickTypes
<1>3. CASE x.venue = "curve" /\ ix' = x /\ live' = [Idle EXCEPT !.pc = "phase"]
  <2>1. live' \in LiveType /\ live'.pc = "phase"
    BY <1>3, Numbers DEF Idle, LiveType
  <2>. QED BY <1>3, <2>1 DEF Same
<1>. QED BY <1>1, <1>2, <1>3 DEF Poll

\* A window of the poll is in.
LEMMA ScanAnswersDoes ==
  ASSUME TypeOK, ScanAnswers
  PROVE  /\ ix' \in IxType /\ live' \in LiveType
         /\ ix'.low = ix.low /\ ix'.cursor = live.to /\ ix'.venue = ix.venue
         /\ ix'.first = ix.first /\ ix'.confirmed = ix.confirmed
         /\ Adds(ix', ix, live.found)
         /\ \/ /\ live'.pc = "scan" /\ live.to < live'.to /\ live'.to <= live.target
               /\ live'.target = live.target
               /\ live'.found = {b \in (live.to + 1)..live'.to :
                                   blocks[b] \in liveFilters(ix.venue) /\ ix'.times[b] = 0}
            \/ live'.pc = "timer"
            \/ live'.pc = "phase" /\ ix.venue = "curve"
<1>0. ix \in IxType /\ live \in LiveType
  BY TypeParts
<1>1. live.found \in SUBSET Blocks /\ live.to \in 0..MaxBlock /\ live.target \in 0..MaxBlock
  BY <1>0 DEF LiveType
<1>2. PICK got : got = Ingest(ix, live.found, TRUE)
  OBVIOUS
<1>3. got \in IxType /\ Same(got, ix) /\ Adds(got, ix, live.found)
  <2>1. TRUE \in BOOLEAN
    OBVIOUS
  <2>. QED BY <1>0, <1>1, <1>2, <2>1, IngestType, Zenon
<1>4. PICK x : x = [got EXCEPT !.cursor = live.to]
  OBVIOUS
<1>5. /\ x \in IxType /\ x.low = got.low /\ x.cursor = live.to /\ x.venue = got.venue
      /\ x.first = got.first /\ x.confirmed = got.confirmed /\ x.times = got.times
  <2>1. PICK n \in -1..MaxBlock : n = live.to
    BY <1>1, Numbers
  <2>2. x = [got EXCEPT !.cursor = n]
    BY <1>4, <2>1
  <2>. QED BY <1>3, <2>1, <2>2 DEF IxType
<1>6. Poll(x, live.target) /\ x.cursor # None
  <2>1. Poll([Ingest(ix, live.found, TRUE) EXCEPT !.cursor = live.to], live.target)
    BY DEF ScanAnswers
  <2>2. x.cursor # None
    BY <1>1, <1>5, Numbers DEF None
  <2>. QED BY <1>2, <1>4, <2>1, <2>2, Zenon
<1>7. /\ ix' \in IxType /\ live' \in LiveType /\ Same(ix', x) /\ ix'.times = x.times
      /\ \/ /\ live'.pc = "scan" /\ x.cursor < live'.to /\ live'.to <= live.target
            /\ live'.target = live.target
            /\ live'.found = {b \in (x.cursor + 1)..live'.to :
                                blocks[b] \in liveFilters(x.venue) /\ x.times[b] = 0}
         \/ live'.pc = "timer"
         \/ live'.pc = "phase" /\ x.venue = "curve"
  BY <1>1, <1>5, <1>6, PollDoes, Zenon
<1>. QED BY <1>3, <1>5, <1>7 DEF Same, Adds

\* A tick begins, the first one or another.
LEMMA TickDoes ==
  ASSUME TypeOK, Tick
  PROVE  /\ ix' \in IxType /\ live' \in LiveType /\ hist' \in HistType
         /\ ix.cursor = None =>
              /\ ix' = Begins(ix) /\ live' = live /\ hist'.pc = "timer"
              /\ ix'.low = tip + 1 /\ ix'.cursor = tip /\ ix'.venue = ix.venue
              /\ ix'.first = tip /\ ix'.confirmed = tip /\ ix'.times = ix.times
         /\ ix.cursor # None =>
              /\ hist' = hist /\ Same(ix', ix) /\ ix'.times = ix.times
              /\ \/ /\ live'.pc = "scan" /\ ix.cursor < live'.to /\ live'.to <= tip
                    /\ live'.target = tip
                    /\ live'.found = {b \in (ix.cursor + 1)..live'.to :
                                        blocks[b] \in liveFilters(ix.venue) /\ ix.times[b] = 0}
                 \/ live'.pc = "timer"
                 \/ live'.pc = "phase" /\ ix.venue = "curve"
<1>0. /\ ix \in IxType /\ live \in LiveType /\ hist \in HistType /\ tip \in 0..MaxBlock
      /\ ix.lastHead \in 0..MaxBlock
  <2>1. tip \in 0..MaxBlock
    BY Numbers DEF TypeOK, tip
  <2>. QED BY <2>1, TypeParts DEF IxType
<1>1. CASE ix.cursor = None
  <2>1. ix' = Begins(ix) /\ hist' = [Asleep EXCEPT !.pc = "timer"] /\ live' = live
    BY <1>1 DEF Tick
  <2>2. hist' \in HistType /\ hist'.pc = "timer"
    BY <2>1, Numbers DEF Asleep, HistType
  <2>3. /\ ix' \in IxType
        /\ ix'.low = tip + 1 /\ ix'.cursor = tip /\ ix'.venue = ix.venue
        /\ ix'.first = tip /\ ix'.confirmed = tip /\ ix'.times = ix.times
    <3>1. PICK t \in 0..MaxBlock : t = tip
      BY <1>0
    <3>2. PICK t1 \in 0..(MaxBlock + 1) : t1 = tip + 1
      BY <1>0, Numbers
    <3>3. t \in -1..MaxBlock
      BY <3>1, Numbers
    <3>4. ix' = [ix EXCEPT !.cursor = t, !.lastHead = t, !.low = t1, !.first = t, !.confirmed = t]
      BY <2>1, <3>1, <3>2 DEF Begins
    <3>. QED BY <1>0, <3>1, <3>2, <3>3, <3>4 DEF IxType
  <2>. QED BY <1>0, <1>1, <2>1, <2>2, <2>3
<1>2. CASE ix.cursor # None
  <2>1. PICK x : x = [ix EXCEPT !.lastHead = Max2(@, tip)]
    OBVIOUS
  <2>2. Max2(ix.lastHead, tip) \in 0..MaxBlock
    BY <1>0, Numbers DEF Max2
  <2>3. x \in IxType /\ Same(x, ix) /\ x.times = ix.times
    <3>. DEFINE n == Max2(ix.lastHead, tip)
    <3>1. x = [ix EXCEPT !.lastHead = n]
      BY <1>0, <2>1 DEF IxType
    <3>. HIDE DEF n
    <3>2. n \in 0..MaxBlock
      BY <2>2 DEF n
    <3>. QED BY <1>0, <3>1, <3>2 DEF IxType, Same
  <2>4. Poll(x, tip) /\ x.cursor # None /\ hist' = hist
    BY <1>2, <2>1, <2>3 DEF Tick, Same
  <2>5. /\ ix' \in IxType /\ live' \in LiveType /\ Same(ix', x) /\ ix'.times = x.times
        /\ \/ /\ live'.pc = "scan" /\ x.cursor < live'.to /\ live'.to <= tip
              /\ live'.target = tip
              /\ live'.found = {b \in (x.cursor + 1)..live'.to :
                                  blocks[b] \in liveFilters(x.venue) /\ x.times[b] = 0}
           \/ live'.pc = "timer"
           \/ live'.pc = "phase" /\ x.venue = "curve"
    BY <1>0, <2>3, <2>4, PollDoes, Zenon
  <2>. QED BY <1>0, <1>2, <2>3, <2>4, <2>5 DEF Same
<1>. QED BY <1>1, <1>2

LEMMA PhaseAnswersDoes ==
  ASSUME TypeOK, PhaseAnswers, ix.cursor # None
  PROVE  /\ ix' \in IxType /\ live' \in LiveType /\ live'.pc = "timer"
         /\ ix'.low = ix.low /\ ix'.first = ix.first /\ ix'.times = ix.times
         /\ \/ /\ phase = 0 /\ left' = left
               /\ ix'.venue = ix.venue /\ ix'.cursor = ix.cursor /\ ix'.confirmed = ix.cursor
            \/ phase = 1 /\ left' = left /\ Same(ix', ix)
            \/ /\ phase = 2 /\ left' = ix.cursor /\ ix'.venue = "pool" /\ ix'.cursor = Rewound(ix)
               /\ ix'.confirmed = ix.cursor /\ ix'.cursor \in 0..MaxBlock
<1>0. /\ ix \in IxType /\ phase \in 0..2 /\ ix.cursor \in 0..MaxBlock
      /\ ix.confirmed \in 0..MaxBlock
  BY TypeParts DEF IxType, None
<1>1. CASE phase = 0
  <2>1. PICK x : x = [ix EXCEPT !.confirmed = ix.cursor]
    OBVIOUS
  <2>2. /\ x \in IxType /\ x.low = ix.low /\ x.cursor = ix.cursor /\ x.venue = ix.venue
        /\ x.first = ix.first /\ x.confirmed = ix.cursor /\ x.times = ix.times
    BY <1>0, <2>1 DEF IxType
  <2>3. EndTick(x) /\ left' = left
    BY <1>1, <2>1 DEF PhaseAnswers
  <2>4. ix' \in IxType /\ live' \in LiveType /\ live' = Idle /\ Same(ix', x) /\ ix'.times = x.times
    BY <2>2, <2>3, EndTickTypes
  <2>. QED BY <1>1, <2>2, <2>3, <2>4 DEF Same, Idle
<1>2. CASE phase = 1
  <2>1. EndTick(ix) /\ left' = left
    BY <1>2 DEF PhaseAnswers
  <2>. QED BY <1>0, <1>2, <2>1, EndTickTypes DEF Same, Idle
<1>3. CASE phase = 2
  <2>1. PICK back : back = Rewound(ix)
    OBVIOUS
  <2>2. back \in 0..MaxBlock
    BY <1>0, <2>1, Numbers DEF Rewound, Min2, Max2
  <2>3. PICK x : x = [ix EXCEPT !.venue = "pool", !.cursor = back, !.confirmed = ix.cursor]
    OBVIOUS
  <2>4. /\ x \in IxType /\ x.low = ix.low /\ x.cursor = back /\ x.venue = "pool"
        /\ x.first = ix.first /\ x.confirmed = ix.cursor /\ x.times = ix.times
    <3>1. "pool" \in Venues /\ back \in -1..MaxBlock
      BY <2>2, Numbers DEF Venues
    <3>. QED BY <1>0, <2>2, <2>3, <3>1 DEF IxType
  <2>5. EndTick(x) /\ left' = ix.cursor
    BY <1>3, <2>1, <2>3 DEF PhaseAnswers
  <2>6. ix' \in IxType /\ live' \in LiveType /\ live' = Idle /\ Same(ix', x) /\ ix'.times = x.times
    BY <2>4, <2>5, EndTickTypes
  <2>. QED BY <1>3, <2>1, <2>2, <2>4, <2>5, <2>6 DEF Same, Idle
<1>. QED BY <1>0, <1>1, <1>2, <1>3
-----------------------------------------------------------------------------
(* Every step keeps the types                                              *)

LEMMA TogetherTypes ==
  ASSUME TypeOK, live' \in LiveType, hist' \in HistType, both' = Together
  PROVE  both' \subseteq Blocks
BY TypeParts DEF Together, Holds, LiveType, HistType

LEMMA HistoryTypes == TypeOK /\ (HistTick \/ HistAnswers \/ HistFails) => TypeOK'
<1> SUFFICES ASSUME TypeOK, HistTick \/ HistAnswers \/ HistFails PROVE TypeOK'
  OBVIOUS
<1>0. ix \in IxType /\ hist \in HistType /\ ix.venue \in Venues /\ ix.lastHead \in 0..MaxBlock
      /\ faults \in 0..MaxFaults
  BY TypeParts DEF IxType
<1>1. CASE HistTick
  <2>1. hist' \in HistType
    BY <1>0, <1>1, WindowType DEF HistTick
  <2>2. both' \subseteq Blocks
    BY <1>1, <2>1, TogetherTypes, TypeParts DEF HistTick
  <2>. QED BY <1>1, <2>1, <2>2
       DEF HistTick, world, seats, marks, TypeOK, IxType, LiveType, HistType
<1>2. CASE HistFails
  <2>1. hist' \in HistType
    BY <1>2, Numbers DEF HistFails, Asleep, HistType
  <2>2. faults' \in 0..MaxFaults
    BY <1>0, <1>2, Numbers DEF HistFails, Throws
  <2>. QED BY <1>2, <2>1, <2>2 DEF HistFails, world, seats, marks, TypeOK, HistType, ghosts
<1>3. CASE HistAnswers
  <2>1. reading' \in ReadType /\ mark' \in MarkType /\ missed' \in BOOLEAN
    <3>1. RequestMark(ix.venue, ix.lastHead) \/ UNCHANGED marks
      BY <1>3 DEF HistAnswers
    <3>. QED BY <1>0, <3>1, MarkTypes, TypeParts DEF marks
  <2>. QED BY <1>3, <2>1, HistAnswersDoes
       DEF HistAnswers, world, seats, TypeOK, IxType, HistType, ReadType, MarkType, ghosts
<1>. QED BY <1>1, <1>2, <1>3

LEMMA PollTypes == TypeOK /\ (Tick \/ ScanAnswers \/ LiveFails) => TypeOK'
<1> SUFFICES ASSUME TypeOK, Tick \/ ScanAnswers \/ LiveFails PROVE TypeOK'
  OBVIOUS
<1>1. CASE Tick
  <2>1. ix' \in IxType /\ live' \in LiveType /\ hist' \in HistType
    BY <1>1, TickDoes
  <2>2. both' \subseteq Blocks
    BY <1>1, <2>1, TogetherTypes DEF Tick
  <2>. QED BY <1>1, <2>1, <2>2
       DEF Tick, world, seats, marks, TypeOK, IxType, LiveType, HistType
<1>2. CASE ScanAnswers
  <2>1. ix' \in IxType /\ live' \in LiveType /\ hist' \in HistType
    BY <1>2, ScanAnswersDoes, TypeParts DEF ScanAnswers
  <2>2. both' \subseteq Blocks
    BY <1>2, <2>1, TogetherTypes DEF ScanAnswers
  <2>. QED BY <1>2, <2>1, <2>2
       DEF ScanAnswers, world, seats, marks, TypeOK, IxType, LiveType, HistType
<1>3. CASE LiveFails
  <2>1. ix' \in IxType /\ live' \in LiveType
    BY <1>3, EndTickTypes, TypeParts DEF LiveFails
  <2>2. faults' \in 0..MaxFaults
    BY <1>3, Numbers, TypeParts DEF LiveFails, Throws
  <2>. QED BY <1>3, <2>1, <2>2 DEF LiveFails, world, seats, marks, TypeOK, IxType, LiveType, ghosts
<1>. QED BY <1>1, <1>2, <1>3

LEMMA PhaseTypes ==
  TypeOK /\ (live.pc = "phase" => ix.cursor # None) /\ (PhaseAnswers \/ PhaseFails) => TypeOK'
<1> SUFFICES ASSUME TypeOK, live.pc = "phase" => ix.cursor # None, PhaseAnswers \/ PhaseFails
             PROVE  TypeOK'
  OBVIOUS
<1>0. /\ ix \in IxType /\ ix.lastHead \in 0..MaxBlock /\ ix.cursor \in -1..MaxBlock
      /\ left \in 0..Never /\ faults \in 0..MaxFaults
  BY TypeParts DEF IxType
<1>1. CASE PhaseFails
  <2>1. ix' \in IxType /\ live' \in LiveType
    BY <1>0, <1>1, EndTickTypes DEF PhaseFails
  <2>2. faults' \in 0..MaxFaults
    BY <1>0, <1>1, Numbers DEF PhaseFails, Throws
  <2>. QED BY <1>1, <2>1, <2>2 DEF PhaseFails, world, seats, marks, TypeOK, IxType, LiveType, ghosts
<1>2. CASE PhaseAnswers
  <2>0. ix.cursor # None /\ ix.cursor \in 0..Never
    BY <1>0, <1>2, Numbers DEF PhaseAnswers, None, Never
  <2>1. ix' \in IxType /\ live' \in LiveType /\ left' \in 0..Never
    BY <1>0, <1>2, <2>0, PhaseAnswersDoes
  <2>2. reading' \in ReadType /\ mark' \in MarkType /\ missed' \in BOOLEAN
    <3>1. RequestMark("pool", ix.lastHead) \/ UNCHANGED marks
      <4>1. phase = 0 \/ phase = 1 \/ phase = 2
        BY DEF TypeOK
      <4>. QED BY <1>2, <4>1 DEF PhaseAnswers
    <3>. QED BY <1>0, <3>1, MarkTypes, TypeParts DEF marks, Venues
  <2>. QED BY <1>2, <2>1, <2>2
       DEF PhaseAnswers, world, seats, TypeOK, IxType, LiveType, ReadType, MarkType
<1>. QED BY <1>1, <1>2

LEMMA FlushTypes == TypeOK /\ Flush => TypeOK'
<1> SUFFICES ASSUME TypeOK, Flush PROVE TypeOK'
  OBVIOUS
<1>0. ix \in IxType /\ ix.venue \in Venues /\ ix.lastHead \in 0..MaxBlock
      /\ ix.pending \in SUBSET Blocks
  BY TypeParts DEF IxType
<1>1. ix' \in IxType
  BY <1>0 DEF Flush, IxType
<1>2. shown' \in [Viewers -> SUBSET Blocks]
  <2>1. \A v \in Viewers : shown[v] \cup ix.pending \in SUBSET Blocks
    BY <1>0 DEF TypeOK
  <2>2. shown \in [Viewers -> SUBSET Blocks]
    BY TypeParts
  <2>. QED BY <2>1, <2>2 DEF Flush
<1>3. reading' \in ReadType /\ mark' \in MarkType /\ missed' \in BOOLEAN
  <2>1. RequestMark(ix.venue, ix.lastHead) \/ UNCHANGED marks
    BY DEF Flush
  <2>. QED BY <1>0, <2>1, MarkTypes, TypeParts DEF marks
<1>. QED BY <1>1, <1>2, <1>3 DEF Flush, world, seats, TypeOK, IxType, ReadType, MarkType, ghosts

LEMMA MarkReadTypes == TypeOK /\ (MarkAnswers \/ MarkFails) => TypeOK'
<1> SUFFICES ASSUME TypeOK, MarkAnswers \/ MarkFails PROVE TypeOK'
  OBVIOUS
<1>0. ix \in IxType /\ ix.venue \in Venues /\ ix.lastHead \in 0..MaxBlock /\ reading \in ReadType
      /\ mark \in MarkType /\ reading.at \in 0..MaxBlock
  BY TypeParts DEF IxType, ReadType
<1>1. ASSUME NEW ok \in BOOLEAN, MarkSettles(ok)
      PROVE  reading' \in ReadType /\ mark' \in MarkType /\ missed' \in BOOLEAN
  <2>1. mark' \in MarkType
    BY <1>0, <1>1 DEF MarkSettles, MarkType
  <2>2. reading' \in ReadType
    BY <1>0, <1>1, Numbers DEF MarkSettles, ReadType, NoRead
  <2>3. missed' \in BOOLEAN
    BY <1>1 DEF MarkSettles
  <2>. QED BY <2>1, <2>2, <2>3
<1>2. faults' \in 0..MaxFaults
  <2>1. faults \in 0..MaxFaults
    BY TypeParts
  <2>2. CASE MarkAnswers
    BY <2>1, <2>2 DEF MarkAnswers
  <2>3. CASE MarkFails
    BY <2>1, <2>3, Numbers DEF MarkFails, Throws
  <2>. QED BY <2>2, <2>3
<1>. QED BY <1>1, <1>2
     DEF MarkAnswers, MarkFails, MarkSettles, world, seats, TypeOK, ReadType, MarkType, ghosts

LEMMA VisitTypes == TypeOK /\ (Visits \/ Stop) => TypeOK'
<1> SUFFICES ASSUME TypeOK, Visits \/ Stop PROVE TypeOK'
  OBVIOUS
<1>1. CASE Stop
  <2>1. /\ ix' \in IxType /\ live' \in LiveType /\ hist' \in HistType
        /\ reading' \in ReadType /\ mark' \in MarkType
    BY <1>1, FreshTypes DEF Stop, Venues
  <2>2. left' \in 0..Never
    BY <1>1, Numbers DEF Stop, Never
  <2>3. up' \in BOOLEAN /\ missed' \in BOOLEAN
    BY <1>1 DEF Stop
  <2>. QED BY <1>1, <2>1, <2>2, <2>3
       DEF Stop, world, TypeOK, IxType, LiveType, HistType, ReadType, MarkType
<1>2. ASSUME NEW v \in Viewers, Ask(v) \/ Refused(v) PROVE TypeOK'
  BY <1>2 DEF Ask, Refused, world, marks, TypeOK, ghosts
<1>3. ASSUME NEW v \in Viewers, Leave(v) PROVE TypeOK'
  <2>1. refs' \in Nat
    <3>1. refs \in Nat
      BY TypeParts
    <3>2. refs' = refs \/ refs' = Max2(0, refs - 1)
      BY <1>3 DEF Leave
    <3>. QED BY <3>1, <3>2 DEF Max2
  <2>. QED BY <1>3, <2>1 DEF Leave, world, marks, TypeOK, ghosts
<1>4. ASSUME NEW v \in Viewers, Open(v) PROVE TypeOK'
  <2>1. /\ ix' \in IxType /\ live' \in LiveType /\ loads' \in 0..MaxLoads
        /\ loadedAt' \in 0..MaxBlock /\ left' \in 0..Never /\ up' \in BOOLEAN
        /\ both' \subseteq Blocks
    <3>1. acquire
      BY <1>4 DEF Open
    <3>2. CASE up
      BY <3>1, <3>2, TypeParts DEF acquire, ghosts
    <3>3. CASE ~up
      <4>1. /\ loads < MaxLoads /\ loads' = loads + 1 /\ loadedAt' = tip
            /\ up' = TRUE /\ live' = Idle /\ left' = Never /\ both' = {}
            /\ ix' = Fresh(IF phase = 2 THEN "pool" ELSE "curve")
        BY <3>1, <3>3 DEF acquire
      <4>2. loads' \in 0..MaxLoads /\ loadedAt' \in 0..MaxBlock /\ left' \in 0..Never
        BY <4>1, Numbers DEF TypeOK, tip, Never
      <4>3. ix' \in IxType /\ live' \in LiveType
        BY <4>1, FreshTypes DEF Venues
      <4>. QED BY <4>1, <4>2, <4>3
    <3>. QED BY <3>2, <3>3
  <2>2. /\ refs' \in Nat /\ shown' \in [Viewers -> SUBSET Blocks]
        /\ viewer' \in [Viewers -> {"none", "resolving", "gone", "open"}]
    <3>1. Charted(ix) \in SUBSET Blocks
      BY DEF Charted
    <3>2. refs' \in Nat
      BY <1>4, TypeParts DEF Open
    <3>3. viewer' \in [Viewers -> {"none", "resolving", "gone", "open"}]
      BY <1>4 DEF Open, TypeOK
    <3>4. shown' \in [Viewers -> SUBSET Blocks]
      BY <1>4, <3>1 DEF Open, TypeOK
    <3>. QED BY <3>2, <3>3, <3>4
  <2>. QED BY <1>4, <2>1, <2>2 DEF Open, world, marks, TypeOK, IxType, LiveType
<1>. QED BY <1>1, <1>2, <1>3, <1>4 DEF Visits
-----------------------------------------------------------------------------
(* No block is passed over                                                 *)

\* What most of the steps below start from.
LEMMA Facts ==
  ASSUME TypeOK
  PROVE  /\ tip \in 0..MaxBlock /\ phase \in 0..2 /\ loadedAt \in 0..MaxBlock /\ left \in 0..Never
         /\ ix \in IxType /\ ix.cursor \in -1..MaxBlock /\ ix.low \in 0..(MaxBlock + 1)
         /\ ix.first \in 0..MaxBlock /\ ix.confirmed \in 0..MaxBlock /\ ix.venue \in Venues
         /\ \A b \in 1..tip : b \in Blocks /\ b \in Nat /\ ix.times[b] \in Nat
<1>1. tip \in 0..MaxBlock
  BY Numbers DEF TypeOK, tip
<1>2. ix \in IxType
  BY TypeParts
<1>3. ix.times \in [Blocks -> Nat]
  BY <1>2 DEF IxType
<1>4. \A b \in 1..tip : b \in Blocks /\ b \in Nat
  BY <1>1, Numbers DEF Blocks
<1>5. phase \in 0..2 /\ loadedAt \in 0..MaxBlock /\ left \in 0..Never
  BY TypeParts
<1>6. /\ ix.cursor \in -1..MaxBlock /\ ix.low \in 0..(MaxBlock + 1) /\ ix.first \in 0..MaxBlock
      /\ ix.confirmed \in 0..MaxBlock /\ ix.venue \in Venues
  BY <1>2 DEF IxType
<1>. QED BY <1>1, <1>2, <1>3, <1>4, <1>5, <1>6

LEMMA ReadInvInit == Init => ReadInv
<1> SUFFICES ASSUME Init PROVE ReadInv
  OBVIOUS
<1>1. tip >= 1 /\ NotIn("pool", tip)
  BY Numbers DEF Init, tip, NotIn
<1>. QED BY <1>1 DEF Init, ReadInv, PoolOpens, Loading, Running, Asleep

\* The chain, the indexer and the two loops are all that ReadInv is about.
LEMMA ReadInvFrame ==
  ReadInv /\ UNCHANGED <<blocks, phase, up, loadedAt, ix, live, hist, left>> => ReadInv'
BY DEF ReadInv, PoolOpens, Origin, Loading, Waits, Running, Places, HistoryIsIn, PollIsIn, Owed,
   NotIn, tip, DayFloor, Max2

LEMMA ReadInvMint ==
  ASSUME TypeOK, ReadInv, NEW trade \in Venues \cup {"quiet"}, Mint(trade)
  PROVE  ReadInv'
<1>a. tip < MaxBlock /\ blocks' = Append(blocks, trade)
  BY DEF Mint
<1>b. (trade = "curve" => phase = 0) /\ (trade = "pool" => phase = 2)
  BY DEF Mint
<1>c. Loading => tip < loadedAt + LoadLag
  BY DEF Mint
<1>0. UNCHANGED <<phase, loadedAt, ix, live, hist, left>>
  BY DEF Mint, seats, ghosts
<1>d. UNCHANGED up
  BY DEF Mint, seats
<1>1. /\ tip' = tip + 1 /\ tip \in Nat
      /\ \A b \in 1..tip : blocks'[b] = blocks[b]
      /\ blocks'[tip + 1] = trade
  BY <1>a, Grows
<1>2. \A b \in 1..tip' : b \in 1..tip \/ b = tip + 1
  BY <1>1
<1>3. ASSUME NEW last \in 0..tip, \A b \in 1..tip : b <= last => blocks[b] # "pool"
      PROVE  \A b \in 1..tip' : b <= last => blocks'[b] # "pool"
  BY <1>1, <1>2, <1>3
<1>4. PoolOpens'
  <2>1. tip >= 1 /\ (phase # 2 => \A b \in 1..tip : b <= tip => blocks[b] # "pool")
    BY DEF ReadInv, PoolOpens, NotIn
  <2>2. phase # 2 => \A b \in 1..tip' : blocks'[b] # "pool"
    BY <1>b, <1>1, <1>2, <2>1
  <2>. QED BY <1>0, <1>1, <2>1, <2>2 DEF PoolOpens, NotIn
<1>5. ASSUME Origin PROVE Origin'
  <2>1. loadedAt \in 0..tip
    BY <1>1, <1>5, Facts DEF Origin
  <2>2. ix.venue = "curve" \/ left # Never => \A b \in 1..tip' : b <= loadedAt => blocks'[b] # "pool"
    BY <1>3, <1>5, <2>1 DEF Origin, NotIn
  <2>3. ix.venue = "pool" /\ left = Never =>
          \A b \in 1..tip' : b > loadedAt => blocks'[b] # "curve"
    BY <1>b, <1>1, <1>2, <1>5 DEF Origin
  <2>. QED BY <1>0, <1>1, <1>5, <2>1, <2>2, <2>3 DEF Origin, NotIn
<1>6. ASSUME Loading, Waits PROVE Waits'
  BY <1>0, <1>1, <1>c, <1>6, Facts, Numbers DEF Waits
<1>7. ASSUME Places PROVE Places'
  <2>1. ix.confirmed \in 0..tip
    BY <1>1, <1>7, Facts DEF Places
  <2>2. ix.venue = "curve" => \/ \A b \in 1..tip' : b <= ix.confirmed => blocks'[b] # "pool"
                              \/ ix.confirmed = ix.first
    BY <1>3, <1>7, <2>1 DEF Places, NotIn
  <2>3. live.target \in Nat /\ DayFloor(ix') = DayFloor(ix)
    BY <1>0, TypeParts DEF LiveType
  <2>. QED BY <1>0, <1>1, <1>7, <2>1, <2>2, <2>3, Facts DEF Places, NotIn
<1>8. ASSUME Places, HistoryIsIn PROVE HistoryIsIn'
  <2>1. Owed' = Owed /\ ix.first <= tip /\ ix.low <= ix.first + 1
    BY <1>0, <1>8 DEF Owed, Places
  <2>. QED BY <1>0, <1>1, <1>2, <1>8, <2>1, Facts DEF HistoryIsIn
<1>9. ASSUME Places, PollIsIn PROVE PollIsIn'
  <2>1. /\ ix.cursor <= tip /\ (left # Never => left <= tip)
        /\ live.pc = "scan" => live.to <= live.target /\ live.target <= tip /\ live.to \in Nat
                               /\ live.target \in Nat
    BY <1>9, TypeParts DEF Places, LiveType
  <2>. QED BY <1>0, <1>1, <1>2, <1>9, <2>1, Facts DEF PollIsIn
<1>10. (Loading' <=> Loading) /\ (Running' <=> Running)
  BY <1>0, <1>d DEF Loading, Running
<1>. QED BY <1>0, <1>d, <1>4, <1>5, <1>6, <1>7, <1>8, <1>9, <1>10 DEF ReadInv

LEMMA ReadInvMigrate == TypeOK /\ ReadInv /\ Migrate => ReadInv'
<1> SUFFICES ASSUME TypeOK, ReadInv, Migrate PROVE ReadInv'
  OBVIOUS
<1>0. /\ phase < 2 /\ phase' = phase + 1 /\ phase \in 0..2
      /\ UNCHANGED <<blocks, up, loadedAt, ix, live, hist, left>>
  BY Facts DEF Migrate, seats, ghosts
<1>1. PoolOpens' /\ (up => Origin')
  BY <1>0 DEF ReadInv, PoolOpens, Origin, NotIn, tip
<1>. QED BY <1>0, <1>1 DEF ReadInv, Loading, Waits, Running, Places, HistoryIsIn, PollIsIn, Owed,
         NotIn, tip, DayFloor, Max2

\* A window lies right below what the history has read and above its end, and finds
\* all that is to be found there.
LEMMA WindowDoes ==
  ASSUME TypeOK, ix.low > DayFloor(ix)
  PROVE  /\ Window(ix).pc = "scan"
         /\ DayFloor(ix) <= Window(ix).from /\ Window(ix).from < ix.low
         /\ Window(ix).found = {b \in Window(ix).from..(ix.low - 1) :
                                  blocks[b] \in historyFilters(ix.venue) /\ ix.times[b] = 0}
<1>. DEFINE floor == IF ix.low > HourFloor(ix) THEN HourFloor(ix) ELSE DayFloor(ix)
            from == Max2(floor, ix.low - 1 - LogWindow + 1)
<1>1. ix.low \in 0..(MaxBlock + 1) /\ ix.first \in 0..MaxBlock
  BY Facts
<1>2. floor \in Nat /\ DayFloor(ix) <= floor /\ floor < ix.low
  BY <1>1, Numbers DEF HourFloor, DayFloor, Max2
<1>3. DayFloor(ix) \in Nat
  BY <1>1, Numbers DEF DayFloor, Max2
<1>4. DayFloor(ix) <= from /\ from < ix.low
  <2>. HIDE DEF floor
  <2>. QED BY <1>1, <1>2, <1>3, Numbers DEF Max2
<1>5. Window(ix) = [pc |-> "scan", from |-> from,
                    found |-> Scan(ix, from, ix.low - 1, historyFilters(ix.venue))]
  BY DEF Window
<1>. HIDE DEF from, floor
<1>. QED BY <1>4, <1>5 DEF Scan

LEMMA ReadInvHistTick == TypeOK /\ ReadInv /\ HistTick => ReadInv'
<1> SUFFICES ASSUME TypeOK, ReadInv, HistTick PROVE ReadInv'
  OBVIOUS
<1>0. /\ up /\ hist.pc = "timer" /\ hist' = Window(ix)
      /\ UNCHANGED <<blocks, phase, up, loadedAt, ix, live, left>>
  BY DEF HistTick, world, seats
<1>1. Running
  BY <1>0 DEF ReadInv, Loading, Waits, Running
<1>2. /\ hist'.pc = "scan" /\ DayFloor(ix) <= hist'.from /\ hist'.from < ix.low
      /\ hist'.found = {b \in hist'.from..(ix.low - 1) :
                          blocks[b] \in historyFilters(ix.venue) /\ ix.times[b] = 0}
  BY <1>0, <1>1, WindowDoes DEF ReadInv, Places
<1>3. Owed \subseteq historyFilters(ix.venue) /\ hist'.from \in Int
  <2>1. hist'.from \in Int
    BY <1>0, WindowType, Facts DEF HistType
  <2>. QED BY <2>1, Facts DEF Owed, historyFilters, Venues
<1>4. HistoryIsIn'
  <2>1. ASSUME NEW b \in 1..tip, hist'.from <= b, b < ix.low, blocks[b] \in Owed
        PROVE  ix.times[b] > 0 \/ b \in hist'.found
    BY <1>2, <1>3, <2>1, Facts
  <2>. QED BY <1>0, <1>1, <2>1 DEF ReadInv, HistoryIsIn, Owed, tip
<1>5. Places' /\ PollIsIn' /\ Origin' /\ PoolOpens'
  BY <1>0, <1>1, <1>2
     DEF ReadInv, PoolOpens, Origin, Places, PollIsIn, NotIn, tip, DayFloor, Max2
<1>. QED BY <1>0, <1>1, <1>4, <1>5 DEF ReadInv, Loading, Running

LEMMA ReadInvHistAnswers == TypeOK /\ ReadInv /\ HistAnswers => ReadInv'
<1> SUFFICES ASSUME TypeOK, ReadInv, HistAnswers PROVE ReadInv'
  OBVIOUS
<1>a. up /\ up' = up /\ hist.pc = "scan"
  BY DEF HistAnswers, seats
<1>0. UNCHANGED <<blocks, phase, loadedAt, live, left>>
  BY DEF HistAnswers, world, seats, ghosts
<1>1. ~Loading /\ Running
  BY <1>a DEF ReadInv, Loading, Waits, Running
<1>2. /\ ix' \in IxType
      /\ ix'.low = hist.from /\ ix'.cursor = ix.cursor /\ ix'.venue = ix.venue
      /\ ix'.first = ix.first /\ ix'.confirmed = ix.confirmed
      /\ hist'.pc = IF hist.from > DayFloor(ix) THEN "timer" ELSE "done"
  BY HistAnswersDoes
<1>3. \A b \in 1..tip :
        /\ ix'.times[b] \in Nat
        /\ ix.times[b] > 0 \/ b \in hist.found => ix'.times[b] > 0
  BY HistAnswersDoes, Facts DEF Adds
<1>4. Places /\ HistoryIsIn /\ PollIsIn /\ Origin /\ PoolOpens
  BY <1>a, <1>1 DEF ReadInv
<1>5. hist.from \in Nat /\ DayFloor(ix) <= hist.from /\ hist.from < ix.low /\ DayFloor(ix) >= 1
      /\ DayFloor(ix) \in Nat
  <2>1. hist \in HistType
    BY TypeParts
  <2>2. hist.from \in Nat
    BY <2>1, Numbers DEF HistType
  <2>3. DayFloor(ix) \in Nat /\ DayFloor(ix) >= 1
    BY Facts, Numbers DEF DayFloor, Max2
  <2>. QED BY <1>a, <1>4, <2>2, <2>3 DEF Places
<1>6. Places'
  <2>1. DayFloor(ix') = DayFloor(ix)
    BY <1>2 DEF DayFloor
  <2>. QED BY <1>0, <1>2, <1>4, <1>5, <2>1, Facts DEF Places, NotIn, tip
<1>7. HistoryIsIn'
  <2>1. Owed' = Owed
    BY <1>0, <1>2 DEF Owed
  <2>2. ASSUME NEW b \in 1..tip, hist.from <= b, b <= ix.first, blocks[b] \in Owed
        PROVE  ix'.times[b] > 0
    <3>1. CASE b < ix.low
      BY <1>a, <1>3, <1>4, <2>2, <3>1 DEF HistoryIsIn
    <3>2. CASE ix.low <= b
      BY <1>3, <1>4, <2>2, <3>2 DEF HistoryIsIn
    <3>. QED BY <3>1, <3>2, Facts
  <2>. QED BY <1>0, <1>2, <2>1, <2>2 DEF HistoryIsIn, tip
<1>8. PollIsIn'
  BY <1>0, <1>2, <1>3, <1>4 DEF PollIsIn, tip
<1>9. Origin' /\ PoolOpens'
  BY <1>0, <1>2, <1>4 DEF Origin, PoolOpens, NotIn, tip
<1>10. ~Loading' /\ Running'
  BY <1>a, <1>1, <1>2 DEF Loading, Running
<1>. QED BY <1>a, <1>6, <1>7, <1>8, <1>9, <1>10 DEF ReadInv

LEMMA ReadInvHistFails == TypeOK /\ ReadInv /\ HistFails => ReadInv'
<1> SUFFICES ASSUME TypeOK, ReadInv, HistFails PROVE ReadInv'
  OBVIOUS
<1>a. up /\ up' = up /\ hist.pc = "scan"
  BY DEF HistFails, seats
<1>0. UNCHANGED <<blocks, phase, loadedAt, ix, live, left>> /\ hist'.pc = "timer"
  BY DEF HistFails, world, seats, Asleep, ghosts
<1>1. ~Loading /\ Running
  BY <1>a DEF ReadInv, Loading, Waits, Running
<1>2. Places /\ HistoryIsIn /\ PollIsIn /\ Origin /\ PoolOpens
  BY <1>a, <1>1 DEF ReadInv
<1>3. Places' /\ HistoryIsIn' /\ PollIsIn'
  BY <1>a, <1>0, <1>2 DEF Places, HistoryIsIn, PollIsIn, Owed, NotIn, tip, DayFloor, Max2
<1>4. Origin' /\ PoolOpens' /\ ~Loading' /\ Running'
  BY <1>a, <1>0, <1>1, <1>2 DEF Origin, PoolOpens, NotIn, tip, Loading, Running
<1>. QED BY <1>a, <1>3, <1>4 DEF ReadInv

LEMMA ReadInvTick == TypeOK /\ ReadInv /\ Tick => ReadInv'
<1> SUFFICES ASSUME TypeOK, ReadInv, Tick PROVE ReadInv'
  OBVIOUS
<1>a. up /\ up' = up /\ live.pc = "timer"
  BY DEF Tick, seats
<1>0. UNCHANGED <<blocks, phase, loadedAt, left>>
  BY DEF Tick, world, seats
<1>1. Origin /\ PoolOpens
  BY <1>a DEF ReadInv
<1>2. PoolOpens' /\ (ix'.venue = ix.venue => Origin')
  BY <1>0, <1>1 DEF Origin, PoolOpens, NotIn, tip
<1>3. CASE ix.cursor = None
  <2>1. Loading /\ Waits
    BY <1>a, <1>3 DEF ReadInv, Loading
  <2>2. /\ live' = live /\ hist'.pc = "timer"
        /\ ix'.low = tip + 1 /\ ix'.cursor = tip /\ ix'.venue = ix.venue
        /\ ix'.first = tip /\ ix'.confirmed = tip
    BY <1>3, TickDoes
  <2>3. tip \in Nat /\ tip >= 1 /\ tip <= MaxBlock
    BY <1>1, Facts, Numbers DEF PoolOpens
  <2>4. DayFloor(ix') < tip + 1
    BY <2>2, <2>3, Numbers DEF DayFloor, Max2
  <2>5. Places'
    BY <1>0, <1>a, <1>1, <2>1, <2>2, <2>3, <2>4, Facts DEF Places, Origin, Waits, NotIn, tip
  <2>6. HistoryIsIn' /\ PollIsIn'
    BY <1>0, <1>a, <2>1, <2>2, <2>3 DEF HistoryIsIn, PollIsIn, Waits, tip
  <2>7. ~Loading' /\ Running'
    BY <1>a, <2>2, <2>3, Numbers DEF Loading, Running, None
  <2>. QED BY <1>a, <1>2, <2>2, <2>5, <2>6, <2>7 DEF ReadInv
<1>4. CASE ix.cursor # None
  <2>1. Running /\ ~Loading /\ Places /\ HistoryIsIn /\ PollIsIn
    BY <1>a, <1>4 DEF ReadInv, Loading, Running
  <2>2. /\ hist' = hist /\ Same(ix', ix) /\ ix'.times = ix.times /\ live' \in LiveType
        /\ \/ /\ live'.pc = "scan" /\ ix.cursor < live'.to /\ live'.to <= tip
              /\ live'.target = tip
              /\ live'.found = {b \in (ix.cursor + 1)..live'.to :
                                  blocks[b] \in liveFilters(ix.venue) /\ ix.times[b] = 0}
           \/ live'.pc = "timer"
           \/ live'.pc = "phase" /\ ix.venue = "curve"
    BY <1>4, TickDoes
  <2>3. Places'
    BY <1>0, <2>1, <2>2, Facts DEF Places, Same, NotIn, tip, DayFloor
  <2>4. HistoryIsIn'
    BY <1>0, <2>1, <2>2 DEF HistoryIsIn, Same, Owed, tip
  <2>5. PollIsIn'
    <3>1. ASSUME live'.pc = "scan", NEW b \in 1..tip, ix.cursor < b, b <= live'.to,
                 blocks[b] = ix.venue
          PROVE  ix.times[b] > 0 \/ b \in live'.found
      <4>1. live'.to \in Nat /\ ix.cursor \in Int
        BY <2>2, Facts DEF LiveType
      <4>2. b \in (ix.cursor + 1)..live'.to /\ blocks[b] \in liveFilters(ix.venue)
        BY <3>1, <4>1 DEF liveFilters
      <4>. QED BY <2>2, <3>1, <4>2, Facts
    <3>. QED BY <1>0, <2>1, <2>2, <3>1 DEF PollIsIn, Same, tip
  <2>6. ~Loading' /\ Running'
    BY <1>a, <1>4, <2>2 DEF Loading, Running, Same
  <2>. QED BY <1>a, <1>2, <2>2, <2>3, <2>4, <2>5, <2>6 DEF ReadInv, Same
<1>. QED BY <1>3, <1>4

LEMMA ReadInvScanAnswers == TypeOK /\ ReadInv /\ ScanAnswers => ReadInv'
<1> SUFFICES ASSUME TypeOK, ReadInv, ScanAnswers PROVE ReadInv'
  OBVIOUS
<1>a. up /\ up' = up /\ live.pc = "scan"
  BY DEF ScanAnswers, seats
<1>0. UNCHANGED <<blocks, phase, loadedAt, hist, left>>
  BY DEF ScanAnswers, world, seats
<1>1. ~Loading /\ Running
  BY <1>a DEF ReadInv, Loading, Waits, Running
<1>2. Places /\ HistoryIsIn /\ PollIsIn /\ Origin /\ PoolOpens
  BY <1>a, <1>1 DEF ReadInv
<1>3. /\ ix' \in IxType /\ live' \in LiveType
      /\ ix'.low = ix.low /\ ix'.cursor = live.to /\ ix'.venue = ix.venue
      /\ ix'.first = ix.first /\ ix'.confirmed = ix.confirmed
      /\ \/ /\ live'.pc = "scan" /\ live.to < live'.to /\ live'.to <= live.target
            /\ live'.target = live.target
            /\ live'.found = {b \in (live.to + 1)..live'.to :
                                blocks[b] \in liveFilters(ix.venue) /\ ix'.times[b] = 0}
         \/ live'.pc = "timer"
         \/ live'.pc = "phase" /\ ix.venue = "curve"
  BY ScanAnswersDoes
<1>4. \A b \in 1..tip :
        /\ ix'.times[b] \in Nat
        /\ ix.times[b] > 0 \/ b \in live.found => ix'.times[b] > 0
  BY ScanAnswersDoes, Facts DEF Adds
<1>5. /\ live.to \in 0..MaxBlock /\ live.target \in 0..MaxBlock /\ live'.to \in 0..MaxBlock
      /\ ix.cursor < live.to /\ live.to <= live.target /\ live.target <= tip
  <2>1. live \in LiveType
    BY TypeParts
  <2>. QED BY <1>a, <1>2, <1>3, <2>1 DEF Places, LiveType
<1>6. Places'
  <2>1. DayFloor(ix') = DayFloor(ix)
    BY <1>3 DEF DayFloor
  <2>. QED BY <1>0, <1>2, <1>3, <1>5, <2>1, Facts DEF Places, NotIn, tip
<1>7. HistoryIsIn'
  <2>1. Owed' = Owed
    BY <1>0, <1>3 DEF Owed
  <2>. QED BY <1>0, <1>2, <1>3, <1>4, <2>1 DEF HistoryIsIn, tip
<1>8. PollIsIn'
  <2>1. ASSUME NEW b \in 1..tip, b <= live.to, blocks[b] = ix.venue,
               b <= ix.cursor => ix.times[b] > 0
        PROVE  ix'.times[b] > 0
    <3>1. CASE b <= ix.cursor
      BY <1>4, <2>1, <3>1
    <3>2. CASE ix.cursor < b
      BY <1>a, <1>2, <1>4, <2>1, <3>2 DEF PollIsIn
    <3>. QED BY <3>1, <3>2, Facts
  <2>2. left # Never => ix.venue = "pool"
    BY <1>2 DEF Origin
  <2>3. left = Never => \A b \in 1..tip : ix.first < b /\ b <= live.to /\ blocks[b] = ix.venue
                                          => ix'.times[b] > 0
    BY <1>2, <2>1 DEF PollIsIn
  <2>4. left # Never =>
          /\ \A b \in 1..tip : ix.first < b /\ b <= left /\ blocks[b] = "curve" => ix'.times[b] > 0
          /\ LoadLag <= Margin =>
               \A b \in 1..tip : b <= live.to /\ blocks[b] = "pool" => ix'.times[b] > 0
    BY <1>2, <1>4, <2>1, <2>2 DEF PollIsIn
  <2>5. ASSUME live'.pc = "scan", NEW b \in 1..tip, live.to < b, b <= live'.to,
               blocks[b] = ix.venue
        PROVE  ix'.times[b] > 0 \/ b \in live'.found
    <3>1. b \in (live.to + 1)..live'.to /\ blocks[b] \in liveFilters(ix.venue)
      BY <1>5, <2>5 DEF liveFilters
    <3>. QED BY <1>3, <1>4, <2>5, <3>1
  <2>. QED BY <1>0, <1>3, <2>3, <2>4, <2>5 DEF PollIsIn, tip
<1>9. Origin' /\ PoolOpens'
  BY <1>0, <1>2, <1>3 DEF Origin, PoolOpens, NotIn, tip
<1>10. ~Loading' /\ Running'
  <2>1. ix'.cursor # None
    BY <1>3, <1>5, Numbers DEF None
  <2>. QED BY <1>a, <2>1 DEF Loading, Running
<1>. QED BY <1>a, <1>6, <1>7, <1>8, <1>9, <1>10 DEF ReadInv

\* Steps that read nothing: a tick ends, a batch is sent.
LEMMA ReadInvSame ==
  ASSUME TypeOK, ReadInv, Same(ix', ix), ix'.times = ix.times,
         UNCHANGED <<blocks, phase, up, loadedAt, hist, left>>,
         live' = live \/ live'.pc = "timer"
  PROVE  ReadInv'
<1>1. DayFloor(ix') = DayFloor(ix) /\ Owed' = Owed
  BY DEF Same, DayFloor, Owed
<1>2. PoolOpens' /\ (Origin => Origin')
  BY DEF ReadInv, PoolOpens, Origin, NotIn, tip, Same
<1>3. Waits => Waits'
  BY DEF Waits, Same, tip
<1>4. Places => Places'
  BY <1>1 DEF Places, Same, NotIn, tip
<1>5. HistoryIsIn => HistoryIsIn'
  BY <1>1 DEF HistoryIsIn, Same, tip
<1>6. PollIsIn => PollIsIn'
  BY DEF PollIsIn, Same, tip
<1>7. (Loading' <=> Loading) /\ (Running' <=> Running)
  BY DEF Loading, Running, Same
<1>. QED BY <1>2, <1>3, <1>4, <1>5, <1>6, <1>7 DEF ReadInv

LEMMA ReadInvTickEnds == TypeOK /\ ReadInv /\ (LiveFails \/ PhaseFails \/ Flush) => ReadInv'
<1> SUFFICES ASSUME TypeOK, ReadInv, LiveFails \/ PhaseFails \/ Flush PROVE ReadInv'
  OBVIOUS
<1>0. ix \in IxType
  BY TypeParts
<1>1. CASE LiveFails \/ PhaseFails
  <2>1. EndTick(ix) /\ UNCHANGED <<blocks, phase, up, loadedAt, hist, left>>
    BY <1>1 DEF LiveFails, PhaseFails, world, seats, ghosts
  <2>2. live'.pc = "timer" /\ Same(ix', ix) /\ ix'.times = ix.times
    BY <1>0, <2>1, EndTickTypes DEF Idle
  <2>. QED BY <2>1, <2>2, ReadInvSame
<1>2. CASE Flush
  <2>1. /\ ix' = [ix EXCEPT !.flushing = FALSE, !.pending = {}]
        /\ UNCHANGED <<blocks, phase, up, loadedAt, hist, left, live>>
    BY <1>2 DEF Flush, world, seats, ghosts
  <2>2. Same(ix', ix) /\ ix'.times = ix.times
    BY <1>0, <2>1 DEF IxType, Same
  <2>. QED BY <2>1, <2>2, ReadInvSame
<1>. QED BY <1>1, <1>2

\* The poll goes back far enough: of the pool's trades none is at or below the cursor.
LEMMA ReadInvPhase == TypeOK /\ ReadInv /\ PhaseAnswers => ReadInv'
<1> SUFFICES ASSUME TypeOK, ReadInv, PhaseAnswers PROVE ReadInv'
  OBVIOUS
<1>a. up /\ up' = up /\ live.pc = "phase"
  BY DEF PhaseAnswers, seats
<1>0. UNCHANGED <<blocks, phase, loadedAt, hist>>
  BY DEF PhaseAnswers, world, seats
<1>1. ~Loading /\ Running /\ ix.cursor # None
  BY <1>a DEF ReadInv, Loading, Waits, Running
<1>2. Places /\ HistoryIsIn /\ PollIsIn /\ Origin /\ PoolOpens
  BY <1>a, <1>1 DEF ReadInv
<1>3. /\ ix' \in IxType /\ live' \in LiveType /\ live'.pc = "timer"
      /\ ix'.low = ix.low /\ ix'.first = ix.first /\ ix'.times = ix.times
      /\ \/ /\ phase = 0 /\ left' = left
            /\ ix'.venue = ix.venue /\ ix'.cursor = ix.cursor /\ ix'.confirmed = ix.cursor
         \/ phase = 1 /\ left' = left /\ Same(ix', ix)
         \/ /\ phase = 2 /\ left' = ix.cursor /\ ix'.venue = "pool" /\ ix'.cursor = Rewound(ix)
            /\ ix'.confirmed = ix.cursor /\ ix'.cursor \in 0..MaxBlock
  BY <1>1, PhaseAnswersDoes
<1>4. ix.venue = "curve" /\ left = Never /\ ix.cursor \in 0..MaxBlock /\ ix.cursor >= ix.first
      /\ ix.cursor <= tip
  BY <1>a, <1>1, <1>2, Facts, Numbers DEF Places, Origin, None
<1>5. DayFloor(ix') = DayFloor(ix)
  BY <1>3 DEF DayFloor
<1>6. CASE phase = 0
  <2>1. /\ left' = left /\ ix'.venue = ix.venue /\ ix'.cursor = ix.cursor
        /\ ix'.confirmed = ix.cursor
    BY <1>3, <1>6
  <2>2. NotIn("pool", ix.cursor)
    BY <1>2, <1>4, <1>6, Facts DEF PoolOpens, NotIn
  <2>3. Places'
    BY <1>0, <1>2, <1>3, <1>4, <1>5, <2>1, <2>2 DEF Places, NotIn, tip
  <2>4. HistoryIsIn' /\ PollIsIn'
    BY <1>0, <1>2, <1>3, <2>1 DEF HistoryIsIn, PollIsIn, Owed, tip
  <2>5. Origin' /\ PoolOpens'
    BY <1>0, <1>2, <2>1 DEF Origin, PoolOpens, NotIn, tip
  <2>6. ~Loading' /\ Running'
    BY <1>a, <1>1, <2>1 DEF Loading, Running
  <2>. QED BY <1>a, <2>3, <2>4, <2>5, <2>6 DEF ReadInv
<1>7. CASE phase = 1
  BY <1>0, <1>a, <1>3, <1>7, ReadInvSame
<1>8. CASE phase = 2
  <2>1. /\ left' = ix.cursor /\ ix'.venue = "pool" /\ ix'.cursor = Rewound(ix)
        /\ ix'.confirmed = ix.cursor /\ ix'.cursor \in 0..MaxBlock
    BY <1>3, <1>8
  <2>2. left' # Never
    BY <1>4, <2>1, Numbers DEF Never
  <2>3. ix'.cursor <= ix.cursor /\ (ix'.cursor = 0 \/ ix'.cursor < ix.confirmed - Margin)
    BY <1>4, <2>1, Facts, Numbers DEF Rewound, Min2, Max2
  <2>4. ASSUME LoadLag <= Margin, NEW b \in 1..tip, b <= ix'.cursor PROVE blocks[b] # "pool"
    <3>0. b >= 1 /\ b <= ix'.cursor /\ b \in Int /\ ix.confirmed \in Int
      BY <2>4, TypeParts, Facts DEF IxType
    <3>1. b < ix.confirmed - Margin
      BY <2>1, <2>3, <3>0, Numbers
    <3>2. CASE NotIn("pool", ix.confirmed)
      BY <3>1, <3>2, Facts, Numbers DEF NotIn
    <3>3. CASE ix.confirmed = ix.first
      <4>1. b <= loadedAt
        BY <1>2, <2>4, <3>1, <3>3, Facts, Numbers DEF Places
      <4>2. NotIn("pool", loadedAt)
        BY <1>2, <1>4 DEF Origin
      <4>. QED BY <4>1, <4>2 DEF NotIn
    <3>. QED BY <1>2, <1>4, <3>2, <3>3 DEF Places
  <2>5. Places'
    <3>1. ix'.cursor <= tip
      BY <1>4, <2>1, <2>3, Facts
    <3>. QED BY <1>0, <1>2, <1>3, <1>4, <1>5, <2>1, <2>2, <3>1 DEF Places, tip
  <2>6. HistoryIsIn'
    <3>1. Owed' = Owed
      BY <1>4, <2>1, <2>2 DEF Owed, Never
    <3>. QED BY <1>0, <1>2, <1>3, <3>1 DEF HistoryIsIn, tip
  <2>7. PollIsIn'
    BY <1>0, <1>2, <1>3, <1>4, <2>1, <2>2, <2>4 DEF PollIsIn, tip, Never
  <2>8. Origin' /\ PoolOpens'
    BY <1>0, <1>2, <1>4, <1>8, <2>1, <2>2 DEF Origin, PoolOpens, NotIn, tip, Never
  <2>9. ~Loading' /\ Running'
    BY <1>a, <2>1, Numbers DEF Loading, Running, None
  <2>. QED BY <1>a, <2>5, <2>6, <2>7, <2>8, <2>9 DEF ReadInv
<1>. QED BY <1>6, <1>7, <1>8, Facts

LEMMA ReadInvVisits == TypeOK /\ ReadInv /\ (Visits \/ Stop) => ReadInv'
<1> SUFFICES ASSUME TypeOK, ReadInv, Visits \/ Stop PROVE ReadInv'
  OBVIOUS
<1>1. CASE Stop
  BY <1>1 DEF Stop, world, ReadInv, PoolOpens, NotIn, tip, Loading, Running, Asleep
<1>2. ASSUME NEW v \in Viewers, Ask(v) \/ Refused(v) \/ Leave(v) PROVE ReadInv'
  <2>1. UNCHANGED <<blocks, phase, up, loadedAt, ix, live, hist, left>>
    BY <1>2 DEF Ask, Refused, Leave, world, ghosts
  <2>. QED BY <2>1, ReadInvFrame
<1>3. ASSUME NEW v \in Viewers, Open(v) PROVE ReadInv'
  <2>1. phase # 1 /\ acquire /\ UNCHANGED <<blocks, phase, hist>>
    BY <1>3 DEF Open, world
  <2>2. CASE up
    BY <2>1, <2>2, ReadInvFrame DEF acquire, ghosts
  <2>3. CASE ~up
    <3>1. /\ loadedAt' = tip /\ live' = Idle /\ left' = Never
          /\ ix' = Fresh(IF phase = 2 THEN "pool" ELSE "curve")
      BY <2>1, <2>3 DEF acquire
    <3>2. up'
      BY <2>1, <2>3 DEF acquire
    <3>3. /\ ix'.cursor = None /\ ix'.venue = IF phase = 2 THEN "pool" ELSE "curve"
          /\ \A b \in Blocks : ix'.times[b] = 0
      BY <3>1 DEF Fresh
    <3>4. tip' = tip /\ tip \in Nat
      BY <2>1, Facts DEF tip
    <3>5. PoolOpens'
      BY <2>1 DEF ReadInv, PoolOpens, NotIn, tip
    <3>6. Origin'
      BY <2>1, <3>1, <3>3, <3>4 DEF ReadInv, PoolOpens, Origin, NotIn
    <3>7. Waits'
      <4>1. hist.pc = "none"
        BY <2>3 DEF ReadInv
      <4>. QED BY <2>1, <3>1, <3>3, <3>4, <4>1, Numbers DEF Waits, Idle
    <3>8. ~Running'
      BY <3>3 DEF Running, None
    <3>. QED BY <3>2, <3>5, <3>6, <3>7, <3>8 DEF ReadInv
  <2>. QED BY <2>2, <2>3
<1>. QED BY <1>1, <1>2, <1>3 DEF Visits

LEMMA ReadInvMarks == TypeOK /\ ReadInv /\ (MarkAnswers \/ MarkFails) => ReadInv'
<1> SUFFICES ASSUME TypeOK, ReadInv, MarkAnswers \/ MarkFails PROVE ReadInv'
  OBVIOUS
<1>1. UNCHANGED <<blocks, phase, up, loadedAt, ix, live, hist, left>>
  BY DEF MarkAnswers, MarkFails, MarkSettles, world, seats, ghosts
<1>. QED BY <1>1, ReadInvFrame

LEMMA TypesNext ==
  TypeOK /\ (Loading => live.pc = "timer") /\ [Next]_vars => TypeOK'
<1> SUFFICES ASSUME TypeOK, Loading => live.pc = "timer", [Next]_vars PROVE TypeOK'
  OBVIOUS
<1>1. CASE UNCHANGED vars
  BY <1>1 DEF vars, world, seats, marks, TypeOK, ghosts
<1>2. CASE PhaseAnswers \/ PhaseFails
  <2>1. up /\ live.pc = "phase"
    BY <1>2 DEF PhaseAnswers, PhaseFails
  <2>2. ix.cursor # None
    BY <2>1 DEF Loading
  <2>. QED BY <1>2, <2>2, PhaseTypes
<1>. QED
  BY <1>1, <1>2, ChainTypes, HistoryTypes, PollTypes, FlushTypes, MarkReadTypes, VisitTypes
     DEF Next, Loops

LEMMA ReadInvNext == TypeOK /\ ReadInv /\ [Next]_vars => ReadInv'
<1> SUFFICES ASSUME TypeOK, ReadInv, [Next]_vars PROVE ReadInv'
  OBVIOUS
<1>1. CASE UNCHANGED vars
  BY <1>1, ReadInvFrame DEF vars, world, seats, ghosts
<1>2. CASE Chain
  BY <1>2, ReadInvMint, ReadInvMigrate DEF Chain
<1>3. CASE Loops
  BY <1>3, ReadInvHistTick, ReadInvHistAnswers, ReadInvTick, ReadInvScanAnswers, ReadInvPhase,
     ReadInvTickEnds DEF Loops
<1>4. CASE Visits \/ Stop
  BY <1>4, ReadInvVisits
<1>5. CASE MarkAnswers \/ MarkFails \/ HistFails \/ LiveFails \/ PhaseFails
  BY <1>5, ReadInvMarks, ReadInvHistFails, ReadInvTickEnds
<1>. QED BY <1>1, <1>2, <1>3, <1>4, <1>5 DEF Next

LEMMA NothingIsSkippedHolds == LoadLag <= Margin /\ TypeOK /\ ReadInv => NothingIsSkipped
<1> SUFFICES ASSUME LoadLag <= Margin, TypeOK, ReadInv, up, NEW b \in Read
             PROVE  ix.times[b] > 0 \/ (blocks[b] = "curve" /\ b > left)
  BY DEF NothingIsSkipped
<1>1. /\ b \in 1..tip /\ ix.low <= b /\ b <= ix.cursor /\ blocks[b] \in historyFilters(ix.venue)
  BY DEF Read
<1>2. Running
  BY <1>1, Facts DEF Running, None
<1>3. Places /\ HistoryIsIn /\ PollIsIn /\ Origin
  BY <1>2 DEF ReadInv
<1>4. CASE left = Never
  <2>1. Owed = historyFilters(ix.venue)
    BY <1>4, Facts DEF Owed, historyFilters, Venues
  <2>2. CASE b <= ix.first
    BY <1>1, <1>3, <2>1, <2>2 DEF HistoryIsIn
  <2>3. CASE ix.first < b /\ blocks[b] = ix.venue
    BY <1>1, <1>3, <1>4, <2>3 DEF PollIsIn
  <2>4. CASE ix.first < b /\ blocks[b] # ix.venue
    <3>1. ix.venue = "pool" /\ blocks[b] = "curve"
      BY <1>1, <2>4, Facts DEF historyFilters, Venues
    <3>2. b > loadedAt
      BY <1>1, <1>3, <2>4, Facts DEF Places
    <3>. QED BY <1>1, <1>3, <1>4, <3>1, <3>2 DEF Origin
  <2>. QED BY <1>1, <2>2, <2>3, <2>4, Facts
<1>5. CASE left # Never
  <2>1. ix.venue = "pool" /\ (blocks[b] = "pool" \/ blocks[b] = "curve") /\ Owed = {"curve"}
    BY <1>1, <1>3, <1>5 DEF Origin, historyFilters, Owed
  <2>2. CASE blocks[b] = "pool"
    BY <1>1, <1>3, <1>5, <2>2 DEF PollIsIn
  <2>3. CASE blocks[b] = "curve" /\ b <= ix.first
    BY <1>1, <1>3, <2>1, <2>3 DEF HistoryIsIn
  <2>4. CASE blocks[b] = "curve" /\ ix.first < b /\ b <= left
    BY <1>1, <1>3, <1>5, <2>4 DEF PollIsIn
  <2>. QED BY <1>1, <2>1, <2>2, <2>3, <2>4, Facts
<1>. QED BY <1>4, <1>5
-----------------------------------------------------------------------------
(* A trade is charted twice only if both loops held it at once             *)

\* A block that the poll reads at or below the first head is between the two.
LEMMA ReadByBoth ==
  ASSUME TypeOK, Origin, Places, NEW b \in 1..tip, ix.cursor < b, blocks[b] = ix.venue, b <= ix.first
  PROVE  Between(b)
<1>1. CASE left = Never
  BY <1>1, Facts DEF Places
<1>2. CASE left # Never
  <2>1. ix.venue = "pool" /\ NotIn("pool", loadedAt)
    BY <1>2 DEF Origin
  <2>. QED BY <2>1, Facts DEF NotIn, Between
<1>. QED BY <1>1, <1>2

\* A loop that reads holds what was not charted; what it held before is gone.
LEMMA SharedFrame ==
  ASSUME TypeOK, Shared, UNCHANGED <<loadedAt, both>>, Loading' => Loading,
         tip' \in Int, tip' >= tip, \A b \in 1..tip : blocks'[b] = blocks[b],
         ix'.first = ix.first, ix'.times = ix.times,
         hist' = hist \/ hist'.pc # "scan",
         (live' = live /\ ix'.cursor = ix.cursor /\ ix'.venue = ix.venue) \/ live'.pc # "scan"
  PROVE  Shared'
<1>1. tip \in Int /\ \A b \in 1..tip : b \in 1..tip'
  BY Facts
<1>2. \A b \in both : b \in 1..tip /\ Between(b)'
  <2>1. \A b \in both : b \in Int /\ b >= 1
    BY TypeParts, Numbers DEF Blocks
  <2>. QED BY <1>1, <2>1 DEF Shared, Between
<1>3. \A b \in Holds(live)' : /\ b \in Holds(live) /\ b \in 1..tip' /\ ix'.cursor < b
                              /\ blocks'[b] = ix'.venue
  BY <1>1 DEF Shared, Holds
<1>4. \A b \in Holds(hist)' : b \in Holds(hist) /\ b \in 1..tip' /\ b <= ix'.first
  BY <1>1 DEF Shared, Holds
<1>. QED BY <1>2, <1>3, <1>4 DEF Shared

LEMMA SharedHistTick == TypeOK /\ ReadInv /\ Shared /\ HistTick => Shared'
<1> SUFFICES ASSUME TypeOK, ReadInv, Shared, HistTick PROVE Shared'
  OBVIOUS
<1>1. /\ up /\ hist.pc = "timer" /\ hist' = Window(ix)
      /\ UNCHANGED <<blocks, up, loadedAt, ix, live>>
      /\ both' = both \cup (Holds(live) \cap Holds(hist'))
  BY DEF HistTick, world, seats, Together
<1>2. Running /\ Origin /\ Places
  BY <1>1 DEF ReadInv, Loading, Waits, Running
<1>3. /\ hist'.pc = "scan" /\ DayFloor(ix) <= hist'.from /\ hist'.from \in Int
      /\ hist'.found = {b \in hist'.from..(ix.low - 1) :
                          blocks[b] \in historyFilters(ix.venue) /\ ix.times[b] = 0}
  <2>1. hist'.from \in Int
    BY <1>1, WindowType, Facts DEF HistType
  <2>. QED BY <1>1, <1>2, <2>1, WindowDoes DEF Places
<1>4. \A b \in hist'.found : b \in 1..tip /\ b <= ix.first /\ ix.times[b] = 0
  <2>1. DayFloor(ix) >= 1 /\ DayFloor(ix) \in Int
    BY Facts, Numbers DEF DayFloor, Max2
  <2>. QED BY <1>2, <1>3, <2>1, Facts DEF Places
<1>5. Holds(hist) = {} /\ Holds(hist') = hist'.found /\ Holds(hist)' = hist'.found
  BY <1>1, <1>3 DEF Holds
<1>6. Holds(live)' = Holds(live) /\ tip' = tip
  BY <1>1 DEF Holds, tip
<1>7. \A b \in Holds(live) \cap hist'.found : Between(b)
  BY <1>2, <1>4, ReadByBoth DEF Shared
<1>8. \A b \in both' : Between(b)'
  BY <1>1, <1>5, <1>7 DEF Shared, Between, tip
<1>9. ~Loading'
  BY <1>1, <1>2 DEF Loading, Running
<1>10. \A b \in Holds(live) \cup hist'.found : ix.times[b] = 0 \/ (ix.times[b] = 1 /\ b \in both)
  BY <1>4 DEF Shared
<1>. QED BY <1>1, <1>4, <1>5, <1>6, <1>8, <1>9, <1>10 DEF Shared

\* What is charted of a loop's window has been charted by the other at most, and then
\* while it was held.
LEMMA SharedAdds ==
  ASSUME TypeOK, Shared, NEW S, S = Holds(live) \/ S = Holds(hist), Adds(ix', ix, S)
  PROVE  /\ \A b \in Blocks : ix'.times[b] <= 1 \/ (ix'.times[b] = 2 /\ b \in both)
         /\ \A b \in (Holds(live) \cup Holds(hist)) \cap Blocks :
              b \notin S \/ (b \in Holds(live) /\ b \in Holds(hist))
                => ix'.times[b] = 0 \/ (ix'.times[b] = 1 /\ b \in both)
<1>1. \A b \in Blocks : ix.times[b] \in Nat
  BY Facts DEF IxType
<1>2. \A b \in S : ix.times[b] = 0 \/ (ix.times[b] = 1 /\ b \in both)
  BY DEF Shared
<1>3. \A b \in Blocks : ix'.times[b] = IF b \in S THEN ix.times[b] + 1 ELSE ix.times[b]
  BY DEF Adds
<1>4. \A b \in Blocks : ix.times[b] <= 1 \/ (ix.times[b] = 2 /\ b \in both)
  BY DEF Shared
<1>5. ASSUME NEW b \in Blocks, b \in Holds(live), b \in Holds(hist)
      PROVE  ix'.times[b] = 1 /\ b \in both
  BY <1>3, <1>5 DEF Shared
<1>6. ASSUME NEW b \in Blocks, b \in Holds(live) \cup Holds(hist), b \notin S
      PROVE  ix'.times[b] = 0 \/ (ix'.times[b] = 1 /\ b \in both)
  BY <1>3, <1>6 DEF Shared
<1>7. \A b \in Blocks : ix'.times[b] <= 1 \/ (ix'.times[b] = 2 /\ b \in both)
  BY <1>1, <1>2, <1>3, <1>4
<1>. QED BY <1>5, <1>6, <1>7

LEMMA HeldBlocks ==
  ASSUME TypeOK
  PROVE  Holds(live) \subseteq Blocks /\ Holds(hist) \subseteq Blocks
<1>1. live.found \subseteq Blocks /\ hist.found \subseteq Blocks
  BY TypeParts DEF LiveType, HistType
<1>. QED BY <1>1 DEF Holds

LEMMA SharedHistAnswers == TypeOK /\ ReadInv /\ Shared /\ HistAnswers => Shared'
<1> SUFFICES ASSUME TypeOK, ReadInv, Shared, HistAnswers PROVE Shared'
  OBVIOUS
<1>1. up /\ hist.pc = "scan" /\ UNCHANGED <<blocks, up, loadedAt, live, both>>
  BY DEF HistAnswers, world, seats, ghosts
<1>2. /\ ix'.first = ix.first /\ ix'.cursor = ix.cursor /\ ix'.venue = ix.venue
      /\ Adds(ix', ix, Holds(hist)) /\ hist'.pc # "scan"
  BY <1>1, HistAnswersDoes DEF Holds
<1>3. ~Loading'
  BY <1>1, <1>2 DEF ReadInv, Loading, Waits
<1>4. Holds(hist)' = {} /\ Holds(live)' = Holds(live) /\ tip' = tip
  BY <1>1, <1>2 DEF Holds, tip
<1>5. \A b \in both' : Between(b)'
  BY <1>1, <1>2 DEF Shared, Between, tip
<1>6. /\ \A b \in Blocks : ix'.times[b] <= 1 \/ (ix'.times[b] = 2 /\ b \in both)
      /\ \A b \in Holds(live) : ix'.times[b] = 0 \/ (ix'.times[b] = 1 /\ b \in both)
  BY <1>2, SharedAdds, HeldBlocks
<1>. QED BY <1>1, <1>2, <1>3, <1>4, <1>5, <1>6 DEF Shared

\* The poll reads a window, with x charted by now.
LEMMA SharedReads ==
  ASSUME TypeOK, Shared, Origin, Places, ~Loading', UNCHANGED <<blocks, loadedAt, hist>>,
         ix'.first = ix.first, ix'.venue = ix.venue, ix'.cursor \in Int, ix'.cursor >= ix.cursor,
         both' = both \cup (Holds(live') \cap Holds(hist')),
         live'.pc = "scan" =>
           /\ live'.to \in Int /\ live'.to <= tip /\ ix'.cursor >= 0
           /\ live'.found = {b \in (ix'.cursor + 1)..live'.to :
                               blocks[b] \in liveFilters(ix.venue) /\ ix'.times[b] = 0},
         \A b \in Blocks : ix'.times[b] <= 1 \/ (ix'.times[b] = 2 /\ b \in both),
         \A b \in Holds(hist) : ix'.times[b] = 0 \/ (ix'.times[b] = 1 /\ b \in both)
  PROVE  Shared'
<1>1. /\ Holds(hist)' = Holds(hist) /\ Holds(hist') = Holds(hist) /\ Holds(live') = Holds(live)'
      /\ tip' = tip
  BY DEF Holds, tip
<1>2. \A b \in Holds(live)' : /\ b \in 1..tip /\ ix'.cursor < b /\ ix.cursor < b
                              /\ blocks[b] = ix.venue /\ ix'.times[b] = 0
  BY Facts DEF Holds, liveFilters
<1>3. \A b \in Holds(live)' \cap Holds(hist) : Between(b)
  BY <1>2, ReadByBoth DEF Shared
<1>4. \A b \in both' : Between(b)'
  BY <1>1, <1>3 DEF Shared, Between, tip
<1>. QED BY <1>1, <1>2, <1>4 DEF Shared

LEMMA SharedTick == TypeOK /\ ReadInv /\ Shared /\ Tick => Shared'
<1> SUFFICES ASSUME TypeOK, ReadInv, Shared, Tick PROVE Shared'
  OBVIOUS
<1>0. /\ up /\ live.pc = "timer" /\ UNCHANGED <<blocks, up, loadedAt>>
      /\ both' = both \cup (Holds(live') \cap Holds(hist'))
  BY DEF Tick, world, seats, Together
<1>1. CASE ix.cursor = None
  <2>1. live' = live /\ hist'.pc = "timer" /\ ix'.times = ix.times /\ ix'.cursor = tip
    BY <1>1, TickDoes
  <2>2. both = {} /\ \A b \in Blocks : ix.times[b] = 0
    BY <1>0, <1>1 DEF Shared, ReadInv, Loading, Waits
  <2>3. Holds(live') = {} /\ Holds(live)' = {} /\ Holds(hist)' = {}
    BY <1>0, <2>1 DEF Holds
  <2>4. both' = {}
    BY <1>0, <2>2, <2>3
  <2>. QED BY <2>1, <2>2, <2>3, <2>4 DEF Shared
<1>2. CASE ix.cursor # None
  <2>1. Origin /\ Places
    BY <1>0, <1>2 DEF ReadInv, Running
  <2>2. hist' = hist /\ Same(ix', ix) /\ ix'.times = ix.times /\ live' \in LiveType
    BY <1>2, TickDoes
  <2>3. ix.cursor \in Int /\ ix.cursor >= 0
    BY <1>2, Facts DEF None
  <2>4. live'.pc = "scan" =>
           /\ live'.to \in Int /\ live'.to <= tip
           /\ live'.found = {b \in (ix.cursor + 1)..live'.to :
                               blocks[b] \in liveFilters(ix.venue) /\ ix.times[b] = 0}
    BY <1>2, <2>2, TickDoes DEF LiveType
  <2>5. ~Loading'
    BY <1>2, <2>2 DEF Loading, Same
  <2>. QED BY <1>0, <2>1, <2>2, <2>3, <2>4, <2>5, SharedReads DEF Same, Shared
<1>. QED BY <1>1, <1>2

LEMMA SharedScanAnswers == TypeOK /\ ReadInv /\ Shared /\ ScanAnswers => Shared'
<1> SUFFICES ASSUME TypeOK, ReadInv, Shared, ScanAnswers PROVE Shared'
  OBVIOUS
<1>0. /\ up /\ live.pc = "scan" /\ UNCHANGED <<blocks, up, loadedAt, hist>>
      /\ both' = both \cup (Holds(live') \cap Holds(hist'))
  BY DEF ScanAnswers, world, seats, Together
<1>1. Origin /\ Places
  BY <1>0 DEF ReadInv, Loading, Waits, Running
<1>2. /\ ix'.first = ix.first /\ ix'.venue = ix.venue /\ ix'.cursor = live.to
      /\ Adds(ix', ix, Holds(live)) /\ live' \in LiveType
      /\ live'.pc = "scan" =>
           /\ live'.to <= live.target
           /\ live'.found = {b \in (live.to + 1)..live'.to :
                                blocks[b] \in liveFilters(ix.venue) /\ ix'.times[b] = 0}
  BY <1>0, ScanAnswersDoes DEF Holds
<1>3. /\ live.to \in 0..MaxBlock /\ live.target \in 0..MaxBlock /\ live'.to \in 0..MaxBlock
      /\ ix.cursor < live.to /\ live.target <= tip
  <2>1. live \in LiveType
    BY TypeParts
  <2>. QED BY <1>0, <1>1, <1>2, <2>1 DEF Places, LiveType
<1>4. ~Loading'
  BY <1>2, <1>3, Numbers DEF Loading, None
<1>5. /\ \A b \in Blocks : ix'.times[b] <= 1 \/ (ix'.times[b] = 2 /\ b \in both)
      /\ \A b \in Holds(hist) : ix'.times[b] = 0 \/ (ix'.times[b] = 1 /\ b \in both)
  BY <1>2, SharedAdds, HeldBlocks
<1>6. live'.pc = "scan" =>
        /\ live'.to \in Int /\ live'.to <= tip /\ ix'.cursor >= 0
        /\ live'.found = {b \in (ix'.cursor + 1)..live'.to :
                            blocks[b] \in liveFilters(ix.venue) /\ ix'.times[b] = 0}
  BY <1>2, <1>3, Facts, Numbers
<1>7. ix'.cursor \in Int /\ ix'.cursor >= ix.cursor
  BY <1>2, <1>3, Facts, Numbers
<1>. QED BY <1>0, <1>1, <1>2, <1>4, <1>5, <1>6, <1>7, SharedReads

LEMMA SharedAnew ==
  ASSUME \A b \in Blocks : ix'.times[b] = 0, live'.pc # "scan", hist'.pc # "scan", both' = {}
  PROVE  Shared'
<1>1. Holds(live)' = {} /\ Holds(hist)' = {}
  BY DEF Holds
<1>. QED BY <1>1 DEF Shared

LEMMA SharedNext == TypeOK /\ ReadInv /\ Shared /\ [Next]_vars => Shared'
<1> SUFFICES ASSUME TypeOK, ReadInv, Shared, [Next]_vars PROVE Shared'
  OBVIOUS
<1>0. ix \in IxType /\ tip \in Int
  BY Facts
<1>1. ASSUME UNCHANGED <<up, ix, live, hist, loadedAt, both>>, tip' \in Int, tip' >= tip,
             \A b \in 1..tip : blocks'[b] = blocks[b]
      PROVE  Shared'
  BY <1>1, SharedFrame DEF Loading
<1>2. CASE UNCHANGED vars \/ Migrate \/ MarkAnswers \/ MarkFails
  <2>1. UNCHANGED <<up, ix, live, hist, loadedAt, both, blocks>>
    BY <1>2 DEF vars, world, seats, ghosts, Migrate, MarkAnswers, MarkFails, MarkSettles
  <2>. QED BY <1>0, <1>1, <2>1 DEF tip
<1>3. ASSUME NEW trade \in Venues \cup {"quiet"}, Mint(trade) PROVE Shared'
  <2>1. /\ tip < MaxBlock /\ blocks' = Append(blocks, trade)
        /\ UNCHANGED <<up, ix, live, hist, loadedAt, both>>
    BY <1>3 DEF Mint, seats, ghosts
  <2>2. tip' = tip + 1 /\ \A b \in 1..tip : blocks'[b] = blocks[b]
    BY <2>1, Grows
  <2>3. tip' \in Int /\ tip' >= tip
    BY <1>0, <2>2
  <2>. QED BY <1>1, <2>1, <2>2, <2>3
<1>4. ASSUME UNCHANGED <<blocks, up, loadedAt, both>>, Same(ix', ix), ix'.times = ix.times,
             hist' = hist \/ hist'.pc # "scan", live' = live \/ live'.pc # "scan"
      PROVE  Shared'
  BY <1>0, <1>4, SharedFrame DEF Same, Loading, tip
<1>5. CASE LiveFails \/ PhaseFails
  <2>1. EndTick(ix) /\ hist' = hist /\ UNCHANGED <<blocks, up, loadedAt, both>>
    BY <1>5 DEF LiveFails, PhaseFails, world, seats, ghosts
  <2>. QED BY <1>0, <1>4, <2>1, EndTickTypes DEF Idle
<1>6. CASE HistFails
  <2>1. hist'.pc = "timer" /\ UNCHANGED <<blocks, up, loadedAt, both, ix, live>>
    BY <1>6 DEF HistFails, Asleep, world, seats, ghosts
  <2>. QED BY <1>4, <2>1 DEF Same
<1>7. CASE Flush
  <2>1. /\ ix' = [ix EXCEPT !.flushing = FALSE, !.pending = {}]
        /\ UNCHANGED <<hist, live, blocks, up, loadedAt, both>>
    BY <1>7 DEF Flush, world, seats, ghosts
  <2>2. Same(ix', ix) /\ ix'.times = ix.times
    BY <1>0, <2>1 DEF IxType, Same
  <2>. QED BY <1>4, <2>1, <2>2
<1>8. CASE PhaseAnswers
  <2>1. hist' = hist /\ up /\ live.pc = "phase" /\ UNCHANGED <<blocks, up, loadedAt, both>>
    BY <1>8 DEF PhaseAnswers, world, seats
  <2>2. ix.cursor # None
    BY <2>1 DEF ReadInv, Loading, Waits
  <2>3. ix'.first = ix.first /\ ix'.times = ix.times /\ live'.pc = "timer" /\ ix'.cursor # None
    BY <1>8, <2>2, PhaseAnswersDoes, Numbers DEF Same, None
  <2>. QED BY <1>0, <2>1, <2>3, SharedFrame DEF Loading, tip
<1>9. CASE Stop
  <2>1. ix' = Fresh("curve") /\ live' = Idle /\ hist' = Asleep /\ both' = {}
    BY <1>9 DEF Stop
  <2>. QED BY <2>1, SharedAnew DEF Fresh, Idle, Asleep
<1>10. CASE Visits
  <2>1. PICK v \in Viewers : Ask(v) \/ Refused(v) \/ Open(v) \/ Leave(v)
    BY <1>10 DEF Visits
  <2>2. CASE Ask(v) \/ Refused(v) \/ Leave(v)
    <3>1. UNCHANGED <<blocks, up, loadedAt, ix, live, hist, both>>
      BY <2>2 DEF Ask, Refused, Leave, world, ghosts
    <3>. QED BY <1>4, <3>1 DEF Same
  <2>3. CASE Open(v)
    <3>1. acquire /\ UNCHANGED <<blocks, hist>>
      BY <2>3 DEF Open, world
    <3>2. CASE up
      <4>1. UNCHANGED <<blocks, up, loadedAt, ix, live, hist, both>>
        BY <3>1, <3>2 DEF acquire, ghosts
      <4>. QED BY <1>4, <4>1 DEF Same
    <3>3. CASE ~up
      <4>1. /\ live' = Idle /\ ix' = Fresh(IF phase = 2 THEN "pool" ELSE "curve") /\ both' = {}
        BY <3>1, <3>3 DEF acquire
      <4>2. hist'.pc = "none"
        BY <3>1, <3>3 DEF ReadInv
      <4>. QED BY <4>1, <4>2, SharedAnew DEF Fresh, Idle
    <3>. QED BY <3>2, <3>3
  <2>. QED BY <2>1, <2>2, <2>3
<1>. QED
  BY <1>2, <1>3, <1>5, <1>6, <1>7, <1>8, <1>9, <1>10, SharedHistTick, SharedHistAnswers, SharedTick,
     SharedScanAnswers DEF Next, Loops, Chain
-----------------------------------------------------------------------------
(* What the open streams were sent                                         *)

Watching == {v \in Viewers : viewer[v] = "open"}

Counted == IsFiniteSet(Watching) /\ refs = Cardinality(Watching) /\ (refs > 0 => up)

\* How far the history is said to reach, and that nothing is charted above the last head.
Depth(x) ==
  /\ x.low <= x.first + 1 /\ x.first <= x.lastHead
  /\ x.history >= 1 => x.low <= HourFloor(x)
  /\ x.history = 2 => x.low <= DayFloor(x)
  /\ \A b \in Charted(x) : b <= x.lastHead

HistAt(h, x) ==
  /\ h.pc \in {"timer", "scan"} => x.low > DayFloor(x)
  /\ h.pc = "scan" => /\ DayFloor(x) <= h.from /\ h.from < x.low
                      /\ \A b \in h.found : h.from <= b /\ b < x.low

PollAt(l, x) ==
  l.pc = "scan" => /\ l.to <= l.target /\ l.target <= x.lastHead
                   /\ \A b \in l.found : b <= l.to

\* A mark of this block is as new as the charted trades, but for the next batch.
Covers(at, x) == \A b \in Charted(x) : b > x.first => b \in x.pending \/ b <= at

ReadIs(r, x) == r.busy /\ ~r.dirty => r.venue = x.venue /\ Covers(r.at, x)
MarkIs(m, x) == (m # NoMark => m.venue = x.venue) /\ Covers(m.at, x)

\* The trades of a history that is not complete are sent when it is.
Withheld(b, x) == b <= x.first /\ (IF b < HourFloor(x) THEN x.history < 2 ELSE x.history < 1)

Sent(s, x) ==
  /\ s \subseteq Charted(x)
  /\ \A b \in Charted(x) \ s : b \in x.pending \/ Withheld(b, x)

Blank(x) == Charted(x) = {} /\ x.history = 0

SentInv ==
  /\ tip >= 1
  /\ ~Running => hist.pc = "none" /\ live.pc = "timer" /\ Blank(ix)
  /\ ~up => reading = NoRead /\ mark = NoMark
  /\ Running => Depth(ix) /\ HistAt(hist, ix) /\ PollAt(live, ix)
  /\ ix.pending \subseteq Charted(ix)
  /\ ReadIs(reading, ix)
  /\ reading.busy \/ missed \/ MarkIs(mark, ix)
  /\ \A v \in Watching : Sent(shown[v], ix)

\* An indexer that differs in nothing of this.
Alike(y, x) ==
  /\ y.venue = x.venue /\ y.low = x.low /\ y.first = x.first /\ y.lastHead = x.lastHead
  /\ y.history = x.history /\ y.times = x.times /\ y.pending = x.pending

LEMMA AlikeKeeps ==
  ASSUME NEW x, NEW y, Alike(y, x)
  PROVE  /\ Depth(x) <=> Depth(y)
         /\ \A h : HistAt(h, x) <=> HistAt(h, y)
         /\ \A l : PollAt(l, x) <=> PollAt(l, y)
         /\ \A r : ReadIs(r, x) <=> ReadIs(r, y)
         /\ \A m : MarkIs(m, x) <=> MarkIs(m, y)
         /\ \A s : Sent(s, x) <=> Sent(s, y)
         /\ Blank(x) <=> Blank(y)
         /\ Charted(x) = Charted(y) /\ y.pending = x.pending
<1>1. /\ Charted(x) = Charted(y) /\ HourFloor(x) = HourFloor(y) /\ DayFloor(x) = DayFloor(y)
      /\ y.venue = x.venue /\ y.low = x.low /\ y.first = x.first /\ y.lastHead = x.lastHead
      /\ y.history = x.history /\ y.pending = x.pending
  BY DEF Alike, Charted, HourFloor, DayFloor, Max2
<1>2. \A at : Covers(at, x) <=> Covers(at, y)
  BY <1>1 DEF Covers
<1>3. \A b : Withheld(b, x) <=> Withheld(b, y)
  BY <1>1 DEF Withheld
<1>4. (Depth(x) <=> Depth(y)) /\ (Blank(x) <=> Blank(y))
  BY <1>1 DEF Depth, Blank
<1>5. \A h : HistAt(h, x) <=> HistAt(h, y)
  BY <1>1 DEF HistAt
<1>6. \A l : PollAt(l, x) <=> PollAt(l, y)
  BY <1>1 DEF PollAt
<1>7. \A r : ReadIs(r, x) <=> ReadIs(r, y)
  BY <1>1, <1>2 DEF ReadIs
<1>8. \A m : MarkIs(m, x) <=> MarkIs(m, y)
  BY <1>1, <1>2 DEF MarkIs
<1>9. \A s : Sent(s, x) <=> Sent(s, y)
  BY <1>1, <1>3 DEF Sent
<1>. QED BY <1>1, <1>4, <1>5, <1>6, <1>7, <1>8, <1>9

\* What a loop brings is charted.
LEMMA AddsCharts ==
  ASSUME NEW x \in IxType, NEW y, NEW found \in SUBSET Blocks, Adds(y, x, found)
  PROVE  Charted(y) = Charted(x) \cup found
<1>1. \A b \in Blocks : x.times[b] \in Nat
  BY DEF IxType
<1>2. \A b \in Blocks : y.times[b] > 0 <=> x.times[b] > 0 \/ b \in found
  BY <1>1 DEF Adds
<1>. QED BY <1>2 DEF Charted

\* What the poll brings is pending until it is sent.
LEMMA PollAdds ==
  ASSUME NEW x \in IxType, NEW y, NEW found \in SUBSET Blocks, Adds(y, x, found),
         y.venue = x.venue, y.low = x.low, y.first = x.first, y.lastHead = x.lastHead,
         y.history = x.history, y.pending = x.pending \cup found,
         \A b \in found : b <= x.lastHead
  PROVE  /\ Depth(x) => Depth(y)
         /\ \A h : HistAt(h, x) => HistAt(h, y)
         /\ \A r : ReadIs(r, x) => ReadIs(r, y)
         /\ \A m : MarkIs(m, x) => MarkIs(m, y)
         /\ \A s : Sent(s, x) => Sent(s, y)
         /\ x.pending \subseteq Charted(x) => y.pending \subseteq Charted(y)
<1>1. /\ Charted(y) = Charted(x) \cup found
      /\ HourFloor(x) = HourFloor(y) /\ DayFloor(x) = DayFloor(y)
  BY AddsCharts DEF HourFloor, DayFloor, Max2
<1>2. \A at : Covers(at, x) => Covers(at, y)
  BY <1>1 DEF Covers
<1>3. Depth(x) => Depth(y)
  BY <1>1 DEF Depth
<1>4. \A h : HistAt(h, x) => HistAt(h, y)
  BY <1>1 DEF HistAt
<1>5. \A r : ReadIs(r, x) => ReadIs(r, y)
  BY <1>2 DEF ReadIs
<1>6. \A m : MarkIs(m, x) => MarkIs(m, y)
  BY <1>2 DEF MarkIs
<1>7. \A b : Withheld(b, x) => Withheld(b, y)
  BY <1>1 DEF Withheld
<1>8. \A s : Sent(s, x) => Sent(s, y)
  BY <1>1, <1>7 DEF Sent
<1>. QED BY <1>1, <1>3, <1>4, <1>5, <1>6, <1>8

\* What the history brings was all below the head it began at, and is sent when it has
\* reached its hour, or its day.
LEMMA HistoryAdds ==
  ASSUME NEW x \in IxType, NEW y \in IxType, NEW h \in HistType, h.pc = "scan",
         Depth(x), HistAt(h, x), Adds(y, x, h.found),
         y.venue = x.venue, y.low = h.from, y.first = x.first, y.lastHead = x.lastHead,
         y.history = HistoryAt(x, h.from), y.pending = x.pending
  PROVE  /\ Depth(y)
         /\ \A l : PollAt(l, x) => PollAt(l, y)
         /\ \A r : ReadIs(r, x) => ReadIs(r, y)
         /\ \A m : MarkIs(m, x) => MarkIs(m, y)
         /\ x.pending \subseteq Charted(x) => y.pending \subseteq Charted(y)
         /\ ~(y.history > x.history) => \A s : Sent(s, x) => Sent(s, y)
         /\ Sent(Charted(y), y)
<1>0. /\ x.low \in Nat /\ x.first \in Nat /\ x.lastHead \in Nat /\ h.from \in Nat
      /\ x.history \in 0..2 /\ h.found \in SUBSET Blocks /\ \A b \in Blocks : b \in Nat
      /\ HourFloor(x) \in Nat /\ DayFloor(x) \in Nat /\ DayFloor(x) <= HourFloor(x)
  <2>1. /\ x.low \in Nat /\ x.first \in Nat /\ x.lastHead \in Nat /\ x.history \in 0..2
    BY Numbers DEF IxType
  <2>2. h.from \in Nat /\ h.found \in SUBSET Blocks /\ \A b \in Blocks : b \in Nat
    BY Numbers DEF HistType, Blocks
  <2>3. HourFloor(x) \in Nat /\ DayFloor(x) \in Nat /\ DayFloor(x) <= HourFloor(x)
    BY <2>1, Numbers DEF HourFloor, DayFloor, Max2
  <2>. QED BY <2>1, <2>2, <2>3
<1>1. /\ Charted(y) = Charted(x) \cup h.found
      /\ HourFloor(x) = HourFloor(y) /\ DayFloor(x) = DayFloor(y)
  BY <1>0, AddsCharts DEF HourFloor, DayFloor, Max2
<1>2. /\ DayFloor(x) <= h.from /\ h.from < x.low /\ x.low <= x.first + 1 /\ x.first <= x.lastHead
      /\ x.low > DayFloor(x) /\ \A b \in h.found : h.from <= b /\ b < x.low
      /\ x.history >= 1 => x.low <= HourFloor(x)
      /\ x.history = 2 => x.low <= DayFloor(x)
      /\ \A b \in Charted(x) : b <= x.lastHead
  BY DEF Depth, HistAt
<1>3. \A b \in h.found : b \in Nat /\ b <= x.first
  BY <1>0, <1>2
<1>4. /\ x.history \in 0..1 /\ y.history \in 0..2
      /\ y.history = 2 <=> h.from <= DayFloor(x)
      /\ y.history >= 1 <=> h.from <= HourFloor(x)
  BY <1>0, <1>2 DEF HistoryAt
<1>5. \A at : Covers(at, x) => Covers(at, y)
  BY <1>0, <1>1, <1>3 DEF Covers
<1>6. Depth(y)
  BY <1>0, <1>1, <1>2, <1>3, <1>4 DEF Depth
<1>7. \A l : PollAt(l, x) => PollAt(l, y)
  BY DEF PollAt
<1>8. \A r : ReadIs(r, x) => ReadIs(r, y)
  BY <1>5 DEF ReadIs
<1>9. \A m : MarkIs(m, x) => MarkIs(m, y)
  BY <1>5 DEF MarkIs
<1>10. ASSUME ~(y.history > x.history) PROVE \A s : Sent(s, x) => Sent(s, y)
  <2>1. y.history = x.history /\ (x.history = 1 => x.low <= HourFloor(x))
    BY <1>0, <1>2, <1>4, <1>10
  <2>2. \A b \in h.found : Withheld(b, y)
    BY <1>0, <1>1, <1>2, <1>3, <1>4, <2>1 DEF Withheld
  <2>3. \A b : Withheld(b, x) => Withheld(b, y)
    BY <1>1, <2>1 DEF Withheld
  <2>. QED BY <1>1, <2>2, <2>3 DEF Sent
<1>11. Sent(Charted(y), y)
  BY DEF Sent
<1>. QED BY <1>1, <1>6, <1>7, <1>8, <1>9, <1>10, <1>11

\* A batch is sent: what was pending is shown.
LEMMA FlushSends ==
  ASSUME NEW x, NEW y, Depth(x), x.pending \subseteq Charted(x),
         y.venue = x.venue, y.low = x.low, y.first = x.first, y.lastHead = x.lastHead,
         y.history = x.history, y.times = x.times, y.pending = {}
  PROVE  /\ Depth(y)
         /\ \A h : HistAt(h, x) => HistAt(h, y)
         /\ \A l : PollAt(l, x) => PollAt(l, y)
         /\ Covers(x.lastHead, y)
         /\ \A s : Sent(s, x) => Sent(s \cup x.pending, y)
<1>1. /\ Charted(y) = Charted(x) /\ HourFloor(x) = HourFloor(y) /\ DayFloor(x) = DayFloor(y)
  BY DEF Charted, HourFloor, DayFloor, Max2
<1>2. Depth(y)
  BY <1>1 DEF Depth
<1>3. \A h : HistAt(h, x) => HistAt(h, y)
  BY <1>1 DEF HistAt
<1>4. \A l : PollAt(l, x) => PollAt(l, y)
  BY DEF PollAt
<1>5. Covers(x.lastHead, y)
  BY <1>1 DEF Covers, Depth
<1>6. \A b : Withheld(b, x) => Withheld(b, y)
  BY <1>1 DEF Withheld
<1>7. \A s : Sent(s, x) => Sent(s \cup x.pending, y)
  BY <1>1, <1>6 DEF Sent
<1>. QED BY <1>2, <1>3, <1>4, <1>5, <1>7

\* Once a mark is asked for one is on its way that is as new as the trades.
LEMMA MarkIsAsked ==
  ASSUME NEW x, NEW at, reading \in ReadType, Covers(at, x), RequestMark(x.venue, at)
  PROVE  reading'.busy /\ ReadIs(reading', x) /\ mark' = mark
<1>1. CASE reading.busy
  <2>1. reading' = [reading EXCEPT !.dirty = TRUE] /\ mark' = mark
    BY <1>1 DEF RequestMark
  <2>. QED BY <1>1, <2>1 DEF ReadType, ReadIs
<1>2. CASE ~reading.busy
  <2>1. reading' = [busy |-> TRUE, dirty |-> FALSE, venue |-> x.venue, at |-> at] /\ mark' = mark
    BY <1>2 DEF RequestMark
  <2>. QED BY <2>1 DEF ReadIs
<1>. QED BY <1>1, <1>2

LEMMA EndTickAlike ==
  ASSUME NEW x \in IxType, EndTick(x)
  PROVE  Alike(ix', x) /\ ix'.cursor = x.cursor /\ live' = Idle
<1>. DEFINE flushing == x.flushing \/ x.pending # {}
<1>1. ix' = [x EXCEPT !.flushing = flushing] /\ live' = Idle
  BY DEF EndTick
<1>. HIDE DEF flushing
<1>. QED BY <1>1 DEF IxType, Alike

LEMMA PollAlike ==
  ASSUME TypeOK, NEW x \in IxType, x.cursor # None, NEW target \in 0..MaxBlock,
         target <= x.lastHead, Poll(x, target)
  PROVE  Alike(ix', x) /\ ix'.cursor = x.cursor /\ PollAt(live', ix')
<1>1. Alike(ix', x) /\ ix'.cursor = x.cursor
  <2>1. CASE ix' = x
    BY <2>1 DEF Alike
  <2>2. CASE EndTick(x)
    BY <2>2, EndTickAlike
  <2>. QED BY <2>1, <2>2 DEF Poll
<1>2. \/ /\ live'.pc = "scan" /\ live'.to <= target /\ live'.target = target
         /\ live'.found = {b \in (x.cursor + 1)..live'.to :
                             blocks[b] \in liveFilters(x.venue) /\ x.times[b] = 0}
      \/ live'.pc # "scan"
  BY PollDoes
<1>3. ix'.lastHead = x.lastHead
  BY <1>1 DEF Alike
<1>. QED BY <1>1, <1>2, <1>3 DEF PollAt

\* A later head.
LEMMA HeadRises ==
  ASSUME NEW x \in IxType, NEW y \in IxType, x.lastHead <= y.lastHead,
         y.venue = x.venue, y.low = x.low, y.first = x.first, y.history = x.history,
         y.times = x.times, y.pending = x.pending
  PROVE  /\ Depth(x) => Depth(y)
         /\ \A h : HistAt(h, x) => HistAt(h, y)
         /\ \A r : ReadIs(r, x) => ReadIs(r, y)
         /\ \A m : MarkIs(m, x) => MarkIs(m, y)
         /\ \A s : Sent(s, x) => Sent(s, y)
         /\ x.pending \subseteq Charted(x) => y.pending \subseteq Charted(y)
<1>1. /\ Charted(y) = Charted(x) /\ HourFloor(x) = HourFloor(y) /\ DayFloor(x) = DayFloor(y)
      /\ x.lastHead \in Nat /\ y.lastHead \in Nat /\ x.first \in Nat /\ Charted(x) \subseteq Nat
  BY Numbers DEF Charted, HourFloor, DayFloor, Max2, IxType, Blocks
<1>2. Depth(x) => Depth(y)
  BY <1>1 DEF Depth
<1>3. \A h : HistAt(h, x) => HistAt(h, y)
  BY <1>1 DEF HistAt
<1>4. \A at : Covers(at, x) => Covers(at, y)
  BY <1>1 DEF Covers
<1>5. \A r : ReadIs(r, x) => ReadIs(r, y)
  BY <1>4 DEF ReadIs
<1>6. \A m : MarkIs(m, x) => MarkIs(m, y)
  BY <1>4 DEF MarkIs
<1>7. \A b : Withheld(b, x) => Withheld(b, y)
  BY <1>1 DEF Withheld
<1>8. \A s : Sent(s, x) => Sent(s, y)
  BY <1>1, <1>7 DEF Sent
<1>. QED BY <1>1, <1>2, <1>3, <1>5, <1>6, <1>8

\* A step that charts and sends nothing.
LEMMA SentSame ==
  ASSUME SentInv, tip' >= 1, Alike(ix', ix), ix'.cursor = None <=> ix.cursor = None,
         UNCHANGED <<up, shown, reading, mark, missed>>, Watching' = Watching,
         Running => HistAt(hist', ix) /\ PollAt(live', ix),
         ~Running => hist'.pc = "none" /\ live'.pc = "timer"
  PROVE  SentInv'
<1>1. Running' <=> Running
  BY DEF Running
<1>2. ~Running => hist'.pc = "none" /\ live'.pc = "timer" /\ Blank(ix')
  BY AlikeKeeps DEF SentInv
<1>3. Running => Depth(ix') /\ HistAt(hist', ix') /\ PollAt(live', ix')
  BY AlikeKeeps DEF SentInv
<1>4. ix'.pending \subseteq Charted(ix') /\ ReadIs(reading', ix')
  BY AlikeKeeps DEF SentInv
<1>5. reading'.busy \/ missed' \/ MarkIs(mark', ix')
  BY AlikeKeeps DEF SentInv
<1>6. \A v \in Watching' : Sent(shown'[v], ix')
  BY AlikeKeeps DEF SentInv
<1>7. ~up' => reading' = NoRead /\ mark' = NoMark
  BY DEF SentInv
<1>. QED BY <1>1, <1>2, <1>3, <1>4, <1>5, <1>6, <1>7 DEF SentInv

LEMMA SentChain ==
  ASSUME TypeOK, SentInv, Chain
  PROVE  SentInv'
<1>1. /\ UNCHANGED <<up, ix, live, hist, shown, reading, mark, missed>>
      /\ Watching' = Watching
  BY DEF Chain, Mint, Migrate, seats, marks, Watching
<1>2. tip' >= 1
  <2>1. CASE Migrate
    BY <2>1 DEF Migrate, SentInv, tip
  <2>2. ASSUME NEW trade \in Venues \cup {"quiet"}, Mint(trade) PROVE tip' >= 1
    BY <2>2, Grows DEF Mint, SentInv
  <2>. QED BY <2>1, <2>2 DEF Chain
<1>3. Alike(ix', ix)
  BY <1>1 DEF Alike
<1>. QED
  <2>1. Running => HistAt(hist', ix) /\ PollAt(live', ix)
    BY <1>1 DEF SentInv
  <2>2. ~Running => hist'.pc = "none" /\ live'.pc = "timer"
    BY <1>1 DEF SentInv
  <2>. QED BY <1>1, <1>2, <1>3, <2>1, <2>2, SentSame

LEMMA SentHistTick ==
  ASSUME TypeOK, SentInv, HistTick \/ HistFails
  PROVE  SentInv'
<1>1. /\ UNCHANGED <<up, ix, live, shown, reading, mark, missed>> /\ tip' = tip
      /\ Watching' = Watching /\ up /\ hist.pc \in {"timer", "scan"}
  BY DEF HistTick, HistFails, world, seats, marks, Watching, tip
<1>2. Running /\ HistAt(hist, ix) /\ PollAt(live, ix) /\ tip >= 1
  BY <1>1 DEF SentInv
<1>3. HistAt(hist', ix)
  <2>1. CASE HistTick
    <3>1. hist' = Window(ix) /\ ix.low > DayFloor(ix)
      BY <1>2, <2>1 DEF HistTick, HistAt
    <3>2. /\ hist'.pc = "scan" /\ DayFloor(ix) <= hist'.from /\ hist'.from < ix.low
          /\ hist'.found \subseteq hist'.from..(ix.low - 1)
      BY <3>1, WindowDoes
    <3>3. hist'.from \in Int /\ ix.low \in Int
      BY <3>1, WindowType, Facts DEF HistType
    <3>. QED BY <3>1, <3>2, <3>3 DEF HistAt
  <2>2. CASE HistFails
    <3>1. hist.pc = "scan" /\ hist'.pc = "timer"
      BY <2>2 DEF HistFails, Asleep
    <3>. QED BY <1>2, <3>1 DEF HistAt
  <2>. QED BY <2>1, <2>2
<1>4. Alike(ix', ix)
  BY <1>1 DEF Alike
<1>. QED BY <1>1, <1>2, <1>3, <1>4, SentSame

LEMMA SentTickEnds ==
  ASSUME TypeOK, SentInv, LiveFails \/ PhaseFails
  PROVE  SentInv'
<1>1. /\ UNCHANGED <<up, hist, shown, reading, mark, missed>> /\ tip' = tip
      /\ Watching' = Watching /\ up /\ EndTick(ix) /\ live.pc # "timer"
  BY DEF LiveFails, PhaseFails, world, seats, marks, Watching, tip
<1>2. Running /\ HistAt(hist, ix) /\ tip >= 1
  BY <1>1 DEF SentInv
<1>3. Alike(ix', ix) /\ ix'.cursor = ix.cursor /\ live' = Idle
  BY <1>1, Facts, EndTickAlike
<1>4. PollAt(live', ix)
  BY <1>3 DEF PollAt, Idle
<1>. QED BY <1>1, <1>2, <1>3, <1>4, SentSame

LEMMA SentTick ==
  ASSUME TypeOK, TypeOK', SentInv, Tick
  PROVE  SentInv'
<1>1. /\ UNCHANGED <<up, shown, reading, mark, missed>> /\ tip' = tip
      /\ Watching' = Watching /\ up /\ tip >= 1
  BY DEF Tick, world, seats, marks, Watching, tip, SentInv
<1>2. ix \in IxType /\ ix' \in IxType /\ tip \in 0..MaxBlock /\ ix.lastHead \in 0..MaxBlock
  <2>1. ix \in IxType /\ tip \in 0..MaxBlock
    BY Facts
  <2>. QED BY <2>1, TickDoes DEF IxType
<1>3. CASE ix.cursor = None
  <2>1. /\ ix' = Begins(ix) /\ live' = live /\ hist' = [Asleep EXCEPT !.pc = "timer"]
        /\ ~Running
    BY <1>3 DEF Tick, Running
  <2>2. /\ ix'.low = tip + 1 /\ ix'.first = tip /\ ix'.times = ix.times /\ ix'.cursor = tip
        /\ ix'.lastHead = tip /\ ix'.history = ix.history /\ ix'.pending = ix.pending
        /\ ix'.venue = ix.venue
    BY <1>2, <2>1 DEF Begins, IxType
  <2>3. Charted(ix) = {} /\ ix.history = 0 /\ live.pc = "timer" /\ ix.pending = {}
    BY <2>1 DEF SentInv, Blank
  <2>4. Charted(ix') = {} /\ Running'
    BY <1>1, <1>2, <2>2, <2>3, Numbers DEF Charted, Running, None
  <2>5. Depth(ix')
    BY <1>2, <2>2, <2>3, <2>4 DEF Depth
  <2>6. hist'.pc = "timer" /\ HistAt(hist', ix')
    <3>1. DayFloor(ix') < tip + 1
      BY <1>1, <1>2, <2>2, Numbers DEF DayFloor, Max2
    <3>2. hist'.pc = "timer"
      BY <2>1 DEF Asleep
    <3>. QED BY <1>2, <2>2, <3>1, <3>2 DEF HistAt
  <2>7. PollAt(live', ix')
    BY <2>1, <2>3 DEF PollAt
  <2>8. \A at : Covers(at, ix')
    BY <2>4 DEF Covers
  <2>9. ReadIs(reading', ix') /\ (reading'.busy \/ missed' \/ MarkIs(mark', ix'))
    BY <1>1, <2>2, <2>8 DEF SentInv, ReadIs, MarkIs
  <2>10. \A v \in Watching' : Sent(shown'[v], ix')
    BY <1>1, <2>3, <2>4 DEF SentInv, Sent
  <2>. QED BY <1>1, <2>2, <2>3, <2>4, <2>5, <2>6, <2>7, <2>9, <2>10 DEF SentInv
<1>4. CASE ix.cursor # None
  <2>1. PICK n : n = Max2(ix.lastHead, tip)
    OBVIOUS
  <2>2. n \in 0..MaxBlock /\ ix.lastHead <= n /\ tip <= n
    BY <1>2, <2>1, Numbers DEF Max2
  <2>3. PICK x : x = [ix EXCEPT !.lastHead = n]
    OBVIOUS
  <2>4. /\ x \in IxType /\ x.lastHead = n /\ x.cursor = ix.cursor
        /\ x.venue = ix.venue /\ x.low = ix.low /\ x.first = ix.first
        /\ x.history = ix.history /\ x.times = ix.times /\ x.pending = ix.pending
    BY <1>2, <2>2, <2>3 DEF IxType
  <2>5. Poll(x, tip) /\ hist' = hist
    BY <1>4, <2>1, <2>3 DEF Tick
  <2>6. Alike(ix', x) /\ ix'.cursor = x.cursor /\ PollAt(live', ix')
    BY <1>2, <1>4, <2>2, <2>4, <2>5, PollAlike
  <2>7. Running /\ Running'
    BY <1>1, <1>4, <2>4, <2>6 DEF Running
  <2>8. /\ Depth(x) /\ HistAt(hist, x) /\ ReadIs(reading, x)
        /\ reading.busy \/ missed \/ MarkIs(mark, x)
        /\ \A v \in Watching : Sent(shown[v], x)
        /\ x.pending \subseteq Charted(x)
    BY <1>2, <2>2, <2>4, <2>7, HeadRises DEF SentInv
  <2>9. /\ Depth(ix') /\ HistAt(hist', ix') /\ ReadIs(reading', ix')
        /\ reading'.busy \/ missed' \/ MarkIs(mark', ix')
        /\ \A v \in Watching' : Sent(shown'[v], ix')
        /\ ix'.pending \subseteq Charted(ix')
    BY <1>1, <2>5, <2>6, <2>8, AlikeKeeps
  <2>. QED BY <1>1, <2>6, <2>7, <2>9 DEF SentInv
<1>. QED BY <1>3, <1>4

LEMMA SentScan ==
  ASSUME TypeOK, SentInv, ScanAnswers
  PROVE  SentInv'
<1>1. /\ UNCHANGED <<up, hist, shown, reading, mark, missed>> /\ tip' = tip
      /\ Watching' = Watching /\ up /\ live.pc = "scan" /\ tip >= 1
  BY DEF ScanAnswers, world, seats, marks, Watching, tip, SentInv
<1>2. Running
  BY <1>1 DEF SentInv
<1>3. /\ ix \in IxType /\ live.found \in SUBSET Blocks /\ live.to \in 0..MaxBlock
      /\ live.target \in 0..MaxBlock /\ ix.lastHead \in 0..MaxBlock
  BY TypeParts DEF LiveType, IxType
<1>4. /\ live.to <= live.target /\ live.target <= ix.lastHead
      /\ \A b \in live.found : b <= ix.lastHead
  <2>1. /\ live.to <= live.target /\ live.target <= ix.lastHead
        /\ \A b \in live.found : b <= live.to /\ b \in Nat
    BY <1>1, <1>2, <1>3 DEF SentInv, PollAt, Blocks
  <2>. QED BY <1>3, <2>1
<1>5. PICK got : got = Ingest(ix, live.found, TRUE)
  OBVIOUS
<1>6. got \in IxType /\ Same(got, ix) /\ Adds(got, ix, live.found)
  <2>1. TRUE \in BOOLEAN
    OBVIOUS
  <2>. QED BY <1>3, <1>5, <2>1, IngestType, Zenon
<1>7. /\ got.lastHead = ix.lastHead /\ got.history = ix.history
      /\ got.pending = ix.pending \cup live.found
  BY <1>3, <1>5 DEF Ingest, IxType
<1>8. PICK x : x = [got EXCEPT !.cursor = live.to]
  OBVIOUS
<1>9. x \in IxType /\ Alike(x, got) /\ x.cursor = live.to
  <2>1. PICK n \in -1..MaxBlock : n = live.to
    BY <1>3, Numbers
  <2>2. x = [got EXCEPT !.cursor = n]
    BY <1>8, <2>1
  <2>. QED BY <1>6, <2>1, <2>2 DEF IxType, Alike
<1>10. /\ Depth(got) /\ HistAt(hist, got) /\ ReadIs(reading, got)
       /\ reading.busy \/ missed \/ MarkIs(mark, got)
       /\ \A v \in Watching : Sent(shown[v], got)
       /\ got.pending \subseteq Charted(got)
  BY <1>2, <1>3, <1>4, <1>6, <1>7, PollAdds DEF SentInv, Same
<1>11. Poll(x, live.target) /\ x.cursor # None /\ live.target <= x.lastHead
  <2>1. Poll([Ingest(ix, live.found, TRUE) EXCEPT !.cursor = live.to], live.target)
    BY DEF ScanAnswers
  <2>2. x.cursor # None
    BY <1>3, <1>9, Numbers DEF None
  <2>3. live.target <= x.lastHead
    BY <1>4, <1>7, <1>9 DEF Alike
  <2>. QED BY <1>5, <1>8, <2>1, <2>2, <2>3, Zenon
<1>12. Alike(ix', x) /\ ix'.cursor = x.cursor /\ PollAt(live', ix')
  BY <1>3, <1>9, <1>11, PollAlike
<1>13. Alike(ix', got) /\ Running'
  BY <1>1, <1>9, <1>11, <1>12 DEF Alike, Running
<1>14. /\ Depth(ix') /\ HistAt(hist', ix') /\ ReadIs(reading', ix')
       /\ reading'.busy \/ missed' \/ MarkIs(mark', ix')
       /\ \A v \in Watching' : Sent(shown'[v], ix')
       /\ ix'.pending \subseteq Charted(ix')
  BY <1>1, <1>10, <1>13, AlikeKeeps
<1>. QED BY <1>1, <1>12, <1>13, <1>14 DEF SentInv

LEMMA SentHistAnswers ==
  ASSUME TypeOK, SentInv, HistAnswers
  PROVE  SentInv'
<1>1. /\ UNCHANGED <<up, live>> /\ tip' = tip /\ Watching' = Watching /\ viewer' = viewer
      /\ up /\ hist.pc = "scan" /\ tip >= 1
  BY DEF HistAnswers, world, seats, Watching, tip, SentInv
<1>2. Running
  BY <1>1 DEF SentInv
<1>3. /\ ix \in IxType /\ hist \in HistType /\ hist.found \in SUBSET Blocks
      /\ hist.from \in 0..(MaxBlock + 1) /\ ix' \in IxType /\ reading \in ReadType
  BY TypeParts, HistAnswersDoes, Numbers DEF HistType
<1>4. /\ ix'.venue = ix.venue /\ ix'.low = hist.from /\ ix'.first = ix.first
      /\ ix'.cursor = ix.cursor /\ Adds(ix', ix, hist.found)
      /\ hist'.pc = IF hist.from > DayFloor(ix) THEN "timer" ELSE "done"
  BY HistAnswersDoes
<1>5. /\ ix'.lastHead = ix.lastHead /\ ix'.pending = ix.pending
      /\ ix'.history = HistoryAt(ix, hist.from)
  <2>1. PICK n \in 0..2 : n = HistoryAt(ix, hist.from)
    BY <1>3 DEF HistoryAt, IxType
  <2>2. PICK got : got = Ingest(ix, hist.found, FALSE)
    OBVIOUS
  <2>3. got \in IxType /\ got.lastHead = ix.lastHead /\ got.pending = ix.pending
    <3>1. FALSE \in BOOLEAN
      OBVIOUS
    <3>2. got \in IxType
      BY <1>3, <2>2, <3>1, IngestType, Zenon
    <3>3. got.lastHead = ix.lastHead /\ got.pending = ix.pending
      BY <1>3, <2>2 DEF Ingest, IxType
    <3>. QED BY <3>2, <3>3
  <2>4. ix' = [[got EXCEPT !.low = hist.from] EXCEPT !.history = n]
    BY <2>1, <2>2 DEF HistAnswers
  <2>. QED BY <2>1, <2>3, <2>4 DEF IxType
<1>6. /\ Depth(ix')
      /\ PollAt(live, ix) => PollAt(live, ix')
      /\ ReadIs(reading, ix) => ReadIs(reading, ix')
      /\ MarkIs(mark, ix) => MarkIs(mark, ix')
      /\ ix'.pending \subseteq Charted(ix')
      /\ ~(ix'.history > ix.history) => \A s : Sent(s, ix) => Sent(s, ix')
      /\ Sent(Charted(ix'), ix')
  <2>1. Depth(ix) /\ HistAt(hist, ix) /\ ix.pending \subseteq Charted(ix)
    BY <1>2 DEF SentInv
  <2>. QED BY <1>1, <1>3, <1>4, <1>5, <2>1, HistoryAdds
<1>7. PollAt(live', ix')
  BY <1>1, <1>2, <1>6 DEF SentInv
<1>8. HistAt(hist', ix')
  <2>1. DayFloor(ix') = DayFloor(ix) /\ hist'.pc # "scan"
    BY <1>4 DEF DayFloor, Max2
  <2>. QED BY <1>4, <2>1 DEF HistAt
<1>9. ReadIs(reading', ix') /\ (reading'.busy \/ missed' \/ MarkIs(mark', ix'))
  <2>1. CASE RequestMark(ix.venue, ix.lastHead)
    <3>1. Covers(ix.lastHead, ix')
      BY <1>5, <1>6 DEF Covers, Depth
    <3>2. reading'.busy /\ ReadIs(reading', ix')
      BY <1>3, <1>4, <2>1, <3>1, MarkIsAsked
    <3>. QED BY <3>2
  <2>2. CASE UNCHANGED marks
    BY <1>6, <2>2 DEF marks, SentInv
  <2>. QED BY <2>1, <2>2 DEF HistAnswers
<1>10. \A v \in Watching' : Sent(shown'[v], ix')
  <2>. SUFFICES ASSUME NEW v \in Watching' PROVE Sent(shown'[v], ix')
    OBVIOUS
  <2>1. v \in Viewers /\ viewer[v] = "open" /\ Sent(shown[v], ix)
    BY <1>1 DEF Watching, SentInv
  <2>2. shown'[v] = IF ix'.history > ix.history THEN Charted(ix') ELSE shown[v]
    BY <2>1 DEF HistAnswers
  <2>. QED BY <1>6, <2>1, <2>2
<1>11. Running'
  BY <1>1, <1>2, <1>4 DEF Running
<1>. QED BY <1>1, <1>6, <1>7, <1>8, <1>9, <1>10, <1>11 DEF SentInv

\* Another source, the rest as it was.
LEMMA SourceChanges ==
  ASSUME NEW x, NEW y, y.low = x.low, y.first = x.first, y.lastHead = x.lastHead,
         y.history = x.history, y.times = x.times, y.pending = x.pending, Depth(x)
  PROVE  /\ Depth(y) /\ Covers(x.lastHead, y) /\ Charted(y) = Charted(x)
         /\ \A h : HistAt(h, x) => HistAt(h, y)
         /\ \A s : Sent(s, x) => Sent(s, y)
<1>1. /\ Charted(y) = Charted(x) /\ HourFloor(x) = HourFloor(y) /\ DayFloor(x) = DayFloor(y)
  BY DEF Charted, HourFloor, DayFloor, Max2
<1>2. Depth(y)
  BY <1>1 DEF Depth
<1>3. Covers(x.lastHead, y)
  BY <1>1 DEF Covers, Depth
<1>4. \A h : HistAt(h, x) => HistAt(h, y)
  BY <1>1 DEF HistAt
<1>5. \A b : Withheld(b, x) => Withheld(b, y)
  BY <1>1 DEF Withheld
<1>6. \A s : Sent(s, x) => Sent(s, y)
  BY <1>1, <1>5 DEF Sent
<1>. QED BY <1>1, <1>2, <1>3, <1>4, <1>6

LEMMA SentPhase ==
  ASSUME TypeOK, SentInv, PhaseAnswers
  PROVE  SentInv'
<1>1. /\ UNCHANGED <<up, hist, shown>> /\ tip' = tip
      /\ Watching' = Watching /\ up /\ live.pc = "phase" /\ tip >= 1
  BY DEF PhaseAnswers, world, seats, Watching, tip, SentInv
<1>2. Running /\ Depth(ix) /\ HistAt(hist, ix) /\ ix.cursor # None
  BY <1>1 DEF SentInv, Running
<1>3. ix \in IxType /\ phase \in 0..2 /\ ix.cursor \in 0..MaxBlock /\ reading \in ReadType
  BY <1>2, TypeParts DEF IxType, None
<1>4. CASE phase = 0
  <2>1. PICK x : x = [ix EXCEPT !.confirmed = ix.cursor]
    OBVIOUS
  <2>2. x \in IxType /\ Alike(x, ix) /\ x.cursor = ix.cursor
    BY <1>3, <2>1 DEF IxType, Alike
  <2>3. EndTick(x) /\ UNCHANGED marks
    BY <1>4, <2>1 DEF PhaseAnswers
  <2>4. Alike(ix', x) /\ ix'.cursor = x.cursor /\ live' = Idle
    BY <2>2, <2>3, EndTickAlike
  <2>5. Alike(ix', ix) /\ ix'.cursor = ix.cursor
    BY <2>2, <2>4 DEF Alike
  <2>6. PollAt(live', ix)
    BY <2>4 DEF PollAt, Idle
  <2>. QED BY <1>1, <1>2, <2>3, <2>5, <2>6, SentSame DEF marks
<1>5. CASE phase = 1
  <2>1. EndTick(ix) /\ UNCHANGED marks
    BY <1>5 DEF PhaseAnswers
  <2>2. Alike(ix', ix) /\ ix'.cursor = ix.cursor /\ live' = Idle
    BY <1>3, <2>1, EndTickAlike
  <2>3. PollAt(live', ix)
    BY <2>2 DEF PollAt, Idle
  <2>. QED BY <1>1, <1>2, <2>1, <2>2, <2>3, SentSame DEF marks
<1>6. CASE phase = 2
  <2>1. PICK back : back = Rewound(ix)
    OBVIOUS
  <2>2. PICK x : x = [ix EXCEPT !.venue = "pool", !.cursor = back, !.confirmed = ix.cursor]
    OBVIOUS
  <2>3. back \in 0..MaxBlock /\ back \in -1..MaxBlock /\ "pool" \in Venues
    <3>1. ix.confirmed \in 0..MaxBlock
      BY <1>3 DEF IxType
    <3>. QED BY <1>3, <2>1, <3>1, Numbers DEF Rewound, Min2, Max2, Venues
  <2>4. /\ x \in IxType /\ x.venue = "pool" /\ x.cursor = back /\ x.low = ix.low
        /\ x.first = ix.first /\ x.lastHead = ix.lastHead /\ x.history = ix.history
        /\ x.times = ix.times /\ x.pending = ix.pending
    BY <1>3, <2>2, <2>3 DEF IxType
  <2>5. EndTick(x) /\ RequestMark(x.venue, ix.lastHead)
    BY <1>6, <2>1, <2>2, <2>4 DEF PhaseAnswers
  <2>6. Alike(ix', x) /\ ix'.cursor = back /\ live' = Idle
    BY <2>4, <2>5, EndTickAlike
  <2>7. /\ ix'.low = ix.low /\ ix'.first = ix.first /\ ix'.lastHead = ix.lastHead
        /\ ix'.history = ix.history /\ ix'.times = ix.times /\ ix'.pending = ix.pending
        /\ ix'.venue = x.venue
    BY <2>4, <2>6 DEF Alike
  <2>8. /\ Depth(ix') /\ Covers(ix.lastHead, ix') /\ Charted(ix') = Charted(ix)
        /\ HistAt(hist, ix) => HistAt(hist, ix')
        /\ \A s : Sent(s, ix) => Sent(s, ix')
    BY <1>2, <2>7, SourceChanges
  <2>9. reading'.busy /\ ReadIs(reading', ix')
    BY <1>3, <2>5, <2>7, <2>8, MarkIsAsked
  <2>10. PollAt(live', ix') /\ Running'
    BY <1>1, <2>3, <2>6, Numbers DEF PollAt, Idle, Running, None
  <2>. QED BY <1>1, <1>2, <2>7, <2>8, <2>9, <2>10 DEF SentInv
<1>. QED BY <1>3, <1>4, <1>5, <1>6

LEMMA SentFlush ==
  ASSUME TypeOK, SentInv, Flush
  PROVE  SentInv'
<1>1. /\ UNCHANGED <<up, hist, live>> /\ tip' = tip /\ viewer' = viewer
      /\ Watching' = Watching /\ up /\ tip >= 1 /\ ix.pending \subseteq Charted(ix)
  BY DEF Flush, world, seats, Watching, tip, SentInv
<1>2. ix \in IxType /\ reading \in ReadType
  BY TypeParts
<1>3. /\ ix'.low = ix.low /\ ix'.first = ix.first /\ ix'.lastHead = ix.lastHead
      /\ ix'.history = ix.history /\ ix'.times = ix.times /\ ix'.pending = {}
      /\ ix'.venue = ix.venue /\ ix'.cursor = ix.cursor
  BY <1>2 DEF Flush, IxType
<1>4. CASE ix.pending = {}
  <2>1. Alike(ix', ix) /\ UNCHANGED <<shown, reading, mark, missed>>
    BY <1>3, <1>4 DEF Alike, Flush, marks
  <2>2. Running => HistAt(hist', ix) /\ PollAt(live', ix)
    BY <1>1 DEF SentInv
  <2>3. ~Running => hist'.pc = "none" /\ live'.pc = "timer"
    BY <1>1 DEF SentInv
  <2>. QED BY <1>1, <1>3, <2>1, <2>2, <2>3, SentSame
<1>5. CASE ix.pending # {}
  <2>1. Running
    BY <1>1, <1>5 DEF SentInv, Blank
  <2>2. /\ Depth(ix') /\ Covers(ix.lastHead, ix')
        /\ \A h : HistAt(h, ix) => HistAt(h, ix')
        /\ \A l : PollAt(l, ix) => PollAt(l, ix')
        /\ \A s : Sent(s, ix) => Sent(s \cup ix.pending, ix')
    <3>1. Depth(ix)
      BY <2>1 DEF SentInv
    <3>. QED BY <1>1, <1>3, <3>1, FlushSends
  <2>3. HistAt(hist', ix') /\ PollAt(live', ix') /\ Running'
    BY <1>1, <1>3, <2>1, <2>2 DEF SentInv, Running
  <2>4. reading'.busy /\ ReadIs(reading', ix')
    <3>1. RequestMark(ix'.venue, ix.lastHead)
      BY <1>3, <1>5 DEF Flush
    <3>. QED BY <1>2, <2>2, <3>1, MarkIsAsked
  <2>5. \A v \in Watching' : Sent(shown'[v], ix')
    <3>. SUFFICES ASSUME NEW v \in Watching' PROVE Sent(shown'[v], ix')
      OBVIOUS
    <3>1. v \in Viewers /\ viewer[v] = "open" /\ Sent(shown[v], ix)
      BY <1>1 DEF Watching, SentInv
    <3>2. shown'[v] = shown[v] \cup ix.pending
      BY <1>5, <3>1 DEF Flush
    <3>. QED BY <2>2, <3>1, <3>2
  <2>6. ix'.pending \subseteq Charted(ix')
    BY <1>3
  <2>. QED BY <1>1, <2>2, <2>3, <2>4, <2>5, <2>6 DEF SentInv
<1>. QED BY <1>4, <1>5

LEMMA SentMarks ==
  ASSUME TypeOK, SentInv, MarkAnswers \/ MarkFails
  PROVE  SentInv'
<1>1. PICK ok \in BOOLEAN : MarkSettles(ok)
  BY DEF MarkAnswers, MarkFails
<1>2. /\ UNCHANGED <<up, ix, hist, live, shown>> /\ tip' = tip
      /\ Watching' = Watching /\ up /\ reading.busy /\ tip >= 1
  BY <1>1 DEF MarkSettles, world, seats, Watching, tip, SentInv
<1>3. Running' <=> Running
  BY <1>2 DEF Running
<1>5. CASE reading.dirty
  <2>1. reading' = [busy |-> TRUE, dirty |-> FALSE, venue |-> ix.venue, at |-> ix.lastHead]
    BY <1>1, <1>5 DEF MarkSettles
  <2>2. Covers(ix.lastHead, ix)
    BY DEF SentInv, Depth, Covers, Blank
  <2>3. ReadIs(reading', ix') /\ reading'.busy
    BY <1>2, <2>1, <2>2 DEF ReadIs
  <2>. QED BY <1>2, <1>3, <2>3 DEF SentInv
<1>6. CASE ~reading.dirty
  <2>1. reading' = NoRead /\ missed' = ~ok
    BY <1>1, <1>6 DEF MarkSettles
  <2>2. ReadIs(reading', ix')
    BY <2>1 DEF ReadIs, NoRead
  <2>3. reading.venue = ix.venue /\ Covers(reading.at, ix)
    BY <1>2, <1>6 DEF SentInv, ReadIs
  <2>4. missed' \/ MarkIs(mark', ix')
    <3>1. CASE ok
      <4>1. mark' = [venue |-> ix.venue, at |-> reading.at]
        BY <1>1, <2>3, <3>1 DEF MarkSettles
      <4>. QED BY <1>2, <2>3, <4>1 DEF MarkIs
    <3>2. CASE ~ok
      BY <2>1, <3>2
    <3>. QED BY <3>1, <3>2
  <2>. QED BY <1>2, <1>3, <2>2, <2>4 DEF SentInv
<1>. QED BY <1>5, <1>6

LEMMA SentVisits ==
  ASSUME TypeOK, SentInv, Counted, Visits \/ Stop
  PROVE  SentInv'
<1>0. tip' = tip /\ tip >= 1 /\ refs \in Nat
  BY DEF Visits, Ask, Refused, Open, Leave, Stop, world, tip, SentInv, TypeOK
<1>1. ASSUME NEW v \in Viewers, Ask(v) \/ Refused(v) \/ Leave(v) PROVE SentInv'
  <2>1. UNCHANGED <<up, ix, live, hist, reading, mark, missed>>
    BY <1>1 DEF Ask, Refused, Leave, marks
  <2>2. \A w \in Watching' : w \in Watching /\ shown'[w] = shown[w]
    BY <1>1 DEF Ask, Refused, Leave, Watching, TypeOK
  <2>. QED BY <1>0, <2>1, <2>2 DEF SentInv, Running
<1>2. ASSUME NEW v \in Viewers, Open(v), up PROVE SentInv'
  <2>1. UNCHANGED <<up, ix, live, hist, reading, mark, missed>>
    BY <1>2 DEF Open, acquire, marks
  <2>2. \A w \in Watching' : \/ w \in Watching /\ shown'[w] = shown[w]
                            \/ shown'[w] = Charted(ix)
    BY <1>2 DEF Open, Watching, TypeOK
  <2>3. Sent(Charted(ix), ix)
    BY DEF Sent
  <2>. QED BY <1>0, <2>1, <2>2, <2>3 DEF SentInv, Running
<1>3. ASSUME NEW v \in Viewers, Open(v), ~up PROVE SentInv'
  <2>1. UNCHANGED <<hist, reading, mark, missed>> /\ up' /\ live' = Idle
        /\ \E venue : ix' = Fresh(venue)
    BY <1>3 DEF Open, acquire, marks
  <2>2. hist.pc = "none" /\ reading = NoRead /\ mark = NoMark /\ Charted(ix) = {}
    BY <1>3 DEF SentInv, Running, Blank
  <2>3. /\ Blank(ix') /\ ix'.pending = {} /\ Charted(ix') = {} /\ ~Running'
    BY <2>1 DEF Fresh, Blank, Charted, Running
  <2>4. live'.pc = "timer"
    BY <2>1 DEF Idle
  <2>5. ReadIs(reading', ix') /\ MarkIs(mark', ix')
    BY <2>1, <2>2, <2>3 DEF ReadIs, MarkIs, NoRead, Covers
  <2>6. Watching = {}
    <3>1. IsFiniteSet(Watching) /\ Cardinality(Watching) = 0
      BY <1>0, <1>3 DEF Counted
    <3>. QED BY <3>1, FS_EmptySet
  <2>7. \A w \in Watching' : shown'[w] = {}
    BY <1>3, <2>2, <2>6 DEF Open, Watching, TypeOK
  <2>8. \A w \in Watching' : Sent(shown'[w], ix')
    BY <2>3, <2>7 DEF Sent
  <2>. QED BY <1>0, <2>1, <2>2, <2>3, <2>4, <2>5, <2>8 DEF SentInv
<1>4. ASSUME Stop PROVE SentInv'
  <2>1. /\ ~up' /\ ix' = Fresh("curve") /\ live' = Idle /\ hist' = Asleep /\ refs = 0
        /\ reading' = NoRead /\ mark' = NoMark /\ viewer' = viewer
    BY <1>4 DEF Stop
  <2>2. /\ Blank(ix') /\ ix'.pending = {} /\ Charted(ix') = {} /\ ~Running'
    BY <2>1 DEF Fresh, Blank, Charted, Running
  <2>3. live'.pc = "timer" /\ hist'.pc = "none"
    BY <2>1 DEF Idle, Asleep
  <2>4. ReadIs(reading', ix') /\ MarkIs(mark', ix')
    BY <2>1, <2>2 DEF ReadIs, MarkIs, NoRead, Covers
  <2>5. Watching' = {}
    <3>1. IsFiniteSet(Watching) /\ Cardinality(Watching) = 0 /\ Watching' = Watching
      BY <2>1 DEF Counted, Watching
    <3>. QED BY <3>1, FS_EmptySet
  <2>. QED BY <1>0, <2>1, <2>2, <2>3, <2>4, <2>5 DEF SentInv
<1>. QED BY <1>1, <1>2, <1>3, <1>4 DEF Visits

LEMMA SentNext == TypeOK /\ TypeOK' /\ Counted /\ SentInv /\ [Next]_vars => SentInv'
<1> SUFFICES ASSUME TypeOK, TypeOK', Counted, SentInv, [Next]_vars PROVE SentInv'
  OBVIOUS
<1>1. CASE UNCHANGED vars
  <2>1. /\ UNCHANGED <<up, ix, hist, live, shown, reading, mark, missed>> /\ tip' = tip
        /\ Watching' = Watching
    BY <1>1 DEF vars, tip, Watching
  <2>2. Alike(ix', ix) /\ tip' >= 1
    BY <2>1 DEF Alike, SentInv
  <2>3. Running => HistAt(hist', ix) /\ PollAt(live', ix)
    BY <2>1 DEF SentInv
  <2>4. ~Running => hist'.pc = "none" /\ live'.pc = "timer"
    BY <2>1 DEF SentInv
  <2>. QED BY <2>1, <2>2, <2>3, <2>4, SentSame
<1>2. CASE Loops
  BY <1>2, SentHistTick, SentHistAnswers, SentTick, SentScan, SentPhase, SentFlush DEF Loops
<1>3. CASE MarkAnswers \/ MarkFails \/ HistFails \/ LiveFails \/ PhaseFails
  BY <1>3, SentMarks, SentHistTick, SentTickEnds
<1>. QED BY <1>1, <1>2, <1>3, SentChain, SentVisits DEF Next

\* The registry's count is of the streams that are open.
LEMMA CountedNext == TypeOK /\ Counted /\ [Next]_vars => Counted'
<1> SUFFICES ASSUME TypeOK, Counted, [Next]_vars PROVE Counted'
  OBVIOUS
<1>1. CASE UNCHANGED <<up, refs, viewer>>
  BY <1>1 DEF Counted, Watching
<1>2. CASE Stop
  BY <1>2 DEF Stop, Counted, Watching
<1>3. ASSUME NEW v \in Viewers, Ask(v) \/ Refused(v) PROVE Counted'
  <2>1. Watching' = Watching /\ UNCHANGED <<up, refs>>
    BY <1>3 DEF Ask, Refused, Watching, TypeOK
  <2>. QED BY <2>1 DEF Counted
<1>4. ASSUME NEW v \in Viewers, Leave(v) PROVE Counted'
  <2>1. CASE viewer[v] = "open"
    <3>1. Watching' = Watching \ {v} /\ v \in Watching /\ up' = up /\ refs' = Max2(0, refs - 1)
      BY <1>4, <2>1 DEF Leave, Watching, TypeOK
    <3>2. IsFiniteSet(Watching) /\ refs = Cardinality(Watching) /\ refs \in Nat
      BY DEF Counted, TypeOK
    <3>3. refs # 0
      BY <3>1, <3>2, FS_EmptySet
    <3>4. refs' = refs - 1
      BY <3>1, <3>2, <3>3 DEF Max2
    <3>5. IsFiniteSet(Watching') /\ Cardinality(Watching') = Cardinality(Watching) - 1
      BY <3>1, <3>2, FS_RemoveElement
    <3>. QED BY <3>1, <3>2, <3>3, <3>4, <3>5 DEF Counted
  <2>2. CASE viewer[v] # "open"
    <3>1. Watching' = Watching /\ UNCHANGED <<up, refs>>
      BY <1>4, <2>2 DEF Leave, Watching, TypeOK
    <3>. QED BY <3>1 DEF Counted
  <2>. QED BY <2>1, <2>2
<1>5. ASSUME NEW v \in Viewers, Open(v) PROVE Counted'
  <2>0. up'
    BY <1>5 DEF Open, acquire
  <2>1. CASE viewer[v] = "resolving"
    <3>1. Watching' = Watching \cup {v} /\ v \notin Watching /\ refs' = refs + 1
      BY <1>5, <2>1 DEF Open, Watching, TypeOK
    <3>2. IsFiniteSet(Watching') /\ Cardinality(Watching') = Cardinality(Watching) + 1
      BY <3>1, FS_AddElement DEF Counted
    <3>. QED BY <2>0, <3>1, <3>2 DEF Counted
  <2>2. CASE viewer[v] # "resolving"
    <3>1. Watching' = Watching /\ refs' = refs
      BY <1>5, <2>2 DEF Open, Watching, TypeOK
    <3>. QED BY <2>0, <3>1 DEF Counted
  <2>. QED BY <2>1, <2>2
<1>6. CASE Chain
  BY <1>1, <1>6 DEF Chain, Mint, Migrate, seats
<1>7. CASE Loops
  BY <1>1, <1>7 DEF Loops, HistTick, HistAnswers, Tick, ScanAnswers, PhaseAnswers, Flush, seats
<1>8. CASE MarkAnswers \/ MarkFails \/ HistFails \/ LiveFails \/ PhaseFails
  BY <1>1, <1>8 DEF MarkAnswers, MarkFails, MarkSettles, HistFails, LiveFails, PhaseFails, seats
<1>. QED BY <1>1, <1>2, <1>3, <1>4, <1>5, <1>6, <1>7, <1>8 DEF Next, Visits, vars

LEMMA SentInit == Init => Counted /\ SentInv
<1> SUFFICES ASSUME Init PROVE Counted /\ SentInv
  OBVIOUS
<1>1. Watching = {} /\ refs = 0 /\ tip >= 1
  BY Numbers DEF Init, Watching, tip
<1>2. Counted
  BY <1>1, FS_EmptySet DEF Counted
<1>3. /\ Charted(ix) = {} /\ ix.history = 0 /\ ix.pending = {} /\ hist.pc = "none"
      /\ live.pc = "timer" /\ reading = NoRead /\ mark = NoMark /\ ~up
  BY DEF Init, Fresh, Charted, Asleep, Idle
<1>4. ReadIs(reading, ix) /\ MarkIs(mark, ix)
  BY <1>3 DEF ReadIs, MarkIs, NoRead, Covers
<1>. QED BY <1>1, <1>2, <1>3, <1>4 DEF SentInv, Running, Blank

LEMMA ViewersAreUpToDateHolds == TypeOK /\ Counted /\ SentInv => ViewersAreUpToDate
<1> SUFFICES ASSUME TypeOK, Counted, SentInv, NEW v \in Viewers, viewer[v] = "open"
             PROVE  /\ up
                    /\ \A b \in Charted(ix) \ shown[v] :
                         \/ b \in ix.pending
                         \/ /\ b <= ix.first
                            /\ IF b < HourFloor(ix) THEN ix.history < 2 ELSE ix.history < 1
                    /\ reading.busy \/ missed
                         \/ /\ mark # NoMark => mark.venue = ix.venue
                            /\ \A b \in shown[v] : b > ix.first => b \in ix.pending \/ mark.at >= b
  BY DEF ViewersAreUpToDate
<1>1. v \in Watching /\ Sent(shown[v], ix)
  BY DEF Watching, SentInv
<1>2. up
  <2>1. IsFiniteSet(Watching) /\ Cardinality(Watching) # 0
    BY <1>1, FS_EmptySet DEF Counted
  <2>. QED BY <2>1 DEF Counted, TypeOK
<1>3. \A b \in Charted(ix) \ shown[v] : b \in ix.pending \/ Withheld(b, ix)
  BY <1>1 DEF Sent
<1>4. MarkIs(mark, ix) =>
        /\ mark # NoMark => mark.venue = ix.venue
        /\ \A b \in shown[v] : b > ix.first => b \in ix.pending \/ mark.at >= b
  <2>1. shown[v] \subseteq Charted(ix) /\ Charted(ix) \subseteq Nat /\ mark.at \in Nat
    BY <1>1, TypeParts, Numbers DEF Sent, Charted, Blocks, MarkType
  <2>. QED BY <2>1 DEF MarkIs, Covers
<1>. QED BY <1>2, <1>3, <1>4 DEF SentInv, Withheld

-----------------------------------------------------------------------------
(* The theorems                                                            *)

LEMMA Invariants == Spec => [](TypeOK /\ ReadInv)
<1>1. Init => TypeOK /\ ReadInv
  BY InitTypes, ReadInvInit
<1>2. TypeOK /\ ReadInv /\ [Next]_vars => (TypeOK /\ ReadInv)'
  BY TypesNext, ReadInvNext DEF ReadInv, Waits
<1>. QED BY <1>1, <1>2, PTL DEF Spec

LEMMA StreamInvariants == Spec => [](TypeOK /\ Counted /\ SentInv)
<1>1. Init => TypeOK /\ Counted /\ SentInv
  BY InitTypes, SentInit
<1>2. SentInv => (Loading => live.pc = "timer")
  BY DEF SentInv, Loading, Running
<1>3. TypeOK /\ Counted /\ SentInv /\ [Next]_vars => (TypeOK /\ Counted /\ SentInv)'
  BY <1>2, TypesNext, CountedNext, SentNext
<1>. QED BY <1>1, <1>3, PTL DEF Spec

\* The indexer, its streams and its loops keep their types.
THEOREM FeedTypes == Spec => []TypeOK
BY StreamInvariants, PTL

\* An open stream hangs on a running indexer (stream.js, acquire and release), and what is
\* charted was sent to it, is in the next batch or belongs to a history that is still to be
\* completed; a mark as new as its trades is there or on its way, unless the last read of
\* one failed (indexer.js, _flush and _requestMark).
THEOREM StreamsAreUpToDate == Spec => []ViewersAreUpToDate
BY StreamInvariants, ViewersAreUpToDateHolds, PTL

\* Between the history's low end and the live poll's cursor no trade is missing, through
\* reads that throw, both loops' windows and the change of source (indexer.js:349-413, 600-603), if
\* no more blocks come before the first head than PHASE_RESCAN_MARGIN.
THEOREM NoBlockIsPassedOver == LoadLag <= Margin => (Spec => []NothingIsSkipped)
<1> SUFFICES ASSUME LoadLag <= Margin PROVE Spec => []NothingIsSkipped
  OBVIOUS
<1>. QED BY Invariants, NothingIsSkippedHolds, PTL

\* A trade that is charted twice was held by both loops at once (indexer.js:452-463, 511),
\* and is of a pool that opened between the reading of the venue and the first head; the
\* check against what is charted drops it after that, and every other each time.
THEOREM DoublesWereReadTogether == Spec => []TwiceOnlyIfReadTogether
<1>1. Init => Shared
  <2>. SUFFICES ASSUME Init PROVE Shared
    OBVIOUS
  <2>1. Holds(live) = {} /\ Holds(hist) = {} /\ both = {} /\ \A b \in Blocks : ix.times[b] = 0
    BY DEF Init, Holds, Fresh, Idle, Asleep
  <2>. QED BY <2>1 DEF Shared
<1>2. TypeOK /\ ReadInv /\ Shared /\ [Next]_vars => Shared'
  BY SharedNext
<1>3. TypeOK /\ Shared => TwiceOnlyIfReadTogether
  <2>. SUFFICES ASSUME TypeOK, Shared, NEW b \in Blocks, ix.times[b] > 1
                PROVE  ix.times[b] = 2 /\ b \in both /\ blocks[b] = "pool" /\ b \in (loadedAt + 1)..ix.first
    BY DEF TwiceOnlyIfReadTogether
  <2>1. ix.times[b] = 2 /\ b \in both /\ Between(b)
    <3>1. ix.times[b] \in Nat
      BY Facts DEF IxType
    <3>. QED BY <3>1 DEF Shared
  <2>2. b \in Int /\ loadedAt \in Int /\ ix.first \in Int
    BY Facts, Numbers DEF Blocks
  <2>. QED BY <2>1, <2>2 DEF Between
<1>. QED BY <1>1, <1>2, <1>3, Invariants, PTL DEF Spec
=============================================================================
