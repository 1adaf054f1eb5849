-------------------------- MODULE MarketStructure --------------------------
(***************************************************************************)
(* The market structure analyzers (quant_platform/market_structure):       *)
(* swings, breaks of structure and changes of character, fair value gaps   *)
(* and order blocks.  Each is recomputed from the whole series whenever a  *)
(* bar closes, in a backtest, a session or the perception of the RL        *)
(* product; what matters is what happens to an answer already given when   *)
(* the series grows.  Indices count from 1, prices are small integers.     *)
(***************************************************************************)
EXTENDS Integers, Sequences, SequencesExt, FiniteSets

CONSTANTS
  Bars,            \* the bars that can close
  Lookback,        \* swing_lookback
  DisplacementPct, \* displacement_pct, in percent
  MaxBars          \* bound on the length of the series

Bar(b) ==
  /\ {b.open, b.high, b.low, b.close} \subseteq Nat \ {0}
  /\ b.low <= b.open /\ b.open <= b.high
  /\ b.low <= b.close /\ b.close <= b.high

ASSUME MarketStructureAssumption ==
  /\ \A b \in Bars : Bar(b)
  /\ {Lookback, DisplacementPct} \subseteq Nat \ {0}
  /\ MaxBars \in Nat

VARIABLE bars

Init == bars = <<>>

CloseBar ==
  /\ Len(bars) < MaxBars
  /\ \E b \in Bars : bars' = Append(bars, b)

Next == CloseBar

Spec == Init /\ [][Next]_bars

-----------------------------------------------------------------------------
(* Swings.                                                                 *)

\* Mutant: a swing is reported one bar late.
InteriorLate(s) == Lookback + 1 .. Len(s) - Lookback - 1

\* Mutant: a swing is reported before the bars to its right have closed.
InteriorSoFar(s) == Lookback + 1 .. Len(s)

\* The bars with a full window.
Interior(s) == Lookback + 1 .. Len(s) - Lookback

\* Mutant: only the bars to the left are compared.
WindowLeft(s, i) == (i - Lookback .. i) \cap DOMAIN s

Window(s, i) == (i - Lookback .. i + Lookback) \cap DOMAIN s

IsHigh(s, i) == i \in Interior(s) /\ \A j \in Window(s, i) : s[j].high <= s[i].high
IsLow(s, i) == i \in Interior(s) /\ \A j \in Window(s, i) : s[j].low >= s[i].low

\* find_swings
Swings(s) ==
  {[index |-> i, kind |-> "high"] : i \in {i \in DOMAIN s : IsHigh(s, i)}}
    \cup {[index |-> i, kind |-> "low"] : i \in {i \in DOMAIN s : IsLow(s, i)}}

-----------------------------------------------------------------------------
(* Breaks of structure (bos) and changes of character (choch).             *)

Event(i, side, swing, trend) ==
  [index |-> i, side |-> side, swing |-> swing,
   kind |-> IF trend \notin {"none", side} THEN "choch" ELSE "bos"]

Broken(events, side, swing) ==
  \E k \in DOMAIN events : events[k].side = side /\ events[k].swing = swing

\* One turn of the loop of detect_bos_choch.  A bar that is a high and a low
\* counts as a low: swing_at_index keeps the last swing of an index.
Scan(s, acc, i) ==
  LET high == IF IsHigh(s, i) /\ ~IsLow(s, i) THEN i ELSE acc.high
      low  == IF IsLow(s, i) THEN i ELSE acc.low
      both == high # 0 /\ low # 0
      up   == /\ both /\ i > high /\ s[i].close > s[high].high
              /\ ~Broken(acc.events, "bullish", high)
      mid  == IF up THEN "bullish" ELSE acc.trend
      down == /\ both /\ i > low /\ s[i].close < s[low].low
              /\ ~Broken(acc.events, "bearish", low)
  IN  [high |-> high, low |-> low,
       trend |-> IF down THEN "bearish" ELSE mid,
       events |->
         acc.events
           \o (IF up THEN <<Event(i, "bullish", high, acc.trend)>> ELSE <<>>)
           \o (IF down THEN <<Event(i, "bearish", low, mid)>> ELSE <<>>)]

\* What the loop holds after each number of bars.
Scans(s) ==
  LET scan[i \in 0 .. Len(s)] ==
        IF i = 0 THEN [high |-> 0, low |-> 0, trend |-> "none", events |-> <<>>]
                 ELSE Scan(s, scan[i - 1], i)
  IN  scan

Events(s) == Scans(s)[Len(s)].events

-----------------------------------------------------------------------------
(* Fair value gaps and order blocks.                                       *)

\* detect_fvg: the third of three bars leaves a gap to the first.
Gaps(s) ==
  {[index |-> i, direction |-> "bullish"] :
     i \in {i \in DOMAIN s : i > 2 /\ s[i].low > s[i - 2].high}}
  \cup
  {[index |-> i, direction |-> "bearish"] :
     i \in {i \in DOMAIN s : i > 2 /\ s[i].high < s[i - 2].low}}

Displaced(s, i, side) ==
  LET change == 100 * (s[i].close - s[i - 1].close)
      needed == DisplacementPct * s[i - 1].close
  IN  IF side = "bullish" THEN change >= needed ELSE change <= -needed

Opposes(b, side) ==
  IF side = "bullish" THEN b.close < b.open ELSE b.close > b.open

\* Mutant: the search begins at the displacement itself, of either direction.
CandidatesFromSelf(s, i, side, blocks) ==
  {c \in 1 .. i : \A k \in DOMAIN blocks : blocks[k].index # c}

\* Mutant: blocks already reported are not remembered.
CandidatesUnseen(s, i, side, blocks) ==
  {c \in 1 .. i - 1 : Opposes(s[c], side)}

\* The bars before i that can be the block of its displacement.
Candidates(s, i, side, blocks) ==
  {c \in 1 .. i - 1 : /\ Opposes(s[c], side)
                      /\ \A k \in DOMAIN blocks : blocks[k].index # c}

\* One turn of the loop of detect_order_blocks.
Displacement(s, blocks, i) ==
  LET found == {d \in {"bullish", "bearish"} :
                  Displaced(s, i, d) /\ Candidates(s, i, d, blocks) # {}}
      side  == CHOOSE d \in found : TRUE
      last  == CHOOSE c \in Candidates(s, i, side, blocks) :
                 \A d \in Candidates(s, i, side, blocks) : d <= c
  IN  IF found = {} THEN blocks
      ELSE Append(blocks, [index |-> last, direction |-> side, displacement |-> i])

\* The blocks found after each number of bars; the loop begins at the second.
Blocks(s) ==
  LET found[i \in 0 .. Len(s)] ==
        IF i < 2 THEN <<>> ELSE Displacement(s, found[i - 1], i)
  IN  found

OrderBlocks(s) == Blocks(s)[Len(s)]

-----------------------------------------------------------------------------
(* Properties.                                                             *)

\* The series is one of the feed, and a report speaks of bars before it.
TypeOK ==
  /\ bars \in Seq(Bars) /\ Len(bars) <= MaxBars
  /\ \A e \in ToSet(Events(bars)) : 0 < e.swing /\ e.swing < e.index
  /\ \A b \in ToSet(OrderBlocks(bars)) : b.index < b.displacement

\* A break is only ever reported of a swing all of whose window had closed
\* before the breaking bar: detect_bos_choch does not check this, it follows
\* from what makes a bar a swing.  Else a strategy would have traded on bars
\* it had not seen.
BreaksAreConfirmed ==
  \A e \in ToSet(Events(bars)) : e.swing + Lookback < e.index

\* A candle is the order block of at most one displacement.
EachCandleOnce ==
  LET blocks == OrderBlocks(bars)
  IN  \A k, l \in DOMAIN blocks :
        k # l => blocks[k].index # blocks[l].index

\* Swings, gaps and order blocks that were reported are never withdrawn.
ReportsStand ==
  [][/\ Swings(bars) \subseteq Swings(bars')
     /\ Gaps(bars) \subseteq Gaps(bars')
     /\ IsPrefix(OrderBlocks(bars), OrderBlocks(bars'))]_bars

\* The events of before the n-th bar, with their places in the report.
Until(s, n) ==
  {<<k, Events(s)[k]>> : k \in {k \in DOMAIN Events(s) : Events(s)[k].index < n}}

\* Events can be withdrawn, added or renamed after the fact (the bar that
\* broke a level may itself become a swing), but only as long as the swings
\* around them can change: an event older than Lookback bars is final.
EventsSettle ==
  [][Until(bars, Len(bars') - Lookback)
       = Until(bars', Len(bars') - Lookback)]_bars
=============================================================================
