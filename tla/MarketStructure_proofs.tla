----------------------- MODULE MarketStructure_proofs -----------------------
(***************************************************************************)
(* Proofs about the market structure analyzers, for series of any length   *)
(* over any bars, any lookback and any displacement: which breaks are      *)
(* reported, which candles are order blocks, and what of a report stands   *)
(* when the next bar closes.                                               *)
(***************************************************************************)
EXTENDS MarketStructure, Iteration_proofs, SequenceTheorems

Sides == {"bullish", "bearish"}

Reported ==
  [index : Nat, side : Sides, swing : Nat, kind : {"bos", "choch"}]

\* What the loop of detect_bos_choch holds.
Held == [high : Nat, low : Nat, trend : Sides \cup {"none"}, events : Seq(Reported)]

Nothing == [high |-> 0, low |-> 0, trend |-> "none", events |-> <<>>]

-----------------------------------------------------------------------------
(* Bars and swings.                                                        *)

\* The prices of a bar of a series are numbers in their order.
LEMMA BarFacts ==
  ASSUME NEW s \in Seq(Bars), NEW i \in 1 .. Len(s)
  PROVE  /\ s[i].open \in Nat \ {0} /\ s[i].high \in Nat \ {0}
         /\ s[i].low \in Nat \ {0} /\ s[i].close \in Nat \ {0}
         /\ s[i].low <= s[i].close /\ s[i].close <= s[i].high
<1>1. s[i] \in Bars
  OBVIOUS
<1>2. Bar(s[i])
  BY <1>1, MarketStructureAssumption
<1>3. QED
  BY <1>2 DEF Bar

\* Whoever closes beyond a high does so after the window of the high: within
\* it no bar is higher.
LEMMA BreaksLate ==
  ASSUME NEW s \in Seq(Bars), NEW i \in 1 .. Len(s), NEW h \in 1 .. Len(s), h < i
  PROVE  /\ IsHigh(s, h) /\ s[i].close > s[h].high => h + Lookback < i
         /\ IsLow(s, h) /\ s[i].close < s[h].low => h + Lookback < i
<1>1. Lookback \in Nat \ {0}
  BY MarketStructureAssumption
<1>2. DOMAIN s = 1 .. Len(s) /\ Len(s) \in Nat
  OBVIOUS
<1>3. ASSUME ~(h + Lookback < i) PROVE i \in Window(s, h)
  BY <1>1, <1>2, <1>3 DEF Window
<1>4. /\ s[i].low \in Nat /\ s[i].high \in Nat /\ s[i].close \in Nat
      /\ s[h].low \in Nat /\ s[h].high \in Nat
      /\ s[i].low <= s[i].close /\ s[i].close <= s[i].high
  BY BarFacts
<1>5. ASSUME IsHigh(s, h), s[i].close > s[h].high, ~(h + Lookback < i) PROVE FALSE
  <2>1. s[i].high <= s[h].high
    BY <1>3, <1>5 DEF IsHigh
  <2>2. QED
    BY <1>4, <1>5, <2>1
<1>6. ASSUME IsLow(s, h), s[i].close < s[h].low, ~(h + Lookback < i) PROVE FALSE
  <2>1. s[i].low >= s[h].low
    BY <1>3, <1>6 DEF IsLow
  <2>2. QED
    BY <1>4, <1>6, <2>1
<1>7. QED
  BY <1>5, <1>6

\* Another bar leaves alone what the series says of the bars before it, and
\* which of them are swings as long as their windows were closed.
LEMMA Grown ==
  ASSUME NEW s \in Seq(Bars), NEW b \in Bars, NEW t, t = Append(s, b)
  PROVE  /\ t \in Seq(Bars) /\ Len(t) = Len(s) + 1 /\ Len(s) \in Nat
         /\ \A j \in 1 .. Len(s) : t[j] = s[j]
         /\ \A i \in 1 .. Len(s) - Lookback :
              (IsHigh(t, i) <=> IsHigh(s, i)) /\ (IsLow(t, i) <=> IsLow(s, i))
<1>1. /\ t \in Seq(Bars) /\ Len(t) = Len(s) + 1 /\ Len(s) \in Nat
      /\ \A j \in 1 .. Len(s) : t[j] = s[j]
  OBVIOUS
<1>2. ASSUME NEW i \in 1 .. Len(s) - Lookback
      PROVE  (IsHigh(t, i) <=> IsHigh(s, i)) /\ (IsLow(t, i) <=> IsLow(s, i))
  <2>1. Lookback \in Nat \ {0} /\ i \in Int
    BY MarketStructureAssumption
  <2>2. DOMAIN s = 1 .. Len(s) /\ DOMAIN t = 1 .. Len(t)
    BY <1>1
  <2>3. i \in Interior(t) <=> i \in Interior(s)
    BY <1>1, <2>1 DEF Interior
  <2>4. Window(t, i) = Window(s, i)
    BY <1>1, <2>1, <2>2 DEF Window
  <2>5. Window(s, i) \subseteq 1 .. Len(s)
    BY <2>2 DEF Window
  <2>6. t[i] = s[i] /\ \A j \in Window(s, i) : t[j] = s[j]
    BY <1>1, <2>1, <2>5
  <2>7. QED
    BY <2>3, <2>4, <2>6 DEF IsHigh, IsLow
<1>3. QED
  BY <1>1, <1>2

-----------------------------------------------------------------------------
(* The loop of detect_bos_choch.                                           *)

\* What is true of what the loop holds after i bars.
Seen(s, i, acc) ==
  /\ acc \in Held
  /\ acc.high = 0 \/ (acc.high \in 1 .. i /\ IsHigh(s, acc.high))
  /\ acc.low = 0 \/ (acc.low \in 1 .. i /\ IsLow(s, acc.low))
  /\ \A k \in DOMAIN acc.events :
       /\ 0 < acc.events[k].swing
       /\ acc.events[k].swing + Lookback < acc.events[k].index
       /\ acc.events[k].index <= i

\* after is before with events of bar i appended.
AddsOnly(i, before, after) ==
  \E more \in Seq(Reported) :
    /\ after = before \o more
    /\ \A k \in DOMAIN more : more[k].index = i

\* One turn: the events of the bar, each of a swing that was confirmed, are
\* appended to those before it.
LEMMA ScanFacts ==
  ASSUME NEW s \in Seq(Bars), NEW i \in 1 .. Len(s), NEW acc, Seen(s, i - 1, acc)
  PROVE  /\ Seen(s, i, Scan(s, acc, i))
         /\ AddsOnly(i, acc.events, Scan(s, acc, i).events)
<1> DEFINE high == IF IsHigh(s, i) /\ ~IsLow(s, i) THEN i ELSE acc.high
           low  == IF IsLow(s, i) THEN i ELSE acc.low
           both == high # 0 /\ low # 0
           up   == /\ both /\ i > high /\ s[i].close > s[high].high
                   /\ ~Broken(acc.events, "bullish", high)
           mid  == IF up THEN "bullish" ELSE acc.trend
           down == /\ both /\ i > low /\ s[i].close < s[low].low
                   /\ ~Broken(acc.events, "bearish", low)
           trend == IF down THEN "bearish" ELSE mid
           rise == IF up THEN <<Event(i, "bullish", high, acc.trend)>> ELSE <<>>
           fall == IF down THEN <<Event(i, "bearish", low, mid)>> ELSE <<>>
<1>1. Scan(s, acc, i) = [high |-> high, low |-> low, trend |-> trend,
                         events |-> acc.events \o rise \o fall]
  BY DEF Scan
<1>2. acc \in Held /\ acc.high \in Nat /\ acc.low \in Nat
      /\ acc.trend \in Sides \cup {"none"} /\ acc.events \in Seq(Reported)
  BY DEF Seen, Held
<1>3. i \in Nat /\ Lookback \in Nat /\ i - 1 \in Nat /\ Len(s) \in Nat
  BY MarketStructureAssumption
<1>4. high = 0 \/ (high \in 1 .. i /\ IsHigh(s, high))
  BY <1>2, <1>3 DEF Seen
<1>5. low = 0 \/ (low \in 1 .. i /\ IsLow(s, low))
  BY <1>2, <1>3 DEF Seen
<1>6. trend \in Sides \cup {"none"} /\ mid \in Sides \cup {"none"}
  BY <1>2 DEF Sides
<1>7. up => high \in 1 .. Len(s) /\ high < i /\ high + Lookback < i
  BY <1>3, <1>4, BreaksLate
<1>8. down => low \in 1 .. Len(s) /\ low < i /\ low + Lookback < i
  BY <1>3, <1>5, BreaksLate
<1> HIDE DEF high, low, mid, trend
<1> DEFINE one == Event(i, "bullish", high, acc.trend)
           other == Event(i, "bearish", low, mid)
<1>9. high \in Nat /\ low \in Nat
  BY <1>3, <1>4, <1>5
<1>10. /\ one \in Reported /\ one.index = i /\ one.swing = high
       /\ other \in Reported /\ other.index = i /\ other.swing = low
  BY <1>3, <1>9 DEF Event, Reported, Sides
<1> HIDE DEF up, down
<1> DEFINE more == rise \o fall
<1>11. /\ more \in Seq(Reported)
       /\ \A k \in DOMAIN more :
            /\ more[k].index = i /\ 0 < more[k].swing /\ more[k].swing + Lookback < i
  <2> HIDE DEF one, other
  <2>1. rise = IF up THEN <<one>> ELSE <<>>
    BY DEF one
  <2>2. fall = IF down THEN <<other>> ELSE <<>>
    BY DEF other
  <2> HIDE DEF rise, fall
  <2>3. CASE up /\ down
    <3>1. more = <<one>> \o <<other>>
      BY <2>1, <2>2, <2>3
    <3>2. <<one>> \in Seq(Reported) /\ <<other>> \in Seq(Reported)
      BY <1>10
    <3> HIDE DEF more
    <3>3. /\ more \in Seq(Reported) /\ Len(more) = Len(<<one>>) + Len(<<other>>)
          /\ \A k \in 1 .. Len(more) :
               more[k] = IF k <= Len(<<one>>) THEN <<one>>[k] ELSE <<other>>[k - Len(<<one>>)]
      BY <3>1, <3>2, ConcatProperties
    <3>4. DOMAIN more = 1 .. 2 /\ more[1] = one /\ more[2] = other
      BY <3>3
    <3>5. QED
      BY <1>7, <1>8, <1>10, <2>3, <3>3, <3>4
  <2>4. CASE up /\ ~down
    <3>1. more = <<one>>
      BY <2>1, <2>2, <2>4
    <3>2. QED
      BY <1>7, <1>10, <2>4, <3>1
  <2>5. CASE ~up /\ down
    <3>1. more = <<other>>
      BY <2>1, <2>2, <2>5
    <3>2. QED
      BY <1>8, <1>10, <2>5, <3>1
  <2>6. CASE ~up /\ ~down
    <3>1. more = <<>>
      BY <2>1, <2>2, <2>6
    <3>2. QED
      BY <3>1
  <2>7. QED
    BY <2>3, <2>4, <2>5, <2>6
<1>12. rise \in Seq(Reported) /\ fall \in Seq(Reported)
  BY <1>10
<1> HIDE DEF rise, fall
<1>13. acc.events \o rise \o fall = acc.events \o more
  <2> DEFINE before == acc.events
  <2>1. before \in Seq(Reported)
    BY <1>2
  <2> HIDE DEF before
  <2>2. (before \o rise) \o fall = before \o (rise \o fall)
    BY <1>12, <2>1, ConcatAssociative
  <2>3. QED
    BY <2>2 DEF before
<1> HIDE DEF more
<1>14. Scan(s, acc, i).events = acc.events \o more
  BY <1>1, <1>13
<1> DEFINE events == acc.events \o more
<1>15. /\ events \in Seq(Reported)
       /\ \A k \in DOMAIN events :
            /\ 0 < events[k].swing
            /\ events[k].swing + Lookback < events[k].index
            /\ events[k].index <= i
  <2>1. /\ events \in Seq(Reported) /\ Len(events) = Len(acc.events) + Len(more)
        /\ \A k \in 1 .. Len(events) :
             events[k] = IF k <= Len(acc.events) THEN acc.events[k]
                                                 ELSE more[k - Len(acc.events)]
    BY <1>2, <1>11, ConcatProperties
  <2>2. DOMAIN acc.events = 1 .. Len(acc.events) /\ Len(acc.events) \in Nat
        /\ DOMAIN more = 1 .. Len(more) /\ Len(more) \in Nat
    BY <1>2, <1>11
  <2> HIDE DEF events
  <2>3. DOMAIN events = 1 .. Len(events)
    BY <2>1
  <2>4. ASSUME NEW k \in DOMAIN events
        PROVE  /\ 0 < events[k].swing
               /\ events[k].swing + Lookback < events[k].index
               /\ events[k].index <= i
    <3>1. CASE k <= Len(acc.events)
      <4>1. k \in DOMAIN acc.events /\ events[k] = acc.events[k]
        BY <2>1, <2>2, <2>3, <2>4, <3>1
      <4>2. acc.events[k] \in Reported
        BY <1>2, <2>2, <4>1
      <4>3. acc.events[k].index \in Nat
        BY <4>2 DEF Reported
      <4>4. QED
        BY <1>3, <4>1, <4>3 DEF Seen
    <3>2. CASE ~(k <= Len(acc.events))
      <4>1. k - Len(acc.events) \in DOMAIN more /\ events[k] = more[k - Len(acc.events)]
        <5>1. k \in Nat /\ k <= Len(acc.events) + Len(more) /\ k > Len(acc.events)
              /\ k \in 1 .. Len(events)
          BY <2>1, <2>2, <2>3, <2>4, <3>2
        <5>2. k - Len(acc.events) \in 1 .. Len(more)
          BY <2>2, <5>1
        <5>3. QED
          BY <2>1, <2>2, <3>2, <5>1, <5>2
      <4>2. QED
        BY <1>3, <1>11, <4>1
    <3>3. QED
      BY <3>1, <3>2
  <2>5. QED
    BY <2>1, <2>4
<1> HIDE DEF events
<1>16. Scan(s, acc, i) = [high |-> high, low |-> low, trend |-> trend, events |-> events]
  BY <1>1, <1>13 DEF events
<1>17. Seen(s, i, Scan(s, acc, i))
  BY <1>4, <1>5, <1>6, <1>9, <1>15, <1>16 DEF Seen, Held
<1>18. AddsOnly(i, acc.events, Scan(s, acc, i).events)
  BY <1>11, <1>14 DEF AddsOnly
<1>19. QED
  BY <1>17, <1>18

\* Whatever goes on as the loop does is right about the bars it has seen.
LEMMA ScanLoop ==
  ASSUME NEW s \in Seq(Bars), NEW f, f[0] = Nothing,
         \A i \in 1 .. Len(s) : Seen(s, i - 1, f[i - 1]) => f[i] = Scan(s, f[i - 1], i)
  PROVE  \A i \in 0 .. Len(s) : Seen(s, i, f[i])
<1> DEFINE n == Len(s)
           T == {i \in 0 .. n : Seen(s, i, f[i])}
<1>1. n \in Nat
  OBVIOUS
<1>2. 0 \in T
  <2>1. Seen(s, 0, Nothing)
    BY DEF Seen, Held, Nothing
  <2>2. QED
    BY <1>1, <2>1
<1>3. ASSUME NEW i \in 0 .. n, i < n, i \in T PROVE i + 1 \in T
  <2>1. i + 1 \in 1 .. n /\ (i + 1) - 1 = i /\ Seen(s, i, f[i]) /\ i + 1 \in 0 .. n
    BY <1>1, <1>3
  <2>2. f[i + 1] = Scan(s, f[i], i + 1)
    BY <2>1
  <2> DEFINE j == i + 1
  <2>3. j \in 1 .. Len(s) /\ Seen(s, j - 1, f[i])
    BY <2>1
  <2> HIDE DEF j
  <2>4. Seen(s, j, Scan(s, f[i], j))
    BY <2>3, ScanFacts
  <2>5. QED
    BY <2>1, <2>2, <2>4 DEF j
<1> HIDE DEF T, n
<1>4. \A i \in 0 .. n : i \in T
  BY <1>1, <1>2, <1>3, UpTo
<1>5. QED
  BY <1>4 DEF T, n

\* The recursive function of the model is the loop.
LEMMA ScansDef ==
  ASSUME NEW s \in Seq(Bars)
  PROVE  /\ Scans(s)[0] = Nothing
         /\ \A i \in 1 .. Len(s) : Scans(s)[i] = Scan(s, Scans(s)[i - 1], i)
         /\ \A i \in 0 .. Len(s) : Seen(s, i, Scans(s)[i])
<1> DEFINE n == Len(s)
           Turn(acc, i) == IF Scan(s, acc, i) \in Held THEN Scan(s, acc, i) ELSE Nothing
           step == [x \in (1 .. n) \X Held |-> Turn(x[2], x[1])]
           IsScan(f) == f = [i \in 0 .. n |-> IF i = 0 THEN Nothing ELSE Scan(s, f[i - 1], i)]
<1>1. n \in Nat /\ Nothing \in Held
  BY DEF Nothing, Held
<1>2. step \in [(1 .. n) \X Held -> Held]
  BY <1>1
<1>3. PICK f : LoopsTo(n, f, Held, Nothing, step)
  <2> HIDE DEF n, step
  <2>1. QED
    BY <1>1, <1>2, LoopExists
<1>4. /\ f \in [0 .. n -> Held] /\ f[0] = Nothing
      /\ \A i \in 1 .. n : f[i] = Turn(f[i - 1], i)
  <2>1. /\ f \in [0 .. n -> Held] /\ f[0] = Nothing
        /\ \A i \in 1 .. n : f[i] = step[<<i, f[i - 1]>>]
    BY <1>3 DEF LoopsTo
  <2> HIDE DEF n, Turn
  <2>2. ASSUME NEW i \in 1 .. n PROVE f[i] = Turn(f[i - 1], i)
    <3>1. f[i - 1] \in Held
      BY <1>1, <2>1
    <3>2. <<i, f[i - 1]>> \in (1 .. n) \X Held
      BY <3>1
    <3>3. QED
      BY <2>1, <3>2
  <2> HIDE DEF step
  <2>3. QED
    BY <2>1, <2>2
<1>5. \A i \in 1 .. n : Seen(s, i - 1, f[i - 1]) => f[i] = Scan(s, f[i - 1], i)
  <2> SUFFICES ASSUME NEW i \in 1 .. n, Seen(s, i - 1, f[i - 1])
               PROVE  f[i] = Scan(s, f[i - 1], i)
    OBVIOUS
  <2> DEFINE acc == f[i - 1]
  <2>1. Seen(s, i - 1, acc) /\ i \in 1 .. Len(s)
    OBVIOUS
  <2> HIDE DEF acc
  <2>2. Seen(s, i, Scan(s, acc, i))
    BY <2>1, ScanFacts
  <2>3. Scan(s, acc, i) \in Held
    BY <2>2 DEF Seen
  <2>4. f[i] = Turn(acc, i)
    BY <1>4 DEF acc
  <2>5. QED
    BY <2>3, <2>4 DEF acc
<1> HIDE DEF step, Turn
<1>6. \A i \in 1 .. n : f[i] = Scan(s, f[i - 1], i)
  <2>1. \A i \in 0 .. n : Seen(s, i, f[i])
    BY <1>4, <1>5, ScanLoop
  <2>2. \A i \in 1 .. n : i - 1 \in 0 .. n
    BY <1>1
  <2>3. QED
    BY <1>5, <2>1, <2>2
<1>7. IsScan(f)
  <2> HIDE DEF n
  <2>1. QED
    BY <1>1, <1>4, <1>6
<1>8. Scans(s) = CHOOSE r : IsScan(r)
  BY DEF Scans, Nothing
<1>9. IsScan(Scans(s))
  <2> HIDE DEF IsScan
  <2>1. QED
    BY <1>7, <1>8
<1> DEFINE r == Scans(s)
<1> HIDE DEF r
<1>10. IsScan(r)
  BY <1>9 DEF r
<1>11. r[0] = Nothing /\ \A i \in 1 .. n : r[i] = Scan(s, r[i - 1], i)
  <2> HIDE DEF n
  <2>1. QED
    BY <1>1, <1>10
<1>12. \A i \in 0 .. n : Seen(s, i, r[i])
  BY <1>11, ScanLoop
<1>13. QED
  BY <1>11, <1>12 DEF r

\* What is said of the events is said of the whole loop.
LEMMA EventsFacts ==
  ASSUME NEW s \in Seq(Bars)
  PROVE  /\ Events(s) \in Seq(Reported)
         /\ \A e \in ToSet(Events(s)) :
              0 < e.swing /\ e.swing < e.index /\ e.swing + Lookback < e.index
<1>1. Seen(s, Len(s), Scans(s)[Len(s)])
  <2>1. Len(s) \in 0 .. Len(s)
    OBVIOUS
  <2>2. QED
    BY <2>1, ScansDef
<1>2. Events(s) \in Seq(Reported)
  BY <1>1 DEF Seen, Held, Events
<1> DEFINE events == Events(s)
<1>3. \A k \in DOMAIN events :
        0 < events[k].swing /\ events[k].swing + Lookback < events[k].index
  BY <1>1 DEF Seen, Events
<1>4. events \in Seq(Reported) /\ Lookback \in Nat
  BY <1>2, MarketStructureAssumption
<1> HIDE DEF events
<1>5. ASSUME NEW e \in ToSet(events)
      PROVE  0 < e.swing /\ e.swing < e.index /\ e.swing + Lookback < e.index
  <2>1. PICK k \in DOMAIN events : e = events[k]
    BY <1>5 DEF ToSet
  <2>2. e \in Reported
    BY <1>4, <2>1
  <2>3. e.swing \in Nat /\ e.index \in Nat
    BY <2>2 DEF Reported
  <2>4. QED
    BY <1>3, <1>4, <2>1, <2>3
<1>6. QED
  BY <1>2, <1>5 DEF events

-----------------------------------------------------------------------------
(* The loop of detect_order_blocks.                                        *)

Block == [index : Nat, direction : Sides, displacement : Nat]

\* What is true of the blocks found among the first i bars.
Kept(i, blocks) ==
  /\ blocks \in Seq(Block)
  /\ \A k \in DOMAIN blocks :
       blocks[k].index < blocks[k].displacement /\ blocks[k].displacement <= i
  /\ \A k, l \in DOMAIN blocks : k # l => blocks[k].index # blocks[l].index

\* A set of numbers below a bound that is not empty has a last one.
LEMMA LastNumber ==
  ASSUME NEW n \in Nat, NEW T \in SUBSET (1 .. n), T # {}
  PROVE  \E c \in T : \A d \in T : d <= c
<1> DEFINE U == {n - c : c \in T}
<1>1. U \in SUBSET Nat /\ U # {}
  <2>1. \A c \in T : n - c \in Nat
    OBVIOUS
  <2>2. QED
    BY <2>1
<1> HIDE DEF U
<1>2. PICK m \in U : \A k \in U : m <= k
  BY <1>1, LeastNumber
<1>3. PICK c \in T : m = n - c
  BY <1>2 DEF U
<1>4. ASSUME NEW d \in T PROVE d <= c
  <2>1. n - d \in U /\ d \in Int /\ c \in Int
    BY DEF U
  <2>2. QED
    BY <1>2, <1>3, <2>1
<1>5. QED
  BY <1>4

\* One turn: nothing, or one more block, of a candle before the bar that is
\* no block yet.
LEMMA DisplacementFacts ==
  ASSUME NEW s \in Seq(Bars), NEW i \in 1 .. Len(s), NEW blocks, Kept(i - 1, blocks)
  PROVE  /\ Kept(i, Displacement(s, blocks, i))
         /\ \/ Displacement(s, blocks, i) = blocks
            \/ \E b \in Block : Displacement(s, blocks, i) = Append(blocks, b)
<1> DEFINE found == {d \in {"bullish", "bearish"} :
                       Displaced(s, i, d) /\ Candidates(s, i, d, blocks) # {}}
           side == CHOOSE d \in found : TRUE
           choice == Candidates(s, i, side, blocks)
           last == CHOOSE c \in choice : \A d \in choice : d <= c
           new == [index |-> last, direction |-> side, displacement |-> i]
<1>1. Displacement(s, blocks, i) = IF found = {} THEN blocks ELSE Append(blocks, new)
  BY DEF Displacement
<1>2. i \in Nat /\ i - 1 \in Nat /\ blocks \in Seq(Block)
  BY DEF Kept
<1>3. ASSUME found # {}
      PROVE  /\ side \in Sides /\ last \in 1 .. i - 1
             /\ \A k \in DOMAIN blocks : blocks[k].index # last
  <2>1. side \in found
    <3> HIDE DEF found
    <3>1. QED
      BY <1>3
  <2>2. side \in Sides /\ choice # {}
    BY <2>1 DEF Sides
  <2> HIDE DEF found, side
  <2>3. choice \in SUBSET (1 .. i - 1)
    BY DEF Candidates
  <2>4. \A c \in choice : \A k \in DOMAIN blocks : blocks[k].index # c
    BY DEF Candidates
  <2> HIDE DEF choice
  <2>5. last \in choice
    <3>1. \E c \in choice : \A d \in choice : d <= c
      BY <1>2, <2>2, <2>3, LastNumber
    <3>2. QED
      BY <3>1
  <2> HIDE DEF last
  <2>6. QED
    BY <2>2, <2>3, <2>4, <2>5
<1>4. CASE found = {}
  <2>1. Displacement(s, blocks, i) = blocks
    BY <1>1, <1>4
  <2>2. \A k \in DOMAIN blocks : blocks[k].displacement \in Nat
    <3>1. \A k \in DOMAIN blocks : blocks[k] \in Block
      BY <1>2
    <3>2. QED
      BY <3>1 DEF Block
  <2>3. Kept(i, blocks)
    BY <1>2, <2>2 DEF Kept
  <2>4. QED
    BY <2>1, <2>3
<1>5. CASE found # {}
  <2> DEFINE more == Append(blocks, new)
  <2>1. Displacement(s, blocks, i) = more
    BY <1>1, <1>5
  <2>2. side \in Sides /\ last \in 1 .. i - 1
        /\ \A k \in DOMAIN blocks : blocks[k].index # last
    BY <1>3, <1>5
  <2> HIDE DEF side, last
  <2>3. new \in Block /\ new.index = last /\ new.displacement = i
    BY <1>2, <2>2 DEF Block
  <2> HIDE DEF new
  <2>4. /\ more \in Seq(Block) /\ DOMAIN more = 1 .. Len(blocks) + 1
        /\ \A k \in 1 .. Len(blocks) : more[k] = blocks[k]
        /\ more[Len(blocks) + 1] = new
        /\ DOMAIN blocks = 1 .. Len(blocks) /\ Len(blocks) \in Nat
    BY <1>2, <2>3
  <2> HIDE DEF more
  <2>5. ASSUME NEW k \in DOMAIN more
        PROVE  more[k].index < more[k].displacement /\ more[k].displacement <= i
    <3>1. CASE k = Len(blocks) + 1
      BY <1>2, <2>2, <2>3, <2>4, <3>1
    <3>2. CASE k # Len(blocks) + 1
      <4>1. k \in DOMAIN blocks /\ more[k] = blocks[k]
        BY <2>4, <3>2
      <4>2. blocks[k].displacement \in Nat
        <5>1. blocks[k] \in Block
          BY <1>2, <4>1
        <5>2. QED
          BY <5>1 DEF Block
      <4>3. QED
        BY <1>2, <4>1, <4>2 DEF Kept
    <3>3. QED
      BY <3>1, <3>2
  <2>6. ASSUME NEW k \in DOMAIN more, NEW l \in DOMAIN more, k # l
        PROVE  more[k].index # more[l].index
    <3>1. \A m \in DOMAIN more :
            m = Len(blocks) + 1 \/ (m \in DOMAIN blocks /\ more[m] = blocks[m])
      BY <2>4
    <3>2. QED
      BY <2>2, <2>3, <2>4, <2>6, <3>1 DEF Kept
  <2>7. Kept(i, more)
    BY <2>4, <2>5, <2>6 DEF Kept
  <2>8. QED
    BY <2>1, <2>3, <2>7 DEF more
<1>6. QED
  BY <1>4, <1>5

\* A turn looks at no later bar.
LEMMA SameDisplacement ==
  ASSUME NEW s \in Seq(Bars), NEW t \in Seq(Bars), NEW blocks,
         NEW i \in 2 .. Len(s), \A j \in 1 .. i : t[j] = s[j]
  PROVE  Displacement(t, blocks, i) = Displacement(s, blocks, i)
<1>1. i \in 1 .. i /\ i - 1 \in 1 .. i
  OBVIOUS
<1>2. \A d : Displaced(t, i, d) = Displaced(s, i, d)
  BY <1>1 DEF Displaced
<1>3. \A d : Candidates(t, i, d, blocks) = Candidates(s, i, d, blocks)
  <2>1. \A c \in 1 .. i - 1 : t[c] = s[c]
    OBVIOUS
  <2>2. QED
    BY <2>1 DEF Candidates, Opposes
<1> DEFINE Found(u) == {d \in {"bullish", "bearish"} :
                          Displaced(u, i, d) /\ Candidates(u, i, d, blocks) # {}}
           Side(u) == CHOOSE d \in Found(u) : TRUE
           Of(u, side) == CHOOSE c \in Candidates(u, i, side, blocks) :
                            \A d \in Candidates(u, i, side, blocks) : d <= c
           After(found, side, last) ==
             IF found = {} THEN blocks
             ELSE Append(blocks, [index |-> last, direction |-> side, displacement |-> i])
<1>4. \A u : Displacement(u, blocks, i) = After(Found(u), Side(u), Of(u, Side(u)))
  BY DEF Displacement
<1>5. Found(t) = Found(s)
  BY <1>2, <1>3
<1>6. Side(t) = Side(s)
  <2> HIDE DEF Found
  <2>1. QED
    BY <1>5
<1>7. \A side : Of(t, side) = Of(s, side)
  <2> SUFFICES ASSUME NEW side PROVE Of(t, side) = Of(s, side)
    OBVIOUS
  <2>1. Candidates(t, i, side, blocks) = Candidates(s, i, side, blocks)
    BY <1>3
  <2>2. QED
    BY <2>1
<1> HIDE DEF Found, Side, Of, After
<1>8. QED
  BY <1>4, <1>5, <1>6, <1>7

\* The body of the loop: it begins at the second bar.
BlockTurn(s, blocks, i) == IF i < 2 THEN <<>> ELSE Displacement(s, blocks, i)

LEMMA BlockTurnFacts ==
  ASSUME NEW s \in Seq(Bars), NEW i \in 1 .. Len(s), NEW blocks, Kept(i - 1, blocks)
  PROVE  Kept(i, BlockTurn(s, blocks, i))
<1>1. CASE i < 2
  BY <1>1 DEF BlockTurn, Kept
<1>2. CASE ~(i < 2)
  BY <1>2, DisplacementFacts DEF BlockTurn
<1>3. QED
  BY <1>1, <1>2

\* Whatever goes on as the loop does keeps its blocks in order.
LEMMA BlockLoop ==
  ASSUME NEW s \in Seq(Bars), NEW f, f[0] = <<>>,
         \A i \in 1 .. Len(s) : Kept(i - 1, f[i - 1]) => f[i] = BlockTurn(s, f[i - 1], i)
  PROVE  \A i \in 0 .. Len(s) : Kept(i, f[i])
<1> DEFINE n == Len(s)
           T == {i \in 0 .. n : Kept(i, f[i])}
<1>1. n \in Nat
  OBVIOUS
<1>2. 0 \in T
  <2>1. Kept(0, <<>>)
    BY DEF Kept
  <2>2. QED
    BY <1>1, <2>1
<1>3. ASSUME NEW i \in 0 .. n, i < n, i \in T PROVE i + 1 \in T
  <2>1. i + 1 \in 1 .. n /\ (i + 1) - 1 = i /\ Kept(i, f[i]) /\ i + 1 \in 0 .. n
    BY <1>1, <1>3
  <2>2. f[i + 1] = BlockTurn(s, f[i], i + 1)
    BY <2>1
  <2> DEFINE j == i + 1
  <2>3. j \in 1 .. Len(s) /\ Kept(j - 1, f[i])
    BY <2>1
  <2> HIDE DEF j
  <2>4. Kept(j, BlockTurn(s, f[i], j))
    BY <2>3, BlockTurnFacts
  <2>5. QED
    BY <2>1, <2>2, <2>4 DEF j
<1> HIDE DEF T, n
<1>4. \A i \in 0 .. n : i \in T
  BY <1>1, <1>2, <1>3, UpTo
<1>5. QED
  BY <1>4 DEF T, n

\* The recursive function of the model is the loop.
LEMMA BlocksDef ==
  ASSUME NEW s \in Seq(Bars)
  PROVE  /\ Blocks(s)[0] = <<>>
         /\ \A i \in 1 .. Len(s) : Blocks(s)[i] = BlockTurn(s, Blocks(s)[i - 1], i)
         /\ \A i \in 0 .. Len(s) : Kept(i, Blocks(s)[i])
<1> DEFINE n == Len(s)
           S == Seq(Block)
           Turn(blocks, i) ==
             IF BlockTurn(s, blocks, i) \in S THEN BlockTurn(s, blocks, i) ELSE <<>>
           step == [x \in (1 .. n) \X S |-> Turn(x[2], x[1])]
           IsFound(f) ==
             f = [i \in 0 .. n |-> IF i < 2 THEN <<>> ELSE Displacement(s, f[i - 1], i)]
<1>1. n \in Nat /\ <<>> \in S
  OBVIOUS
<1>2. step \in [(1 .. n) \X S -> S]
  BY <1>1
<1>3. PICK f : LoopsTo(n, f, S, <<>>, step)
  <2> HIDE DEF n, S, step
  <2>1. QED
    BY <1>1, <1>2, LoopExists
<1>4. /\ f \in [0 .. n -> S] /\ f[0] = <<>>
      /\ \A i \in 1 .. n : f[i] = Turn(f[i - 1], i)
  <2>1. /\ f \in [0 .. n -> S] /\ f[0] = <<>>
        /\ \A i \in 1 .. n : f[i] = step[<<i, f[i - 1]>>]
    BY <1>3 DEF LoopsTo
  <2> HIDE DEF n, S, Turn
  <2>2. ASSUME NEW i \in 1 .. n PROVE f[i] = Turn(f[i - 1], i)
    <3>1. f[i - 1] \in S
      BY <1>1, <2>1
    <3>2. <<i, f[i - 1]>> \in (1 .. n) \X S
      BY <3>1
    <3>3. QED
      BY <2>1, <3>2
  <2> HIDE DEF step
  <2>3. QED
    BY <2>1, <2>2
<1>5. \A i \in 1 .. n : Kept(i - 1, f[i - 1]) => f[i] = BlockTurn(s, f[i - 1], i)
  <2> SUFFICES ASSUME NEW i \in 1 .. n, Kept(i - 1, f[i - 1])
               PROVE  f[i] = BlockTurn(s, f[i - 1], i)
    OBVIOUS
  <2> DEFINE blocks == f[i - 1]
  <2>1. Kept(i - 1, blocks) /\ i \in 1 .. Len(s)
    OBVIOUS
  <2> HIDE DEF blocks
  <2>2. Kept(i, BlockTurn(s, blocks, i))
    BY <2>1, BlockTurnFacts
  <2>3. BlockTurn(s, blocks, i) \in S
    BY <2>2 DEF Kept
  <2>4. f[i] = Turn(blocks, i)
    BY <1>4 DEF blocks
  <2>5. QED
    BY <2>3, <2>4 DEF blocks
<1> HIDE DEF step, Turn, S
<1>6. \A i \in 1 .. n : f[i] = BlockTurn(s, f[i - 1], i)
  <2>1. \A i \in 0 .. n : Kept(i, f[i])
    BY <1>4, <1>5, BlockLoop
  <2>2. \A i \in 1 .. n : i - 1 \in 0 .. n
    BY <1>1
  <2>3. QED
    BY <1>5, <2>1, <2>2
<1>7. IsFound(f)
  <2> HIDE DEF n
  <2>1. QED
    BY <1>1, <1>4, <1>6 DEF BlockTurn
<1>8. Blocks(s) = CHOOSE r : IsFound(r)
  BY DEF Blocks
<1>9. IsFound(Blocks(s))
  <2> HIDE DEF IsFound
  <2>1. QED
    BY <1>7, <1>8
<1> DEFINE r == Blocks(s)
<1> HIDE DEF r
<1>10. IsFound(r)
  BY <1>9 DEF r
<1>11. r[0] = <<>> /\ \A i \in 1 .. n : r[i] = BlockTurn(s, r[i - 1], i)
  <2> HIDE DEF n
  <2>1. QED
    BY <1>1, <1>10 DEF BlockTurn
<1>12. \A i \in 0 .. n : Kept(i, r[i])
  BY <1>11, BlockLoop
<1>13. QED
  BY <1>11, <1>12 DEF r

LEMMA OrderBlocksFacts ==
  ASSUME NEW s \in Seq(Bars)
  PROVE  Kept(Len(s), OrderBlocks(s))
<1>1. Len(s) \in 0 .. Len(s)
  OBVIOUS
<1>2. QED
  BY <1>1, BlocksDef DEF OrderBlocks

-----------------------------------------------------------------------------
(* The invariants.                                                         *)

\* The analyzers look at a series of bars.
Fed == bars \in Seq(Bars) /\ Len(bars) <= MaxBars

LEMMA SeriesOfBars == Spec => []Fed
<1>1. Init => Fed
  BY MarketStructureAssumption DEF Init, Fed
<1>2. Fed /\ [Next]_bars => Fed'
  BY MarketStructureAssumption DEF Next, CloseBar, Fed
<1>3. QED
  BY <1>1, <1>2, PTL DEF Spec

\* Whatever bars close, a report speaks of bars before the one that brought
\* it about: a break of its swing, a displacement of its order block.
THEOREM StructureTypeCorrect == Spec => []TypeOK
<1>1. Fed => TypeOK
  <2> SUFFICES ASSUME Fed PROVE TypeOK
    OBVIOUS
  <2> USE DEF Fed
  <2>1. \A e \in ToSet(Events(bars)) : 0 < e.swing /\ e.swing < e.index
    BY EventsFacts
  <2>2. \A b \in ToSet(OrderBlocks(bars)) : b.index < b.displacement
    <3>1. Kept(Len(bars), OrderBlocks(bars))
      BY OrderBlocksFacts
    <3>2. QED
      BY <3>1 DEF Kept, ToSet
  <2>3. QED
    BY <2>1, <2>2 DEF TypeOK
<1>2. QED
  BY <1>1, SeriesOfBars, PTL

\* No break uses a swing that was not confirmed before the breaking bar: the
\* code does not check it, it follows from what makes a bar a swing.
THEOREM BreaksWaitForSwings == Spec => []BreaksAreConfirmed
<1>1. Fed => BreaksAreConfirmed
  BY EventsFacts DEF BreaksAreConfirmed, Fed
<1>2. QED
  BY <1>1, SeriesOfBars, PTL

\* detect_order_blocks gives a candle to one displacement at most.
THEOREM CandlesAreUsedOnce == Spec => []EachCandleOnce
<1>1. Fed => EachCandleOnce
  BY OrderBlocksFacts DEF EachCandleOnce, Kept, Fed
<1>2. QED
  BY <1>1, SeriesOfBars, PTL

-----------------------------------------------------------------------------
(* What stands when the next bar closes.                                   *)

LEMMA SwingsStand ==
  ASSUME NEW s \in Seq(Bars), NEW b \in Bars, NEW t, t = Append(s, b)
  PROVE  Swings(s) \subseteq Swings(t)
<1>1. /\ t \in Seq(Bars) /\ Len(t) = Len(s) + 1 /\ Len(s) \in Nat
      /\ \A i \in 1 .. Len(s) - Lookback :
           (IsHigh(t, i) <=> IsHigh(s, i)) /\ (IsLow(t, i) <=> IsLow(s, i))
  BY Grown
<1>2. DOMAIN s = 1 .. Len(s) /\ DOMAIN t = 1 .. Len(t)
  BY <1>1
<1>3. ASSUME NEW i \in DOMAIN s, IsHigh(s, i) \/ IsLow(s, i)
      PROVE  i \in DOMAIN t /\ (IsHigh(s, i) => IsHigh(t, i)) /\ (IsLow(s, i) => IsLow(t, i))
  <2>1. i \in 1 .. Len(s) - Lookback
    BY <1>2, <1>3, MarketStructureAssumption DEF IsHigh, IsLow, Interior
  <2>2. QED
    BY <1>1, <1>2, <2>1
<1>4. QED
  BY <1>3 DEF Swings

LEMMA GapsStand ==
  ASSUME NEW s \in Seq(Bars), NEW b \in Bars, NEW t, t = Append(s, b)
  PROVE  Gaps(s) \subseteq Gaps(t)
<1>1. /\ t \in Seq(Bars) /\ Len(t) = Len(s) + 1 /\ Len(s) \in Nat
      /\ \A j \in 1 .. Len(s) : t[j] = s[j]
  BY Grown
<1>2. DOMAIN s = 1 .. Len(s) /\ DOMAIN t = 1 .. Len(t)
  BY <1>1
<1>3. \A i \in DOMAIN s : i > 2 => i \in DOMAIN t /\ t[i] = s[i] /\ t[i - 2] = s[i - 2]
  BY <1>1, <1>2
<1>4. QED
  BY <1>3 DEF Gaps

\* The blocks of the first bars are what they were.
LEMMA BlocksAgree ==
  ASSUME NEW s \in Seq(Bars), NEW b \in Bars, NEW t, t = Append(s, b)
  PROVE  \A i \in 0 .. Len(s) : Blocks(t)[i] = Blocks(s)[i]
<1> DEFINE n == Len(s)
           T == {i \in 0 .. n : Blocks(t)[i] = Blocks(s)[i]}
<1>1. /\ t \in Seq(Bars) /\ Len(t) = n + 1 /\ n \in Nat
      /\ \A j \in 1 .. n : t[j] = s[j]
  BY Grown
<1>2. 0 \in T
  <2>1. Blocks(t)[0] = <<>> /\ Blocks(s)[0] = <<>>
    BY <1>1, BlocksDef
  <2>2. QED
    BY <1>1, <2>1
<1>3. ASSUME NEW i \in 0 .. n, i < n, i \in T PROVE i + 1 \in T
  <2> DEFINE j == i + 1
  <2>1. j \in 1 .. n /\ j \in 1 .. Len(t) /\ j \in 0 .. n /\ j - 1 = i
    BY <1>1, <1>3
  <2> HIDE DEF j
  <2>2. Blocks(t)[j] = BlockTurn(t, Blocks(t)[i], j)
    BY <1>1, <2>1, BlocksDef
  <2>3. Blocks(s)[j] = BlockTurn(s, Blocks(s)[i], j)
    BY <2>1, BlocksDef
  <2>4. Blocks(t)[i] = Blocks(s)[i]
    BY <1>3
  <2> DEFINE blocks == Blocks(s)[i]
  <2> HIDE DEF blocks
  <2>5. BlockTurn(t, blocks, j) = BlockTurn(s, blocks, j)
    <3>1. CASE j < 2
      BY <3>1 DEF BlockTurn
    <3>2. CASE ~(j < 2)
      <4>1. j \in 2 .. Len(s) /\ \A k \in 1 .. j : t[k] = s[k]
        BY <1>1, <2>1, <3>2
      <4>2. Displacement(t, blocks, j) = Displacement(s, blocks, j)
        BY <1>1, <4>1, SameDisplacement
      <4>3. QED
        BY <4>2 DEF BlockTurn
    <3>3. QED
      BY <3>1, <3>2
  <2>6. QED
    BY <2>1, <2>2, <2>3, <2>4, <2>5 DEF blocks, j
<1> HIDE DEF T, n
<1>4. \A i \in 0 .. n : i \in T
  BY <1>1, <1>2, <1>3, UpTo
<1>5. QED
  BY <1>4 DEF T, n

LEMMA OrderBlocksStand ==
  ASSUME NEW s \in Seq(Bars), NEW b \in Bars, NEW t, t = Append(s, b)
  PROVE  IsPrefix(OrderBlocks(s), OrderBlocks(t))
<1> DEFINE n == Len(s)
           m == n + 1
           before == OrderBlocks(s)
           after == OrderBlocks(t)
<1>1. t \in Seq(Bars) /\ Len(t) = m /\ n \in Nat
  BY Grown
<1>2. Kept(n, before) /\ before = Blocks(s)[n] /\ Blocks(t)[n] = before
  <2>1. n \in 0 .. n
    BY <1>1
  <2>2. QED
    BY <2>1, OrderBlocksFacts, BlocksAgree DEF OrderBlocks
<1>3. after = BlockTurn(t, before, m)
  <2>1. m \in 1 .. Len(t) /\ m - 1 = n
    BY <1>1
  <2> HIDE DEF m
  <2>2. Blocks(t)[m] = BlockTurn(t, Blocks(t)[m - 1], m)
    BY <1>1, <2>1, BlocksDef
  <2>3. QED
    BY <1>1, <1>2, <2>1, <2>2 DEF OrderBlocks
<1>4. after = before \/ \E x \in Block : after = Append(before, x)
  <2>1. m \in 1 .. Len(t) /\ m - 1 = n
    BY <1>1
  <2>2. CASE m < 2
    <3>1. n = 0
      BY <1>1, <2>2
    <3>2. before = <<>>
      BY <1>2, <3>1, BlocksDef
    <3>3. QED
      BY <1>3, <2>2, <3>2 DEF BlockTurn
  <2>3. CASE ~(m < 2)
    <3>1. after = Displacement(t, before, m)
      BY <1>3, <2>3 DEF BlockTurn
    <3> HIDE DEF m, before, after
    <3>2. QED
      BY <1>1, <1>2, <2>1, <3>1, DisplacementFacts
  <2>4. QED
    BY <2>2, <2>3
<1>5. before \in Seq(Block)
  BY <1>2 DEF Kept
<1> HIDE DEF before, after
<1>6. IsPrefix(before, after)
  <2>1. CASE after = before
    BY <1>5, <2>1 DEF IsPrefix
  <2>2. CASE \E x \in Block : after = Append(before, x)
    <3>1. PICK x \in Block : after = Append(before, x)
      BY <2>2
    <3>2. Len(before) <= Len(after)
      BY <1>5, <3>1
    <3>3. SubSeq(after, 1, Len(before)) = before
      BY <1>5, <3>1
    <3>4. SubSeq(before, 1, Len(before)) = before
      BY <1>5
    <3>5. QED
      BY <3>2, <3>3, <3>4 DEF IsPrefix
  <2>3. QED
    BY <1>4, <2>1, <2>2
<1>7. QED
  BY <1>6 DEF before, after

\* Swings, gaps and order blocks that were reported are never withdrawn.
THEOREM ReportsAlwaysStand == Spec => ReportsStand
<1>1. Fed /\ [Next]_bars
        => [/\ Swings(bars) \subseteq Swings(bars')
            /\ Gaps(bars) \subseteq Gaps(bars')
            /\ IsPrefix(OrderBlocks(bars), OrderBlocks(bars'))]_bars
  <2> SUFFICES ASSUME Fed, Next
               PROVE  /\ Swings(bars) \subseteq Swings(bars')
                      /\ Gaps(bars) \subseteq Gaps(bars')
                      /\ IsPrefix(OrderBlocks(bars), OrderBlocks(bars'))
    OBVIOUS
  <2>1. PICK b \in Bars : bars' = Append(bars, b)
    BY DEF Next, CloseBar
  <2>2. bars \in Seq(Bars)
    BY DEF Fed
  <2>3. QED
    BY <2>1, <2>2, SwingsStand, GapsStand, OrderBlocksStand
<1>2. QED
  BY <1>1, SeriesOfBars, PTL DEF ReportsStand, Spec

\* A turn looks at no later bar, and at no swing but those up to its own.
LEMMA SameScan ==
  ASSUME NEW s \in Seq(Bars), NEW t, NEW i \in 1 .. Len(s), NEW acc, Seen(s, i - 1, acc),
         \A j \in 1 .. i : t[j] = s[j],
         IsHigh(t, i) <=> IsHigh(s, i), IsLow(t, i) <=> IsLow(s, i)
  PROVE  Scan(t, acc, i) = Scan(s, acc, i)
<1> DEFINE high(u) == IF IsHigh(u, i) /\ ~IsLow(u, i) THEN i ELSE acc.high
           low(u)  == IF IsLow(u, i) THEN i ELSE acc.low
           up(u)   == /\ high(u) # 0 /\ low(u) # 0
                      /\ i > high(u) /\ u[i].close > u[high(u)].high
                      /\ ~Broken(acc.events, "bullish", high(u))
           down(u) == /\ high(u) # 0 /\ low(u) # 0
                      /\ i > low(u) /\ u[i].close < u[low(u)].low
                      /\ ~Broken(acc.events, "bearish", low(u))
           After(h, l, rises, falls) ==
             LET mid == IF rises THEN "bullish" ELSE acc.trend
             IN  [high |-> h, low |-> l,
                  trend |-> IF falls THEN "bearish" ELSE mid,
                  events |->
                    acc.events
                      \o (IF rises THEN <<Event(i, "bullish", h, acc.trend)>> ELSE <<>>)
                      \o (IF falls THEN <<Event(i, "bearish", l, mid)>> ELSE <<>>)]
<1>1. \A u : Scan(u, acc, i) = After(high(u), low(u), up(u), down(u))
  BY DEF Scan
<1>2. high(t) = high(s) /\ low(t) = low(s)
  OBVIOUS
<1>3. /\ high(s) = 0 \/ high(s) \in 1 .. i
      /\ low(s) = 0 \/ low(s) \in 1 .. i
  BY DEF Seen
<1>4. t[i] = s[i]
  OBVIOUS
<1> HIDE DEF high, low
<1>5. up(t) <=> up(s)
  BY <1>2, <1>3, <1>4
<1>6. down(t) <=> down(s)
  BY <1>2, <1>3, <1>4
<1> HIDE DEF up, down
<1>7. QED
  <2>1. After(high(t), low(t), up(t), down(t)) = After(high(s), low(s), up(s), down(s))
    BY <1>2, <1>5, <1>6
  <2> HIDE DEF After
  <2>2. QED
    BY <1>1, <2>1

\* The loop comes to the same over the first bars as long as the swings among
\* them are settled.
LEMMA ScansAgree ==
  ASSUME NEW s \in Seq(Bars), NEW b \in Bars, NEW t, t = Append(s, b),
         NEW m \in Nat, m <= Len(s) - Lookback
  PROVE  \A i \in 0 .. m : Scans(t)[i] = Scans(s)[i]
<1> DEFINE T == {i \in 0 .. m : Scans(t)[i] = Scans(s)[i]}
<1>1. /\ t \in Seq(Bars) /\ Len(t) = Len(s) + 1 /\ Len(s) \in Nat
      /\ \A j \in 1 .. Len(s) : t[j] = s[j]
      /\ \A i \in 1 .. Len(s) - Lookback :
           (IsHigh(t, i) <=> IsHigh(s, i)) /\ (IsLow(t, i) <=> IsLow(s, i))
  BY Grown
<1>2. 0 \in T
  <2>1. Scans(t)[0] = Nothing /\ Scans(s)[0] = Nothing
    BY <1>1, ScansDef
  <2>2. QED
    BY <2>1
<1>3. ASSUME NEW i \in 0 .. m, i < m, i \in T PROVE i + 1 \in T
  <2> DEFINE j == i + 1
             acc == Scans(s)[i]
  <2>1. /\ j \in 1 .. Len(s) /\ j \in 1 .. Len(t) /\ j \in 0 .. m /\ j - 1 = i
        /\ j \in 1 .. Len(s) - Lookback /\ i \in 0 .. Len(s) /\ 1 .. j \subseteq 1 .. Len(s)
    BY <1>1, <1>3, MarketStructureAssumption
  <2> HIDE DEF j
  <2>2. Scans(t)[j] = Scan(t, Scans(t)[i], j)
    BY <1>1, <2>1, ScansDef
  <2>3. Scans(s)[j] = Scan(s, acc, j)
    BY <2>1, ScansDef
  <2>4. Scans(t)[i] = acc
    BY <1>3
  <2>5. Seen(s, i, acc)
    BY <2>1, ScansDef
  <2> HIDE DEF acc
  <2>6. \A k \in 1 .. j : t[k] = s[k]
    BY <1>1, <2>1
  <2>7. (IsHigh(t, j) <=> IsHigh(s, j)) /\ (IsLow(t, j) <=> IsLow(s, j))
    BY <1>1, <2>1
  <2>8. Scan(t, acc, j) = Scan(s, acc, j)
    BY <2>1, <2>5, <2>6, <2>7, SameScan
  <2>9. QED
    BY <2>1, <2>2, <2>3, <2>4, <2>8 DEF j
<1> HIDE DEF T
<1>4. \A i \in 0 .. m : i \in T
  BY <1>1, <1>2, <1>3, UpTo
<1>5. QED
  BY <1>4 DEF T

\* later begins with the events of early, and the others are of bars after m.
GoesOn(early, later, m) ==
  /\ early \in Seq(Reported) /\ later \in Seq(Reported)
  /\ Len(early) <= Len(later)
  /\ \A k \in 1 .. Len(early) : later[k] = early[k]
  /\ \A k \in Len(early) + 1 .. Len(later) : later[k].index > m

LEMMA OneMoreBar ==
  ASSUME NEW early, NEW later, NEW m \in Nat, GoesOn(early, later, m),
         NEW i \in Nat, i > m, NEW more \in Seq(Reported),
         \A k \in DOMAIN more : more[k].index = i
  PROVE  GoesOn(early, later \o more, m)
<1>1. /\ early \in Seq(Reported) /\ later \in Seq(Reported)
      /\ Len(early) \in Nat /\ Len(later) \in Nat /\ Len(more) \in Nat
      /\ DOMAIN more = 1 .. Len(more) /\ Len(early) <= Len(later)
  BY DEF GoesOn
<1> DEFINE last == later \o more
<1>2. /\ last \in Seq(Reported) /\ Len(last) = Len(later) + Len(more)
      /\ \A k \in 1 .. Len(last) :
           last[k] = IF k <= Len(later) THEN later[k] ELSE more[k - Len(later)]
  BY <1>1, ConcatProperties
<1> HIDE DEF last
<1>3. Len(early) <= Len(last)
  BY <1>1, <1>2
<1>4. ASSUME NEW k \in 1 .. Len(early) PROVE last[k] = early[k]
  <2>1. k \in 1 .. Len(last) /\ k <= Len(later)
    BY <1>1, <1>2
  <2>2. QED
    BY <1>2, <2>1 DEF GoesOn
<1>5. ASSUME NEW k \in Len(early) + 1 .. Len(last) PROVE last[k].index > m
  <2>1. k \in 1 .. Len(last) /\ k \in Int
    BY <1>1, <1>2
  <2>2. CASE k <= Len(later)
    <3>1. k \in Len(early) + 1 .. Len(later) /\ last[k] = later[k]
      BY <1>1, <1>2, <2>1, <2>2
    <3>2. QED
      BY <3>1 DEF GoesOn
  <2>3. CASE ~(k <= Len(later))
    <3>1. k - Len(later) \in 1 .. Len(more) /\ last[k] = more[k - Len(later)]
      BY <1>1, <1>2, <2>1, <2>3
    <3>2. QED
      BY <1>1, <3>1
  <2>4. QED
    BY <2>2, <2>3
<1>6. QED
  BY <1>1, <1>2, <1>3, <1>4, <1>5 DEF GoesOn, last

\* The events of the later bars come after those of the first m.
LEMMA EventsGoOn ==
  ASSUME NEW s \in Seq(Bars), NEW m \in 0 .. Len(s)
  PROVE  GoesOn(Scans(s)[m].events, Events(s), m)
<1> DEFINE n == Len(s)
           early == Scans(s)[m].events
           T == {i \in 0 .. n : i < m \/ GoesOn(early, Scans(s)[i].events, m)}
<1>1. n \in Nat /\ m \in Nat /\ m <= n
  OBVIOUS
<1>2. early \in Seq(Reported)
  <2>1. Seen(s, m, Scans(s)[m])
    BY ScansDef
  <2>2. QED
    BY <2>1 DEF Seen, Held
<1>3. GoesOn(early, early, m)
  <2> HIDE DEF early
  <2>1. QED
    BY <1>2 DEF GoesOn
<1>4. 0 \in T
  BY <1>1, <1>3
<1>5. ASSUME NEW i \in 0 .. n, i < n, i \in T PROVE i + 1 \in T
  <2> DEFINE j == i + 1
             acc == Scans(s)[i]
  <2>1. j \in 1 .. Len(s) /\ j \in 0 .. n /\ j - 1 = i /\ i \in 0 .. Len(s) /\ j \in Nat
    BY <1>1, <1>5
  <2>2. CASE j <= m
    BY <1>3, <2>1, <2>2
  <2>3. CASE ~(j <= m)
    <3>1. GoesOn(early, acc.events, m) /\ j > m
      BY <1>1, <1>5, <2>1, <2>3
    <3> HIDE DEF j
    <3>2. Seen(s, j - 1, acc) /\ Scans(s)[j] = Scan(s, acc, j)
      BY <2>1, ScansDef
    <3> HIDE DEF acc, early
    <3>3. PICK more \in Seq(Reported) :
            /\ Scan(s, acc, j).events = acc.events \o more
            /\ \A k \in DOMAIN more : more[k].index = j
      <4>1. AddsOnly(j, acc.events, Scan(s, acc, j).events)
        BY <2>1, <3>2, ScanFacts
      <4>2. QED
        BY <4>1 DEF AddsOnly
    <3>4. GoesOn(early, acc.events \o more, m)
      BY <1>1, <2>1, <3>1, <3>3, OneMoreBar
    <3>5. GoesOn(early, Scans(s)[j].events, m)
      BY <3>2, <3>3, <3>4
    <3>6. QED
      BY <2>1, <3>5 DEF j
  <2>4. QED
    BY <1>1, <2>1, <2>2, <2>3
<1> HIDE DEF T, n
<1>6. n \in T
  <2>1. n \in 0 .. n
    BY <1>1
  <2>2. QED
    BY <1>1, <1>4, <1>5, <2>1, UpTo
<1>7. QED
  BY <1>1, <1>6 DEF T, n, Events

\* The events of before bar m + 1 are those the loop has after m bars.
LEMMA UntilFacts ==
  ASSUME NEW s \in Seq(Bars), NEW m \in 0 .. Len(s)
  PROVE  LET early == Scans(s)[m].events
         IN  Until(s, m + 1) = {<<k, early[k]>> : k \in DOMAIN early}
<1> DEFINE early == Scans(s)[m].events
           all == Events(s)
<1>1. GoesOn(early, all, m)
  BY EventsGoOn
<1>2. /\ early \in Seq(Reported) /\ all \in Seq(Reported) /\ Len(early) <= Len(all)
      /\ DOMAIN early = 1 .. Len(early) /\ DOMAIN all = 1 .. Len(all)
      /\ Len(early) \in Nat /\ Len(all) \in Nat /\ m \in Nat
  BY <1>1 DEF GoesOn
<1>3. \A k \in DOMAIN early : early[k].index <= m
  <2>1. Seen(s, m, Scans(s)[m])
    BY ScansDef
  <2>2. QED
    BY <2>1 DEF Seen
<1> HIDE DEF early, all
<1>4. \A k \in DOMAIN all : all[k].index \in Nat
  <2>1. \A k \in DOMAIN all : all[k] \in Reported
    BY <1>2
  <2>2. QED
    BY <2>1 DEF Reported
<1>5. \A k \in DOMAIN early : k \in DOMAIN all /\ all[k] = early[k] /\ all[k].index < m + 1
  <2> SUFFICES ASSUME NEW k \in DOMAIN early
               PROVE  k \in DOMAIN all /\ all[k] = early[k] /\ all[k].index < m + 1
    OBVIOUS
  <2>1. k \in DOMAIN all /\ all[k] = early[k]
    BY <1>1, <1>2 DEF GoesOn
  <2>2. QED
    BY <1>2, <1>3, <1>4, <2>1
<1>6. \A k \in DOMAIN all : all[k].index < m + 1 => k \in DOMAIN early
  <2> SUFFICES ASSUME NEW k \in DOMAIN all, k \notin DOMAIN early PROVE ~(all[k].index < m + 1)
    OBVIOUS
  <2>1. k \in Len(early) + 1 .. Len(all)
    BY <1>2
  <2>2. all[k].index > m
    BY <1>1, <2>1 DEF GoesOn
  <2>3. QED
    BY <1>2, <1>4, <2>2
<1>7. {k \in DOMAIN all : all[k].index < m + 1} = DOMAIN early
  BY <1>5, <1>6
<1>8. Until(s, m + 1) = {<<k, all[k]>> : k \in {k \in DOMAIN all : all[k].index < m + 1}}
  BY DEF Until, all
<1>9. Until(s, m + 1) = {<<k, all[k]>> : k \in DOMAIN early}
  BY <1>7, <1>8
<1>10. {<<k, all[k]>> : k \in DOMAIN early} = {<<k, early[k]>> : k \in DOMAIN early}
  BY <1>5
<1>11. QED
  BY <1>9, <1>10 DEF early

\* An event older than Lookback bars is final: nothing before it is added,
\* withdrawn or renamed when the next bar closes, although younger events are.
THEOREM EventsAlwaysSettle == Spec => EventsSettle
<1>1. ASSUME NEW s \in Seq(Bars), NEW b \in Bars, NEW t, t = Append(s, b)
      PROVE  Until(s, Len(t) - Lookback) = Until(t, Len(t) - Lookback)
  <2> DEFINE m == Len(s) - Lookback
  <2>1. t \in Seq(Bars) /\ Len(t) = Len(s) + 1 /\ Len(s) \in Nat /\ Lookback \in Nat \ {0}
    BY <1>1, Grown, MarketStructureAssumption
  <2>2. Len(t) - Lookback = m + 1
    BY <2>1
  <2>3. CASE m >= 0
    <3>1. m \in Nat /\ m \in 0 .. Len(s) /\ m \in 0 .. Len(t) /\ m <= Len(s) - Lookback
          /\ m \in 0 .. m
      BY <2>1, <2>3
    <3> HIDE DEF m
    <3>2. Scans(t)[m] = Scans(s)[m]
      BY <1>1, <3>1, ScansAgree
    <3> DEFINE Early(u) == {<<k, Scans(u)[m].events[k]>> : k \in DOMAIN Scans(u)[m].events}
    <3>3. Until(s, m + 1) = Early(s) /\ Until(t, m + 1) = Early(t)
      BY <2>1, <3>1, UntilFacts
    <3>4. QED
      BY <2>2, <3>2, <3>3
  <2>4. CASE ~(m >= 0)
    <3>1. ASSUME NEW u \in Seq(Bars) PROVE Until(u, m + 1) = {}
      <4> DEFINE all == Events(u)
      <4>1. all \in Seq(Reported)
            /\ \A e \in ToSet(all) : 0 < e.swing /\ e.swing + Lookback < e.index
        BY <3>1, EventsFacts
      <4>2. Until(u, m + 1) = {<<k, all[k]>> : k \in {k \in DOMAIN all : all[k].index < m + 1}}
        BY DEF Until
      <4> HIDE DEF all
      <4>3. ASSUME NEW k \in DOMAIN all PROVE ~(all[k].index < m + 1)
        <5>1. all[k] \in ToSet(all) /\ all[k] \in Reported
          BY <4>1 DEF ToSet
        <5>2. all[k].index \in Nat /\ all[k].swing \in Nat
          BY <5>1 DEF Reported
        <5>3. QED
          BY <2>1, <2>4, <4>1, <5>1, <5>2
      <4>4. QED
        BY <4>2, <4>3
    <3>2. QED
      BY <2>1, <2>2, <3>1
  <2>5. QED
    BY <2>3, <2>4
<1>2. Fed /\ [Next]_bars
        => [Until(bars, Len(bars') - Lookback) = Until(bars', Len(bars') - Lookback)]_bars
  <2> SUFFICES ASSUME Fed, Next
               PROVE  Until(bars, Len(bars') - Lookback) = Until(bars', Len(bars') - Lookback)
    OBVIOUS
  <2>1. PICK b \in Bars : bars' = Append(bars, b)
    BY DEF Next, CloseBar
  <2>2. bars \in Seq(Bars)
    BY DEF Fed
  <2>3. QED
    BY <1>1, <2>1, <2>2
<1>3. QED
  BY <1>2, SeriesOfBars, PTL DEF EventsSettle, Spec
=============================================================================
