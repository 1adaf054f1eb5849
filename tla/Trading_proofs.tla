--------------------------- MODULE Trading_proofs ---------------------------
(***************************************************************************)
(* Theorems about Trading: the passes that sessions and backtests report,  *)
(* cash and position of every engine, the rewards of the environments, and *)
(* the refinement of Account. PassInv is about the passes and needs        *)
(* nothing of the bookkeeping; TradingInv adds what the books hold.        *)
(***************************************************************************)
EXTENDS Trading, Accounts_proofs, FiniteSetTheorems

\* The bars a session replays: those of its series, or the one of a ticker.
Ticks == Cardinality(DOMAIN closes \cup {1})

\* The series and the counters have their types; only a session on tickers
\* and the order flow have no series.
CountersOK ==
  /\ closes \in Seq(Prices)
  /\ closes = <<>> => engine \in {"live", "flow"}
  /\ phase \in {"idle", "running", "replaying", "done"}
  /\ clean \in BOOLEAN
  /\ cursor \in Nat /\ curve.points \in Nat /\ trades \in Nat

\* A session that is clean has processed the bars before its cursor in this
\* pass and no others.
SessionOK ==
  engine \in Sessions =>
    /\ phase \in {"idle", "done"} => ~clean
    /\ phase = "running" /\ clean => curve.points = 0 /\ trades = 0
    /\ phase = "replaying" /\ clean =>
         /\ cursor = curve.points + 1 /\ cursor <= Ticks + 1
         /\ trades <= curve.points

\* The curve of a backtest is one point ahead of its bars, and its last point
\* is what the account is worth at the last of them.
BacktestOK ==
  engine = "event_driven" /\ phase = "replaying" =>
    /\ cursor = curve.points /\ cursor \in 1 .. Len(closes) + 1
    /\ trades < curve.points
    /\ cursor > 1 => curve.last = Worth(acct, closes[cursor - 1])

\* A report stands until the next start or stop, and the account with it.
ReportOK ==
  report # None =>
    /\ phase = "done" /\ engine \in Sessions \cup {"event_driven", "vectorized"}
    /\ engine # "vectorized" => CleanPass

PassInv == CountersOK /\ SessionOK /\ BacktestOK /\ ReportOK

-----------------------------------------------------------------------------

\* The number of ticks of a pass.
LEMMA TicksAre ==
  ASSUME closes \in Seq(Prices)
  PROVE  /\ Ticks \in Nat \ {0}
         /\ closes # <<>> => Ticks = Len(closes)
         /\ closes = <<>> => Ticks = 1
<1>1. DOMAIN closes = 1 .. Len(closes) /\ Len(closes) \in Nat
  OBVIOUS
<1>2. CASE closes = <<>>
  <2>1. DOMAIN closes \cup {1} = {1}
    BY <1>1, <1>2
  <2>2. Cardinality({1}) = 1
    BY FS_Singleton
  <2>3. Ticks = Cardinality({1})
    BY <2>1 DEF Ticks
  <2>4. QED
    BY <1>2, <2>2, <2>3
<1>3. CASE closes # <<>>
  <2>1. Len(closes) # 0
    BY <1>3
  <2>2. DOMAIN closes \cup {1} = 1 .. Len(closes)
    BY <1>1, <2>1
  <2>3. Cardinality(1 .. Len(closes)) = Len(closes)
    BY <1>1, <2>1, FS_Interval
  <2>4. QED
    BY <1>1, <1>3, <2>1, <2>2, <2>3 DEF Ticks
<1>4. QED
  BY <1>2, <1>3

\* PassInv holds initially.
LEMMA PassInit == Init => PassInv
<1> SUFFICES ASSUME Init PROVE PassInv
  OBVIOUS
<1>1. \A longest \in Nat : Series(longest) \subseteq Seq(Prices) \ {<<>>}
  BY DEF Series
<1>2. MaxBars \in Nat /\ SessionBars \in Nat
  BY TradingAssumption
<1>3. closes \in Seq(Prices) /\ (closes = <<>> => engine \in {"live", "flow"})
  <2>1. CASE engine \in Bridges \cup {"paper"}
    BY <1>1, <1>2, <2>1 DEF Init, Bridges
  <2>2. CASE engine = "live"
    <3>1. closes \in Series(SessionBars) \cup {<<>>}
      BY <2>2 DEF Init, Bridges
    <3>2. <<>> \in Seq(Prices)
      OBVIOUS
    <3>3. QED
      BY <1>1, <1>2, <2>2, <3>1, <3>2
  <2>3. CASE engine = "flow"
    BY <1>1, <1>2, <2>3 DEF Init, Bridges
  <2>4. CASE engine \notin Bridges \cup {"paper", "live", "flow"}
    BY <1>1, <1>2, <2>4 DEF Init, Bridges
  <2>5. QED
    BY <2>1, <2>2, <2>3, <2>4
<1>4. CountersOK
  BY <1>3 DEF Init, CountersOK, NoPoints
<1>5. SessionOK /\ BacktestOK /\ ReportOK
  BY DEF Init, SessionOK, BacktestOK, ReportOK
<1>6. QED
  BY <1>4, <1>5 DEF PassInv

\* A session starts and stops; what a stop has reported goes with it.
LEMMA StartSessionStep == PassInv /\ StartSession => PassInv'
<1> SUFFICES ASSUME PassInv, StartSession PROVE PassInv'
  OBVIOUS
<1>1. CountersOK'
  BY DEF PassInv, CountersOK, StartSession, NoPoints
<1>2. SessionOK'
  BY DEF SessionOK, StartSession, NoPoints
<1>3. BacktestOK' /\ ReportOK'
  BY DEF BacktestOK, ReportOK, StartSession, Sessions
<1>4. QED
  BY <1>1, <1>2, <1>3 DEF PassInv

\* Stopping a session keeps PassInv.
LEMMA StopSessionStep == PassInv /\ StopSession => PassInv'
<1> SUFFICES ASSUME PassInv, StopSession PROVE PassInv'
  OBVIOUS
<1>1. CountersOK'
  BY DEF PassInv, CountersOK, StopSession, pass
<1>2. SessionOK'
  <2>1. Ticks' = Ticks /\ Ticks \in Nat
    BY TicksAre DEF StopSession, Ticks, PassInv, CountersOK
  <2>2. QED
    BY <2>1 DEF PassInv, CountersOK, SessionOK, StopSession, pass
<1>3. BacktestOK' /\ ReportOK'
  BY DEF BacktestOK, ReportOK, StopSession, Sessions
<1>4. QED
  BY <1>1, <1>2, <1>3 DEF PassInv

\* A tick adds a point, and a trade at most.
LEMMA TickStep == PassInv /\ Tick => PassInv'
<1> SUFFICES ASSUME PassInv, Tick PROVE PassInv'
  OBVIOUS
<1>1. PICK price \in TickPrices, action \in Actions : ProcessTick(price, action)
  BY DEF Tick
<1>2. /\ curve'.points = curve.points + 1
      /\ trades' = trades \/ trades' = trades + 1
  BY <1>1 DEF ProcessTick, Point
<1>3. /\ engine \in Sessions /\ engine' = engine /\ closes' = closes
      /\ phase = "replaying" /\ phase' = phase /\ clean' = clean /\ report' = report
      /\ cursor' = cursor + 1 /\ ~Replayed
  BY DEF Tick
<1>4. CountersOK'
  BY <1>2, <1>3 DEF PassInv, CountersOK
<1>5. SessionOK'
  <2>1. Ticks' = Ticks /\ Ticks \in Nat /\ cursor <= Ticks
    BY <1>3, TicksAre DEF Replayed, Ticks, PassInv, CountersOK
  <2>2. QED
    BY <1>2, <1>3, <2>1 DEF PassInv, CountersOK, SessionOK
<1>6. BacktestOK' /\ ReportOK'
  BY <1>3 DEF BacktestOK, ReportOK, PassInv, Sessions
<1>7. QED
  BY <1>4, <1>5, <1>6 DEF PassInv

\* A tick that raises keeps PassInv.
LEMMA TickFailsStep == PassInv /\ TickFails => PassInv'
<1> SUFFICES ASSUME PassInv, TickFails PROVE PassInv'
  OBVIOUS
<1>1. CountersOK'
  BY DEF PassInv, CountersOK, TickFails, pass
<1>2. SessionOK'
  BY DEF SessionOK, TickFails
<1>3. BacktestOK' /\ ReportOK'
  BY DEF BacktestOK, ReportOK, TickFails, PassInv, Sessions
<1>4. QED
  BY <1>1, <1>2, <1>3 DEF PassInv

\* The report of a session that is clean is that of one pass.
LEMMA FinishSessionStep == PassInv /\ FinishSession => PassInv'
<1> SUFFICES ASSUME PassInv, FinishSession PROVE PassInv'
  OBVIOUS
<1>1. /\ engine \in Sessions /\ engine' = engine /\ closes' = closes /\ acct' = acct
      /\ phase = "replaying" /\ phase' = "done" /\ clean' = FALSE /\ Replayed
      /\ cursor' = cursor /\ curve' = curve /\ trades' = trades
  BY DEF FinishSession, pass
<1>2. CountersOK'
  BY <1>1 DEF PassInv, CountersOK
<1>3. SessionOK' /\ BacktestOK'
  BY <1>1 DEF SessionOK, BacktestOK
<1>4. /\ report'.points = curve.points /\ report'.trades = trades /\ report'.clean = clean
      /\ report'.pnl = Worth(acct, report'.final) \ominus InitialCash
  BY DEF FinishSession
<1>5. clean => curve.points = Ticks /\ trades <= curve.points
  <2>1. Ticks \in Nat /\ cursor > Ticks
    BY <1>1, TicksAre DEF Replayed, Ticks, PassInv, CountersOK
  <2>2. QED
    BY <1>1, <2>1 DEF PassInv, CountersOK, SessionOK
<1>6. CleanPass'
  <2>1. engine # "event_driven"
    BY <1>1 DEF Sessions
  <2>2. clean => curve.points = IF closes = <<>> THEN 1 ELSE Len(closes)
    BY <1>5, TicksAre DEF PassInv, CountersOK
  <2>3. QED
    BY <1>1, <1>4, <1>5, <2>1, <2>2 DEF CleanPass
<1>7. ReportOK'
  BY <1>1, <1>6 DEF ReportOK
<1>8. QED
  BY <1>2, <1>3, <1>7 DEF PassInv

\* Starting a backtest keeps PassInv.
LEMMA StartBacktestStep == PassInv /\ StartBacktest => PassInv'
<1> SUFFICES ASSUME PassInv, StartBacktest PROVE PassInv'
  OBVIOUS
<1>1. CountersOK'
  BY DEF PassInv, CountersOK, StartBacktest, Point, NoPoints
<1>2. SessionOK' /\ ReportOK'
  BY DEF SessionOK, ReportOK, StartBacktest, Sessions
<1>3. BacktestOK'
  BY DEF BacktestOK, StartBacktest, Point, NoPoints, PassInv, CountersOK
<1>4. QED
  BY <1>1, <1>2, <1>3 DEF PassInv

\* A bar of the event-driven backtest keeps PassInv.
LEMMA BacktestBarStep == PassInv /\ BacktestBar => PassInv'
<1> SUFFICES ASSUME PassInv, BacktestBar PROVE PassInv'
  OBVIOUS
<1>1. /\ engine = "event_driven" /\ engine' = engine /\ closes' = closes
      /\ phase = "replaying" /\ phase' = phase /\ clean' = clean /\ report' = report
      /\ cursor' = cursor + 1 /\ cursor <= Len(closes)
  BY DEF BacktestBar
<1>2. PICK action \in Inputs :
        LET out == BacktestExecute(acct, action, closes[cursor])
        IN  /\ Book(out, closes[cursor])
            /\ trades' = IF out.traded THEN trades + 1 ELSE trades
            /\ curve' = Point(curve, Worth(out.acct, closes[cursor]))
  BY DEF BacktestBar
<1>3. /\ curve'.points = curve.points + 1
      /\ curve'.last = Worth(acct', closes[cursor])
      /\ trades' = trades \/ trades' = trades + 1
  BY <1>2 DEF Book, Point
<1>4. CountersOK'
  BY <1>1, <1>3 DEF PassInv, CountersOK
<1>5. SessionOK' /\ ReportOK'
  BY <1>1 DEF SessionOK, ReportOK, PassInv, Sessions
<1>6. BacktestOK'
  <2>1. /\ cursor = curve.points /\ cursor \in 1 .. Len(closes) + 1 /\ trades < curve.points
        /\ cursor \in Nat /\ trades \in Nat /\ Len(closes) \in Nat
    BY <1>1 DEF PassInv, CountersOK, BacktestOK
  <2>2. cursor' - 1 = cursor /\ cursor' \in 1 .. Len(closes) + 1
    BY <1>1, <2>1
  <2>3. trades' < curve'.points /\ cursor' = curve'.points
    BY <1>1, <1>3, <2>1
  <2>4. curve'.last = Worth(acct', closes[cursor' - 1])
    BY <1>3, <2>2
  <2>5. QED
    BY <1>1, <2>2, <2>3, <2>4 DEF BacktestOK
<1>7. QED
  BY <1>4, <1>5, <1>6 DEF PassInv

\* The vectorized backtest keeps PassInv.
LEMMA VectorizedSteps ==
  PassInv /\ (StartVectorized \/ VectorizedBar) => PassInv'
<1> SUFFICES ASSUME PassInv, StartVectorized \/ VectorizedBar PROVE PassInv'
  OBVIOUS
<1>1. CASE StartVectorized
  <2>1. CountersOK'
    BY <1>1 DEF PassInv, CountersOK, StartVectorized, Point, NoPoints
  <2>2. SessionOK' /\ BacktestOK' /\ ReportOK'
    BY <1>1 DEF SessionOK, BacktestOK, ReportOK, StartVectorized, Sessions
  <2>3. QED
    BY <2>1, <2>2 DEF PassInv
<1>2. CASE VectorizedBar
  <2>1. /\ engine = "vectorized" /\ engine' = engine /\ closes' = closes
        /\ phase = "replaying" /\ phase' = phase /\ clean' = clean /\ report' = report
        /\ cursor' = cursor + 1 /\ curve'.points = curve.points + 1
        /\ trades' = trades \/ trades' = trades + 1
    BY <1>2 DEF VectorizedBar, Point
  <2>2. CountersOK'
    BY <2>1 DEF PassInv, CountersOK
  <2>3. SessionOK' /\ BacktestOK' /\ ReportOK'
    BY <2>1 DEF SessionOK, BacktestOK, ReportOK, PassInv, Sessions
  <2>4. QED
    BY <2>2, <2>3 DEF PassInv
<1>3. QED
  BY <1>1, <1>2

\* The curve of a finished backtest has all its bars and ends at the worth of
\* the account at the last close.
LEMMA FinishBacktestStep == PassInv /\ FinishBacktest => PassInv'
<1> SUFFICES ASSUME PassInv, FinishBacktest PROVE PassInv'
  OBVIOUS
<1>1. /\ engine \in {"event_driven", "vectorized"} /\ engine' = engine
      /\ closes' = closes /\ acct' = acct /\ phase = "replaying" /\ phase' = "done"
      /\ clean' = FALSE /\ cursor' = cursor /\ curve' = curve /\ trades' = trades
      /\ cursor > Len(closes)
  BY DEF FinishBacktest, pass, book
<1>2. CountersOK'
  BY <1>1 DEF PassInv, CountersOK
<1>3. SessionOK' /\ BacktestOK'
  BY <1>1 DEF SessionOK, BacktestOK, Sessions
<1>4. /\ report'.points = curve.points /\ report'.trades = trades
      /\ report'.final = closes[Len(closes)]
      /\ report'.pnl = curve.last \ominus InitialCash
  BY DEF FinishBacktest
<1>5. engine = "event_driven" => CleanPass'
  <2> SUFFICES ASSUME engine = "event_driven" PROVE CleanPass'
    OBVIOUS
  <2>1. closes \in Seq(Prices) /\ closes # <<>> /\ Len(closes) \in Nat /\ Len(closes) # 0
    BY DEF PassInv, CountersOK
  <2>2. /\ cursor = curve.points /\ cursor \in 1 .. Len(closes) + 1
        /\ trades < curve.points
        /\ cursor > 1 => curve.last = Worth(acct, closes[cursor - 1])
    BY <1>1 DEF PassInv, BacktestOK
  <2>3. cursor = Len(closes) + 1 /\ cursor - 1 = Len(closes) /\ cursor > 1
    BY <1>1, <2>1, <2>2
  <2>4. curve.last = Worth(acct', report'.final)
    BY <1>1, <1>4, <2>2, <2>3
  <2>5. trades <= curve.points
    BY <2>2, <2>3 DEF PassInv, CountersOK
  <2>6. QED
    BY <1>1, <1>4, <2>2, <2>3, <2>4, <2>5 DEF CleanPass
<1>6. ReportOK'
  BY <1>1, <1>5 DEF ReportOK
<1>7. QED
  BY <1>2, <1>3, <1>6 DEF PassInv

\* Environments keep PassInv.
LEMMA EnvironmentSteps ==
  PassInv /\ (ResetEnvironment \/ StepEnvironment \/ StepBridge) => PassInv'
<1> SUFFICES ASSUME PassInv, ResetEnvironment \/ StepEnvironment \/ StepBridge PROVE PassInv'
  OBVIOUS
<1>1. /\ engine \in Environments \cup Bridges /\ engine' = engine
      /\ closes' = closes /\ curve' = curve /\ trades' = trades
      /\ clean' = clean /\ report' = report
  <2>1. CASE ResetEnvironment
    BY <2>1 DEF ResetEnvironment
  <2>2. CASE StepEnvironment
    BY <2>2 DEF StepEnvironment
  <2>3. CASE StepBridge
    BY <2>3 DEF StepBridge
  <2>4. QED
    BY <2>1, <2>2, <2>3
<1>2. /\ phase' \in {"running", "done"}
      /\ cursor' \in Nat
  <2>1. CASE ResetEnvironment
    BY <2>1 DEF ResetEnvironment
  <2>2. CASE StepEnvironment
    <3>1. phase' \in {"running", "done"}
      BY <2>2 DEF StepEnvironment
    <3>2. cursor' = cursor + 1
      BY <2>2 DEF StepEnvironment
    <3>3. QED
      BY <3>1, <3>2 DEF PassInv, CountersOK
  <2>3. CASE StepBridge
    <3>1. \/ phase' = "done" /\ cursor' = cursor
          \/ phase' = phase /\ cursor' = cursor + 1
      BY <2>3 DEF StepBridge
    <3>2. phase = "running"
      BY <2>3 DEF StepBridge
    <3>3. QED
      BY <3>1, <3>2 DEF PassInv, CountersOK
  <2>4. QED
    BY <2>1, <2>2, <2>3
<1>3. CountersOK'
  BY <1>1, <1>2 DEF PassInv, CountersOK
<1>4. SessionOK' /\ BacktestOK' /\ ReportOK'
  BY <1>1, <1>2 DEF SessionOK, BacktestOK, ReportOK, PassInv, Sessions, Environments, Bridges
<1>5. QED
  BY <1>3, <1>4 DEF PassInv

\* The order flow keeps PassInv.
LEMMA OrderFlowSteps ==
  PassInv /\ (PriceArrives \/ ProcessOrder) => PassInv'
<1> SUFFICES ASSUME PassInv, PriceArrives \/ ProcessOrder PROVE PassInv'
  OBVIOUS
<1>1. /\ engine = "flow" /\ engine' = engine
      /\ closes' = closes /\ phase' = phase /\ cursor' = cursor /\ curve' = curve
      /\ clean' = clean /\ report' = report
      /\ trades' = trades \/ trades' = trades + 1
  <2>1. CASE PriceArrives
    BY <2>1 DEF PriceArrives, pass
  <2>2. CASE ProcessOrder
    <3>1. trades' = trades \/ trades' = trades + 1
      <4>1. \E filled \in BOOLEAN : trades' = IF filled THEN trades + 1 ELSE trades
        <5> DEFINE NextOrder(side, risks, stats) ==
                     Order(side, CompositeSize(risks, Known, stats))
                   Fill(order) == SimulateFill(order, context.price, Known.equity)
                   Out(apply, fill) ==
                     IF apply = "single_asset" THEN ApplyFillSingle(Fresh, fill, context.price)
                     ELSE ApplyFillMulti(Fresh, fill, context.price)
                   Done(order, fill, out, checked) ==
                     IF checked
                     THEN /\ Book([out EXCEPT !.cost = out.cost \ominus paid], context.price)
                          /\ trades' = IF fill.status = "filled" THEN trades + 1 ELSE trades
                          /\ context' = [context EXCEPT
                                          !.state = PortfolioState(out.acct, context.price),
                                          !.result = fill]
                     ELSE /\ context' = [context EXCEPT !.result = [status |-> "rejected"]]
                          /\ UNCHANGED <<book, trades>>
        <5>1. \E side \in {"buy", "sell", "hold"}, risks \in (SUBSET Risks) \ {{}},
                 stats \in Stats, apply \in {"single_asset", "multi_asset"} :
                LET order == NextOrder(side, risks, stats)
                IN  Done(order, Fill(order), Out(apply, Fill(order)),
                         CompositeCheck(risks, order, Known, stats))
          BY <2>2 DEF ProcessOrder
        <5>2. \A order, fill, out, checked :
                Done(order, fill, out, checked)
                  => \E filled \in BOOLEAN : trades' = IF filled THEN trades + 1 ELSE trades
          <6> SUFFICES ASSUME NEW order, NEW fill, NEW out, NEW checked,
                              Done(order, fill, out, checked)
                       PROVE  trades' = trades \/ trades' = trades + 1
            OBVIOUS
          <6>1. CASE checked
            BY <6>1
          <6>2. CASE ~checked
            BY <6>2
          <6>3. QED
            BY <6>1, <6>2
        <5> HIDE DEF NextOrder, Fill, Out, Done
        <5>3. QED
          BY <5>1, <5>2
      <4>2. QED
        BY <4>1
    <3>2. QED
      BY <2>2, <3>1 DEF ProcessOrder
  <2>3. QED
    BY <2>1, <2>2
<1>2. CountersOK'
  BY <1>1 DEF PassInv, CountersOK
<1>3. SessionOK' /\ BacktestOK' /\ ReportOK'
  BY <1>1 DEF SessionOK, BacktestOK, ReportOK, PassInv, Sessions
<1>4. QED
  BY <1>2, <1>3 DEF PassInv

\* Stuttering keeps PassInv.
LEMMA PassStutters == PassInv /\ UNCHANGED vars => PassInv'
<1> SUFFICES ASSUME PassInv, UNCHANGED vars PROVE PassInv'
  OBVIOUS
<1>1. /\ engine' = engine /\ closes' = closes /\ acct' = acct /\ phase' = phase
      /\ cursor' = cursor /\ curve' = curve /\ trades' = trades
      /\ clean' = clean /\ report' = report
  BY DEF vars, book, pass
<1>2. CountersOK' /\ SessionOK' /\ BacktestOK'
  BY <1>1 DEF PassInv, CountersOK, SessionOK, BacktestOK, Ticks
<1>3. ReportOK'
  BY <1>1 DEF PassInv, ReportOK, CleanPass
<1>4. QED
  BY <1>2, <1>3 DEF PassInv

\* What is true of the counters, the curve and the report of whoever trades.
THEOREM PassesAreCounted == Spec => []PassInv
<1>1. PassInv /\ [Next]_vars => PassInv'
  BY StartSessionStep, StopSessionStep, TickStep, TickFailsStep, FinishSessionStep,
     StartBacktestStep, BacktestBarStep, VectorizedSteps, FinishBacktestStep,
     EnvironmentSteps, OrderFlowSteps, PassStutters DEF Next
<1>2. QED
  BY <1>1, PassInit, PTL DEF Spec

-----------------------------------------------------------------------------
(* Sizes an order may have.                                                *)

\* No risk model asks for more than the whole equity ...
LEMMA PositionSizeIs ==
  ASSUME NEW risk \in Risks, NEW state, state.equity \in Fraction, NEW stats \in Stats
  PROVE  /\ PositionSize(risk, state, stats) \in Fraction
         /\ PositionSize(risk, state, stats) \preceq One
<1>1. Half \in Fraction /\ <<3, 4>> \in Fraction /\ KellyCap \in Fraction
      /\ Zero \in Fraction /\ One \in Fraction /\ Zero \prec KellyCap /\ KellyCap \preceq One
      /\ Zero \prec One
  <2> DEFINE n == 3
             d == 4
             k == 1
             u == 3
             v == -2
             z == 0
  <2>1. /\ n \in Int /\ d \in Positive /\ u \in Int /\ v \in Int /\ n * u + d * v = 1
        /\ k \in Int /\ z \in Int /\ k \in Positive /\ z * d < k * k /\ ~ (k * k < k * d) = FALSE
        /\ ~ (k * d < k * k) /\ z * k < k * k
    BY DEF Positive
  <2>2. One = Frac(k, k) /\ Zero = Frac(z, k) /\ KellyCap = <<k, d>>
    BY Constants DEF KellyCap
  <2> HIDE DEF n, d, k, u, v, z
  <2>3. <<n, d>> \in Fraction
    BY <2>1, Coprime
  <2>4. <<k, d>> \in Fraction /\ Frac(k, d) = <<k, d>>
    BY <2>1, Numerals DEF k
  <2>5. /\ Frac(z, k) \prec Frac(k, d) <=> z * d < k * k
        /\ Frac(k, k) \prec Frac(k, d) <=> k * d < k * k
        /\ Frac(z, k) \prec Frac(k, k) <=> z * k < k * k
    BY <2>1, FracLess
  <2>6. /\ Zero \prec KellyCap /\ ~ (One \prec KellyCap) /\ Zero \prec One
    BY <2>1, <2>2, <2>4, <2>5
  <2>7. QED
    BY <2>2, <2>3, <2>4, <2>6, Constants, Trichotomy DEF n, d
<1>2. CASE risk = "fixed_risk"
  <2>1. PositionSize(risk, state, stats)
          = IF state.equity \preceq Zero THEN Zero ELSE Least(RiskFraction, One)
    BY <1>2 DEF PositionSize
  <2>2. Least(RiskFraction, One) \in Fraction /\ Least(RiskFraction, One) \preceq One
    BY <1>1, Assumed, LeastIs
  <2>3. Zero \preceq One
    BY <1>1, Trichotomy
  <2>4. QED
    BY <1>1, <2>1, <2>2, <2>3
<1>3. CASE risk = "kelly_risk"
  <2>1. PositionSize(risk, state, stats) = KellyFraction(stats.winRate, stats.ratio)
    BY <1>3 DEF PositionSize
  <2>2. stats.winRate \in Fraction /\ stats.ratio = One
    BY <1>1 DEF Stats
  <2>3. ~ (One \preceq Zero) /\ One # Zero
    BY <1>1, Trichotomy
  <2> DEFINE edge == stats.winRate \ominus ((One \ominus stats.winRate) \oslash One)
  <2>4. edge \in Fraction
    BY <1>1, <2>2, <2>3, Sums, Over
  <2>5. KellyFraction(stats.winRate, stats.ratio) = Clip(edge, Zero, KellyCap)
    BY <2>2, <2>3 DEF KellyFraction
  <2> HIDE DEF edge
  <2>6. Clip(edge, Zero, KellyCap) \in Fraction /\ Clip(edge, Zero, KellyCap) \preceq KellyCap
    BY <1>1, <2>4, ClipIs, Trichotomy
  <2>7. QED
    BY <1>1, <2>1, <2>5, <2>6, Ordered
<1>4. QED
  BY <1>2, <1>3 DEF Risks

\* ... nor do several of them together.
LEMMA CompositeSizeIs ==
  ASSUME NEW risks \in (SUBSET Risks) \ {{}}, NEW state, state.equity \in Fraction,
         NEW stats \in Stats
  PROVE  /\ CompositeSize(risks, state, stats) \in Fraction
         /\ CompositeSize(risks, state, stats) \preceq One
<1> DEFINE sizes == {PositionSize(r, state, stats) : r \in risks}
<1>1. \A r \in risks : PositionSize(r, state, stats) \in Fraction
                        /\ PositionSize(r, state, stats) \preceq One
  BY PositionSizeIs
<1>2. PICK r, q \in Risks : risks = {r, q}
  <2> DEFINE f == "fixed_risk"
             k == "kelly_risk"
  <2>a. Risks = {f, k}
    BY DEF Risks
  <2>b. risks \subseteq Risks /\ risks # {}
    OBVIOUS
  <2>0. Risks = {f, k} /\ risks \subseteq Risks /\ risks # {}
    BY <2>a, <2>b
  <2> HIDE DEF f, k
  <2>1. risks = {f} \/ risks = {k} \/ risks = {f, k}
    BY <2>0, Zenon
  <2>2. \E r, q \in Risks : risks = {r, q}
    BY <2>0, <2>1
  <2>3. QED
    BY <2>2
<1>3. \E s \in sizes : \A t \in sizes : s \preceq t
  <2> DEFINE x == PositionSize(r, state, stats)
             y == PositionSize(q, state, stats)
  <2>1. x \in Fraction /\ y \in Fraction /\ sizes = {x, y}
    BY <1>1, <1>2
  <2> HIDE DEF x, y, sizes
  <2>2. (x \preceq y /\ x \preceq x) \/ (y \preceq x /\ y \preceq y)
    BY <2>1, Trichotomy
  <2>3. QED
    BY <2>1, <2>2
<1>4. CompositeSize(risks, state, stats) = CHOOSE s \in sizes : \A t \in sizes : s \preceq t
  BY DEF CompositeSize
<1>5. CompositeSize(risks, state, stats) \in sizes
  <2> HIDE DEF sizes
  <2>1. QED
    BY <1>3, <1>4
<1>6. QED
  BY <1>1, <1>5

\* The state an order flow assumes when it has none.
LEMMA FreshStateIs ==
  FreshState.equity = InitialCash /\ InitialCash \in Fraction
<1>1. QED
  BY FreshIs, Assumed, Constants DEF FreshState, PortfolioState

-----------------------------------------------------------------------------
(* What strategies, policies and callers may ask for.                      *)

Sides == {"buy", "sell", "hold", "other"}

\* Whatever word a strategy uses, it becomes a side.
LEMMA SidesAre ==
  ASSUME NEW word
  PROVE  Side(word) \in Sides
<1>1. CASE word \in {"buy", "long"}
  BY <1>1 DEF Side, Sides
<1>2. CASE word \in {"sell", "short"}
  BY <1>2 DEF Side, Sides
<1>3. CASE word = "hold"
  BY <1>3 DEF Side, Sides
<1>4. CASE word \notin {"buy", "long", "sell", "short", "hold"}
  BY <1>4 DEF Side, Sides
<1>5. QED
  BY <1>1, <1>2, <1>3, <1>4

\* Target exposures are fractions.
LEMMA TargetsAre == Targets \subseteq Fraction
<1>1. <<-1, 1>> \in Fraction
  BY Numbers DEF Lowest
<1>2. QED
  BY <1>1, TradingAssumption, Constants DEF Targets

Words == {"buy", "sell", "hold", "long", "short", "exit"}
SignalType == [side : Words, sized : BOOLEAN, size : Fraction]

\* What a policy asks for becomes a signal.
LEMMA PolicySignals ==
  ASSUME NEW market \in {"spot", "futures"}, NEW action \in Targets
  PROVE  ActionToSignal(market, action) \in SignalType
<1> DEFINE target == ClipTarget("spot", action)
           size == Least(Magnitude(action), One)
<1>1. action \in Fraction /\ Zero \in Fraction /\ One \in Fraction
  BY TargetsAre, Constants
<1>2. target \in Fraction
  BY <1>1, ClipTargetIs
<1>3. size \in Fraction
  BY <1>1, MagnitudeIs, LeastIs
<1>4. \E side \in Words, amount \in {target, size, One, Zero} :
        ActionToSignal(market, action) = [side |-> side, sized |-> TRUE, size |-> amount]
  <2> DEFINE signal(side, amount) == [side |-> side, sized |-> TRUE, size |-> amount]
  <2>1. ActionToSignal(market, action)
          = IF market = "spot"
            THEN CASE DeadZone \prec target -> signal("buy", target)
                   [] target \preceq FlatBand -> signal("sell", One)
                   [] OTHER -> signal("hold", Zero)
            ELSE CASE DeadZone \prec action -> signal("buy", size)
                   [] action \prec <<-1, 20>> -> signal("sell", size)
                   [] OTHER -> signal("hold", Zero)
    BY DEF ActionToSignal
  <2> HIDE DEF target, size
  <2>2. ActionToSignal(market, action)
          \in {signal("buy", target), signal("sell", One), signal("hold", Zero),
               signal("buy", size), signal("sell", size)}
    <3>1. CASE market = "spot" /\ DeadZone \prec target /\ ~ (target \preceq FlatBand)
      BY <2>1, <3>1
    <3>2. CASE market = "spot" /\ ~ (DeadZone \prec target) /\ target \preceq FlatBand
      BY <2>1, <3>2
    <3>3. CASE market = "spot" /\ ~ (DeadZone \prec target) /\ ~ (target \preceq FlatBand)
      BY <2>1, <3>3
    <3>4. CASE market # "spot" /\ DeadZone \prec action /\ ~ (action \prec <<-1, 20>>)
      BY <2>1, <3>4
    <3>5. CASE market # "spot" /\ ~ (DeadZone \prec action) /\ action \prec <<-1, 20>>
      BY <2>1, <3>5
    <3>6. CASE market # "spot" /\ ~ (DeadZone \prec action) /\ ~ (action \prec <<-1, 20>>)
      BY <2>1, <3>6
    <3>7. CASE DeadZone \prec target /\ target \preceq FlatBand
      <4>1. CASE market = "spot"
        BY <2>1, <3>7, <4>1
      <4>2. CASE market # "spot"
        BY <3>4, <3>5, <3>6, <2>1, <4>2
      <4>3. QED
        BY <4>1, <4>2
    <3>8. CASE DeadZone \prec action /\ action \prec <<-1, 20>>
      <4>1. CASE market = "spot"
        BY <3>1, <3>2, <3>3, <3>7, <4>1
      <4>2. CASE market # "spot"
        BY <2>1, <3>8, <4>2
      <4>3. QED
        BY <4>1, <4>2
    <3>9. QED
      BY <3>1, <3>2, <3>3, <3>4, <3>5, <3>6, <3>7, <3>8
  <2>3. QED
    BY <2>2 DEF Words
<1>5. PICK side \in Words, amount \in {target, size, One, Zero} :
        ActionToSignal(market, action) = [side |-> side, sized |-> TRUE, size |-> amount]
  BY <1>4
<1> HIDE DEF target, size
<1>6. QED
  BY <1>1, <1>2, <1>3, <1>5 DEF SignalType

\* A strategy answers with a sequence of signals.
LEMMA SignalsAre ==
  ASSUME NEW s \in Signals
  PROVE  s \in Seq(SignalType)
<1> DEFINE A == {<<>>, <<Signal("long")>>, <<SizedSignal("buy", One), Signal("short")>>,
                 <<Signal("exit")>>}
           B == {<<SizedSignal(side, size)>> : side \in {"buy", "sell"}, size \in Sizes}
           C == {<<ActionToSignal(market, action)>> :
                   market \in {"spot", "futures"}, action \in Targets}
<1>1. Zero \in Fraction /\ One \in Fraction /\ Sizes \subseteq Fraction
  BY TradingAssumption, Constants
<1>2. \A x \in SignalType : <<x>> \in Seq(SignalType)
  OBVIOUS
<1>3. \A side \in Words, size \in Fraction :
        SizedSignal(side, size) \in SignalType /\ Signal(side) \in SignalType
  BY <1>1 DEF Signal, SizedSignal, SignalType
<1>4. CASE s \in A
  <2> DEFINE x == Signal("long")
             y == SizedSignal("buy", One)
             z == Signal("short")
             w == Signal("exit")
  <2>1. x \in SignalType /\ y \in SignalType /\ z \in SignalType /\ w \in SignalType
    BY <1>1, <1>3 DEF Words
  <2>2. s = <<>> \/ s = <<x>> \/ s = <<y, z>> \/ s = <<w>>
    BY <1>4
  <2> HIDE DEF x, y, z, w
  <2>3. /\ <<>> \in Seq(SignalType) /\ <<x>> \in Seq(SignalType)
        /\ <<y, z>> \in Seq(SignalType) /\ <<w>> \in Seq(SignalType)
    BY <2>1
  <2>4. QED
    BY <2>2, <2>3
<1>5. CASE s \in B
  <2>1. PICK side \in {"buy", "sell"}, size \in Sizes : s = <<SizedSignal(side, size)>>
    BY <1>5
  <2>2. SizedSignal(side, size) \in SignalType
    BY <1>1, <1>3 DEF Words
  <2>3. QED
    BY <1>2, <2>1, <2>2
<1>6. CASE s \in C
  <2>1. PICK market \in {"spot", "futures"}, action \in Targets :
               s = <<ActionToSignal(market, action)>>
    BY <1>6
  <2>2. QED
    BY <1>2, <2>1, PolicySignals
<1>7. Signals = A \cup B \cup C
  BY DEF Signals
<1> HIDE DEF A, B, C
<1>8. QED
  BY <1>4, <1>5, <1>6, <1>7

\* An action has a side and a size.
LEMMA ActionsAre ==
  ASSUME NEW action \in Actions
  PROVE  action.side \in Sides /\ action.size \in Fraction
<1>1. PICK s \in Signals : action = SignalToAction(s)
  BY DEF Actions
<1>2. s \in Seq(SignalType) /\ Zero \in Fraction /\ One \in Fraction
  BY SignalsAre, Constants
<1>3. CASE s = <<>>
  <2>1. action = Order("hold", Zero)
    BY <1>1, <1>3 DEF SignalToAction, Hold
  <2>2. QED
    BY <1>2, <2>1 DEF Order, Sides
<1>4. CASE s # <<>>
  <2> DEFINE latest == s[Len(s)]
  <2>1. latest \in SignalType
    BY <1>2, <1>4
  <2>2. action = Order(Side(latest.side), IF latest.sized THEN latest.size ELSE One)
    BY <1>1, <1>4 DEF SignalToAction
  <2> HIDE DEF latest
  <2>3. action.side = Side(latest.side) /\ action.size \in {latest.size, One}
    BY <2>2 DEF Order
  <2>4. latest.size \in Fraction
    BY <2>1 DEF SignalType
  <2>5. QED
    BY <1>2, <2>3, <2>4, SidesAre
<1>5. QED
  BY <1>3, <1>4

\* Risk limits the size and leaves the side.
LEMMA CappedIs ==
  ASSUME NEW action \in Actions
  PROVE  /\ Capped(action).side = action.side /\ Capped(action).side \in Sides
         /\ Capped(action).size \in Fraction /\ Capped(action).size \preceq RiskFraction
         /\ Zero \prec Capped(action).size => Zero \prec action.size
<1>1. action.side \in Sides /\ action.size \in Fraction /\ RiskFraction \in Fraction
      /\ Zero \in Fraction
  BY ActionsAre, Assumed, Constants
<1>2. Capped(action).side = action.side /\ Capped(action).size = Least(action.size, RiskFraction)
  BY DEF Capped, Order
<1>3. /\ Least(action.size, RiskFraction) \in Fraction
      /\ Least(action.size, RiskFraction) \preceq RiskFraction
      /\ Least(action.size, RiskFraction) \preceq action.size
  BY <1>1, LeastIs
<1>4. Zero \prec Least(action.size, RiskFraction) => Zero \prec action.size
  <2> DEFINE least == Least(action.size, RiskFraction)
             size == action.size
  <2>1. Zero \in Fraction /\ least \in Fraction /\ size \in Fraction /\ least \preceq size
    BY <1>1, <1>3
  <2> HIDE DEF least, size
  <2>2. Zero \prec least => Zero \prec size
    BY <2>1, Ordered
  <2>3. QED
    BY <2>2 DEF least, size
<1>5. QED
  BY <1>1, <1>2, <1>3, <1>4

\* The forms in which an environment accepts an action.
LEMMA InputKinds ==
  \A x \in Inputs : x.form \in {"word", "order", "number"} /\ x.size \in Fraction
<1> DEFINE A == {Input("word", side, Zero) : side \in {"hold", "long", "sell"}}
           B == {Input("order", side, size) : side \in {"buy", "short", "exit"}, size \in Sizes}
           C == {Input("number", "", Zero \ominus size) : size \in Sizes}
<1>1. Zero \in Fraction /\ Sizes \subseteq Fraction
  BY TradingAssumption, Constants
<1>2. \A x \in A : x.form = "word" /\ x.size = Zero
  BY DEF Input
<1>3. \A x \in B : x.form = "order" /\ x.size \in Sizes
  BY DEF Input
<1>4. \A x \in C : x.form = "number" /\ x.size \in Fraction
  <2>1. SUFFICES ASSUME NEW size \in Sizes, NEW x, x = Input("number", "", Zero \ominus size)
                 PROVE  x.form = "number" /\ x.size \in Fraction
    OBVIOUS
  <2>2. Zero \ominus size \in Fraction
    BY <1>1, Sums
  <2>3. QED
    BY <2>1, <2>2 DEF Input
<1>5. Inputs = A \cup B \cup C
  BY DEF Inputs
<1> HIDE DEF A, B, C
<1>6. QED
  BY <1>1, <1>2, <1>3, <1>4, <1>5

\* Whatever the form, an environment trades a share of the equity.
LEMMA InputsAre ==
  ASSUME NEW x \in Inputs
  PROVE  ParseAction(x).side \in Sides /\ IsShare(ParseAction(x).size)
<1>1. x.form \in {"word", "order", "number"} /\ x.size \in Fraction
  BY InputKinds
<1>2. ParseAction(x).side \in Sides
  <2>1. CASE x.form = "word"
    BY <2>1, SidesAre DEF ParseAction, Order
  <2>2. CASE x.form = "order"
    BY <2>2, SidesAre DEF ParseAction, Order
  <2>3. CASE x.form = "number"
    <3>1. ParseAction(x).side = CASE DeadZone \prec x.size -> "buy"
                                  [] x.size \prec <<-1, 20>> -> "sell"
                                  [] OTHER -> "hold"
      BY <2>3 DEF ParseAction, SignedAction, Order
    <3>2. QED
      BY <3>1 DEF Sides
  <2>4. QED
    BY <1>1, <2>1, <2>2, <2>3
<1>3. QED
  BY <1>1, <1>2, ParsedIsShare

-----------------------------------------------------------------------------
(* What a tick does to the account of a session.                           *)

\* A tick of a session costs what its fill costs, and never overdraws.
LEMMA TickIs ==
  ASSUME NEW a \in AccountType, Solvent(a), NEW p, IsPrice(p), NEW action \in Actions,
         NEW fill, fill \in {NoFill, SubmitOrder(Capped(action), p, Worth(a, p))}
  PROVE  LET out == ApplyFillSingle(a, fill, p)
         IN  Fair(a, out, p) /\ Solvent(out.acct)
<1> DEFINE order == Capped(action)
           out == ApplyFillSingle(a, fill, p)
<1>1. /\ order.side \in Sides /\ order.size \in Fraction /\ order.size \preceq RiskFraction
      /\ Worth(a, p) \in Fraction /\ Zero \preceq Worth(a, p)
  BY CappedIs, SolventWorth
<1> HIDE DEF order
<1>2. fill = NoFill \/ fill = SimulateFill(order, p, Worth(a, p))
  BY DEF SubmitOrder, order
<1>3. NoFill.status = "skipped"
  BY DEF NoFill
<1>4. /\ IsFill(fill, p)
      /\ fill.status = "filled" =>
           fill = SimulateFill(order, p, Worth(a, p)) /\ fill.side = order.side
  <2>1. CASE fill = NoFill
    BY <1>3, <2>1 DEF IsFill
  <2>2. CASE fill = SimulateFill(order, p, Worth(a, p))
    BY <1>1, <2>2, SimulateFillIs DEF Sides
  <2>3. QED
    BY <1>2, <2>1, <2>2
<1>5. /\ Fair(a, out, p) /\ Zero \preceq out.acct.qty
      /\ fill.side = "buy" /\ Zero \preceq a.cash => Zero \preceq out.acct.cash
      /\ \/ out = Untouched(a)
         \/ fill.status = "filled" /\ fill.side = "buy"
         \/ /\ fill.status = "filled" /\ fill.side = "sell" /\ Zero \prec fill.qty
            /\ out.acct = SellDown(a, Least(fill.qty, a.qty), fill.price, fill.fee)
  BY <1>4, ApplyFillIsFair DEF Solvent
<1>6. Zero \preceq out.acct.cash
  <2>1. CASE out = Untouched(a)
    BY <2>1 DEF Untouched, Outcome, Solvent
  <2>2. CASE fill.status = "filled" /\ fill.side = "buy"
    BY <1>5, <2>2 DEF Solvent
  <2>3. CASE /\ fill.status = "filled" /\ fill.side = "sell"
             /\ out.acct = SellDown(a, Least(fill.qty, a.qty), fill.price, fill.fee)
    <3>1. order.side = "sell" /\ fill = SimulateFill(order, p, Worth(a, p))
      BY <1>4, <2>3
    <3>2. Zero \preceq SellDown(a, Least(fill.qty, a.qty), fill.price, fill.fee).cash
      BY <1>1, <2>3, <3>1, SellIsCovered
    <3>3. QED
      BY <2>3, <3>2
  <2>4. QED
    BY <1>5, <2>1, <2>2, <2>3
<1>7. QED
  BY <1>5, <1>6 DEF Solvent

(* What a step of the futures environment does to its account. *)

\* The margin an account must keep is never negative.
LEMMA MarginIs ==
  ASSUME NEW a \in AccountType, NEW p, IsPrice(p)
  PROVE  MaintenanceRequirement(a, p) \in Fraction /\ Zero \preceq MaintenanceRequirement(a, p)
<1> DEFINE m == Magnitude(a.qty)
           n == m \otimes p
<1>1. m \in Fraction /\ Zero \preceq m /\ p \in Fraction /\ Zero \preceq p /\ Zero \in Fraction
  BY Fields, MagnitudeIs, Trichotomy, Constants DEF IsPrice
<1>2. n \in Fraction /\ Zero \preceq n
  BY <1>1, Products, Signs
<1> HIDE DEF n
<1>3. MaintenanceRequirement(a, p) = n \otimes Maintenance
  BY DEF MaintenanceRequirement, n
<1>4. QED
  BY <1>2, <1>3, Assumed, Products, Signs

-----------------------------------------------------------------------------
(* Bounds of the counters.                                                 *)

\* How far a pass gets, and how long a curve may grow when a session is
\* stopped again and again without a start between the stops.
BoundsOK ==
  /\ engine \in Engines /\ Len(closes) <= MaxBars /\ calls \in 0 .. MaxCalls
  /\ cursor \in 1 .. MaxBars + 1 /\ curve.points <= MaxPoints + MaxBars + 1
  /\ engine \in Sessions /\ phase = "replaying" =>
       cursor <= Ticks + 1 /\ curve.points + 1 <= MaxPoints + cursor
  /\ engine \in Environments \cup Bridges /\ phase = "running" => cursor \in 1 .. Len(closes)
  /\ engine = "vectorized" /\ phase = "replaying" =>
       /\ cursor = curve.points + 1 /\ cursor \in 2 .. Len(closes) + 1
       /\ trades < curve.points

\* The bounds are numbers.
LEMMA Bounded ==
  /\ MaxBars \in Nat /\ MaxPoints \in Nat /\ MaxCalls \in Nat /\ MaxEpisodes \in Nat
  /\ SessionBars \in Nat /\ SessionBars <= MaxBars /\ 1 <= MaxBars /\ MaxEpisodes <= MaxCalls
<1>1. QED
  BY TradingAssumption

\* A series has a bar, and no more than its bound.
LEMMA SeriesLengths ==
  ASSUME NEW longest \in Nat, NEW s \in Series(longest)
  PROVE  Len(s) \in 1 .. longest
<1>1. PICK n \in 1 .. longest : s \in [1 .. n -> Prices]
  BY DEF Series
<1>2. Len(s) = n
  BY <1>1
<1>3. QED
  BY <1>1, <1>2

\* BoundsOK holds initially.
LEMMA BoundsInit == Init => BoundsOK
<1> SUFFICES ASSUME Init PROVE BoundsOK
  OBVIOUS
<1>1. Len(closes) <= MaxBars
  <2>1. CASE engine \in Bridges \cup {"paper"}
    <3>1. closes \in Series(SessionBars)
      BY <2>1 DEF Init, Bridges
    <3>2. QED
      BY <3>1, Bounded, SeriesLengths
  <2>2. CASE engine = "live"
    <3>1. closes \in Series(SessionBars) \/ closes = <<>>
      BY <2>2 DEF Init, Bridges
    <3>2. QED
      BY <3>1, Bounded, SeriesLengths
  <2>3. CASE engine = "flow"
    <3>1. closes = <<>>
      BY <2>3 DEF Init, Bridges
    <3>2. QED
      BY <3>1, Bounded
  <2>4. CASE engine \notin Bridges \cup {"paper", "live", "flow"}
    <3>1. closes \in Series(MaxBars)
      BY <2>4 DEF Init, Bridges
    <3>2. QED
      BY <3>1, Bounded, SeriesLengths
  <2>5. QED
    BY <2>1, <2>2, <2>3, <2>4
<1>2. QED
  BY <1>1, Bounded DEF Init, BoundsOK, NoPoints

\* Every call is counted.
LEMMA CallsBounded ==
  ASSUME BoundsOK, Call
  PROVE  calls' \in 0 .. MaxCalls
<1>1. QED
  BY Bounded DEF BoundsOK, Call

\* A pass has a bar at least.
LEMMA TicksBounded ==
  ASSUME PassInv, BoundsOK
  PROVE  /\ Ticks \in Nat /\ 1 <= Ticks /\ Ticks <= MaxBars
         /\ Len(closes) \in Nat /\ closes # <<>> => Len(closes) >= 1
         /\ cursor \in Nat /\ curve.points \in Nat /\ trades \in Nat
<1>1. QED
  BY Bounded, TicksAre DEF PassInv, CountersOK, BoundsOK

\* Sessions keep BoundsOK.
LEMMA BoundsSessions ==
  PassInv /\ BoundsOK /\ (StartSession \/ StopSession \/ Tick \/ TickFails \/ FinishSession)
    => BoundsOK'
<1> SUFFICES ASSUME PassInv, BoundsOK,
                    StartSession \/ StopSession \/ Tick \/ TickFails \/ FinishSession
             PROVE  BoundsOK'
  OBVIOUS
<1>1. /\ engine \in Sessions /\ engine' = engine /\ closes' = closes /\ Ticks' = Ticks
      /\ engine \notin Environments \cup Bridges /\ engine # "vectorized"
  <2>1. engine \in Sessions /\ engine' = engine /\ closes' = closes
    BY DEF StartSession, StopSession, Tick, TickFails, FinishSession
  <2>2. QED
    BY <2>1 DEF Ticks, Sessions, Environments, Bridges
<1>2. calls' \in 0 .. MaxCalls
  <2>1. CASE StartSession
    BY <2>1, CallsBounded DEF StartSession
  <2>2. CASE StopSession
    BY <2>2, CallsBounded DEF StopSession
  <2>3. CASE Tick \/ TickFails \/ FinishSession
    BY <2>3 DEF Tick, TickFails, FinishSession, BoundsOK
  <2>4. QED
    BY <2>1, <2>2, <2>3
<1>3. /\ cursor' \in 1 .. MaxBars + 1 /\ curve'.points <= MaxPoints + MaxBars + 1
      /\ phase' = "replaying" =>
           cursor' <= Ticks + 1 /\ curve'.points + 1 <= MaxPoints + cursor'
  <2>1. CASE StartSession
    BY <2>1, Bounded DEF StartSession, NoPoints
  <2>2. CASE StopSession
    BY <2>2, Bounded, TicksBounded DEF StopSession
  <2>3. CASE Tick
    <3>1. PICK price \in TickPrices, action \in Actions : ProcessTick(price, action)
      BY <2>3 DEF Tick
    <3>2. curve'.points = curve.points + 1
      BY <3>1 DEF ProcessTick, Point
    <3>3. /\ cursor' = cursor + 1 /\ phase = "replaying" /\ cursor <= Ticks
      BY <2>3, TicksBounded DEF Tick, Replayed, Ticks
    <3>4. QED
      BY <1>1, <3>2, <3>3, Bounded, TicksBounded DEF BoundsOK
  <2>4. CASE TickFails
    BY <2>4 DEF TickFails, pass, BoundsOK
  <2>5. CASE FinishSession
    BY <2>5 DEF FinishSession, pass, BoundsOK
  <2>6. QED
    BY <2>1, <2>2, <2>3, <2>4, <2>5
<1>4. QED
  BY <1>1, <1>2, <1>3 DEF BoundsOK

\* Backtests keep BoundsOK.
LEMMA BoundsBacktests ==
  PassInv /\ BoundsOK
    /\ (StartBacktest \/ BacktestBar \/ StartVectorized \/ VectorizedBar \/ FinishBacktest)
    => BoundsOK'
<1> SUFFICES ASSUME PassInv, BoundsOK,
                    \/ StartBacktest \/ BacktestBar
                    \/ StartVectorized \/ VectorizedBar \/ FinishBacktest
             PROVE  BoundsOK'
  OBVIOUS
<1>1. /\ engine \in {"event_driven", "vectorized"} /\ engine' = engine /\ closes' = closes
      /\ engine \notin Environments \cup Bridges /\ engine \notin Sessions
      /\ closes # <<>> /\ Len(closes) >= 1
  <2>1. engine \in {"event_driven", "vectorized"} /\ engine' = engine /\ closes' = closes
    BY DEF StartBacktest, BacktestBar, StartVectorized, VectorizedBar, FinishBacktest
  <2>2. QED
    BY <2>1, TicksBounded DEF Sessions, Environments, Bridges, PassInv, CountersOK
<1>2. calls' \in 0 .. MaxCalls
  <2>1. CASE StartBacktest
    BY <2>1, CallsBounded DEF StartBacktest
  <2>2. CASE StartVectorized
    BY <2>2, CallsBounded DEF StartVectorized
  <2>3. CASE BacktestBar \/ VectorizedBar \/ FinishBacktest
    BY <2>3 DEF BacktestBar, VectorizedBar, FinishBacktest, BoundsOK
  <2>4. QED
    BY <2>1, <2>2, <2>3
<1>3. /\ cursor' \in 1 .. MaxBars + 1 /\ curve'.points <= MaxPoints + MaxBars + 1
      /\ engine = "vectorized" /\ phase' = "replaying" =>
           /\ cursor' = curve'.points + 1 /\ cursor' \in 2 .. Len(closes) + 1
           /\ trades' < curve'.points
  <2>1. CASE StartBacktest
    BY <2>1, Bounded DEF StartBacktest, NoPoints, Point
  <2>2. CASE BacktestBar
    <3>1. /\ engine = "event_driven" /\ phase = "replaying" /\ cursor' = cursor + 1
          /\ cursor <= Len(closes) /\ curve'.points = curve.points + 1
      BY <2>2 DEF BacktestBar, Point
    <3>2. cursor = curve.points
      BY <3>1 DEF PassInv, BacktestOK
    <3>3. QED
      BY <3>1, <3>2, Bounded, TicksBounded DEF BoundsOK
  <2>3. CASE StartVectorized
    BY <1>1, <2>3, Bounded, TicksBounded DEF StartVectorized, NoPoints, Point
  <2>4. CASE VectorizedBar
    <3>1. /\ engine = "vectorized" /\ phase = "replaying" /\ cursor' = cursor + 1
          /\ cursor <= Len(closes) /\ curve'.points = curve.points + 1
          /\ trades' = trades \/ trades' = trades + 1
      BY <2>4 DEF VectorizedBar, Point
    <3>2. QED
      BY <3>1, Bounded, TicksBounded DEF BoundsOK
  <2>5. CASE FinishBacktest
    BY <2>5 DEF FinishBacktest, pass, BoundsOK
  <2>6. QED
    BY <2>1, <2>2, <2>3, <2>4, <2>5
<1>4. QED
  BY <1>1, <1>2, <1>3 DEF BoundsOK

\* Environments and the order flow keep BoundsOK.
LEMMA BoundsOthers ==
  PassInv /\ BoundsOK
    /\ (ResetEnvironment \/ StepEnvironment \/ StepBridge \/ PriceArrives \/ ProcessOrder)
    => BoundsOK'
<1> SUFFICES ASSUME PassInv, BoundsOK,
                    \/ ResetEnvironment \/ StepEnvironment \/ StepBridge
                    \/ PriceArrives \/ ProcessOrder
             PROVE  BoundsOK'
  OBVIOUS
<1>1. /\ engine \in Environments \cup Bridges \cup {"flow"}
      /\ engine' = engine /\ closes' = closes /\ curve' = curve
      /\ engine \notin Sessions /\ engine # "vectorized"
  <2>1. /\ engine \in Environments \cup Bridges \cup {"flow"}
        /\ engine' = engine /\ closes' = closes /\ curve' = curve
    <3>1. CASE ResetEnvironment
      BY <3>1 DEF ResetEnvironment
    <3>2. CASE StepEnvironment
      BY <3>2 DEF StepEnvironment
    <3>3. CASE StepBridge
      BY <3>3 DEF StepBridge
    <3>4. CASE PriceArrives
      BY <3>4 DEF PriceArrives, pass
    <3>5. CASE ProcessOrder
      BY <3>5 DEF ProcessOrder
    <3>6. QED
      BY <3>1, <3>2, <3>3, <3>4, <3>5
  <2>2. QED
    BY <2>1 DEF Sessions, Environments, Bridges
<1>2. calls' \in 0 .. MaxCalls
  <2>1. CASE ResetEnvironment
    BY <2>1, CallsBounded DEF ResetEnvironment
  <2>2. CASE PriceArrives
    BY <2>2, CallsBounded DEF PriceArrives
  <2>3. CASE ProcessOrder
    BY <2>3, CallsBounded DEF ProcessOrder
  <2>4. CASE StepEnvironment
    BY <2>4 DEF StepEnvironment, BoundsOK
  <2>5. CASE StepBridge
    BY <2>5 DEF StepBridge, BoundsOK
  <2>6. QED
    BY <2>1, <2>2, <2>3, <2>4, <2>5
<1>3. engine # "flow" => Len(closes) >= 1 /\ engine \notin {"live"}
  BY <1>1, TicksBounded DEF PassInv, CountersOK, Environments, Bridges
<1>4. /\ cursor' \in 1 .. MaxBars + 1
      /\ engine \in Environments \cup Bridges /\ phase' = "running" =>
           cursor' \in 1 .. Len(closes)
  <2>1. CASE ResetEnvironment
    BY <1>3, <2>1, Bounded, TicksBounded DEF ResetEnvironment, Environments, Bridges
  <2>2. CASE PriceArrives \/ ProcessOrder
    <3>1. engine = "flow" /\ cursor' = cursor
      BY <2>2 DEF PriceArrives, ProcessOrder, pass
    <3>2. QED
      BY <3>1 DEF BoundsOK, Environments, Bridges
  <2>3. CASE StepEnvironment
    <3>1. /\ engine \in Environments \cup Bridges /\ phase = "running" /\ cursor' = cursor + 1
      BY <2>3 DEF StepEnvironment
    <3>2. phase' = "running" => cursor + 1 < Len(closes)
      <4>1. \E broken \in BOOLEAN :
              phase' = IF broken \/ cursor + 1 >= Len(closes) THEN "done" ELSE "running"
        BY <2>3 DEF StepEnvironment
      <4>2. QED
        BY <4>1, TicksBounded
    <3>3. QED
      BY <3>1, <3>2, Bounded, TicksBounded DEF BoundsOK
  <2>4. CASE StepBridge
    <3>1. /\ engine \in Environments \cup Bridges /\ phase = "running"
          /\ \/ cursor = Len(closes) /\ phase' = "done" /\ cursor' = cursor
             \/ cursor # Len(closes) /\ cursor' = cursor + 1
      BY <2>4 DEF StepBridge
    <3>2. QED
      BY <3>1, Bounded, TicksBounded DEF BoundsOK
  <2>5. QED
    BY <2>1, <2>2, <2>3, <2>4
<1>5. QED
  BY <1>1, <1>2, <1>4 DEF BoundsOK

\* Stuttering keeps BoundsOK.
LEMMA BoundsStutter == BoundsOK /\ UNCHANGED vars => BoundsOK'
<1>1. QED
  BY DEF BoundsOK, vars, pass, Ticks

-----------------------------------------------------------------------------
(* The books of whoever trades.                                            *)

\* What the order flow remembers of the last order it filled.
StateOK(state) ==
  state # None =>
    /\ state.equity \in Fraction
    /\ Zero \preceq state.equity /\ state.equity \preceq InitialCash
ContextOK ==
  \E state, result : \E price \in Prices \cup {Zero} :
    context = [price |-> price, state |-> state, result |-> result] /\ StateOK(state)

\* Spot books are solvent; the RL tracker owes no more than it has paid; the
\* cash of the futures environment is what keeps its fees positive.
BooksOK ==
  /\ acct \in AccountType /\ mark \in Fraction /\ paid \in Fraction
  /\ ticker \in Prices \cup {Zero} /\ ContextOK
  /\ engine \notin Leveraged \cup Bridges => Solvent(acct)
  /\ engine = "rl_spot" =>
       /\ Zero \preceq acct.qty /\ Zero \preceq paid
       /\ Zero \preceq (acct.cash \oplus paid)
  /\ engine = "futures" /\ ~MisbookedOrders => Zero \preceq acct.cash

\* Every bar closes at a price.
LEMMA PricesAre ==
  ASSUME PassInv
  PROVE  /\ \A p \in Prices : IsPrice(p)
         /\ \A i \in 1 .. Len(closes) : closes[i] \in Prices /\ IsPrice(closes[i])
         /\ Zero \in Fraction
<1>1. closes \in Seq(Prices)
  BY DEF PassInv, CountersOK
<1>2. QED
  BY <1>1, TradingAssumption, Constants DEF IsPrice

\* A tick books a fair outcome at a price, in the broker and in the portfolio.
LEMMA TickOutcome ==
  ASSUME PassInv, BoundsOK, BooksOK, Tick
  PROVE  /\ engine \in Sessions /\ engine' = engine
         /\ UNCHANGED context /\ ticker' \in Prices \cup {Zero}
         /\ \E price, out : /\ IsPrice(price) /\ Fair(acct, out, price) /\ Solvent(out.acct)
                            /\ Book(out, price)
<1>1. engine \in Sessions /\ engine' = engine /\ UNCHANGED context /\ ~Replayed
  BY DEF Tick
<1>2. PICK price \in TickPrices, action \in Actions :
        /\ ProcessTick(price, action)
        /\ ticker' = IF engine = "live" /\ closes # <<>> THEN price ELSE ticker
  BY DEF Tick
<1>3. acct \in AccountType /\ Solvent(acct) /\ ticker \in Prices \cup {Zero}
  BY <1>1 DEF BooksOK, Sessions, Leveraged, Bridges
<1>4. price \in Prices
  <2>1. CASE engine = "paper"
    <3>1. closes # <<>> /\ price = closes[cursor] /\ cursor \in Nat /\ cursor >= 1
      BY <1>2, <2>1 DEF TickPrices, PassInv, CountersOK, BoundsOK
    <3>2. cursor <= Ticks /\ Ticks = Len(closes)
      BY <1>1, <3>1, TicksAre, TicksBounded DEF Replayed, Ticks, PassInv, CountersOK
    <3>3. cursor \in 1 .. Len(closes)
      BY <3>1, <3>2, TicksBounded
    <3>4. QED
      BY <3>1, <3>3, PricesAre
  <2>2. CASE engine = "live" /\ closes # <<>>
    BY <1>2, <2>2 DEF TickPrices
  <2>3. CASE engine # "paper" /\ ~ (engine = "live" /\ closes # <<>>)
    <3>1. price \in IF ticker = Zero THEN Prices ELSE {ticker}
      BY <1>2, <2>3 DEF TickPrices
    <3>2. QED
      BY <1>3, <3>1
  <2>4. QED
    BY <2>1, <2>2, <2>3
<1>5. IsPrice(price)
  BY <1>4, PricesAre
<1> DEFINE fill == IF action.side # "hold" /\ Zero \prec action.size
                   THEN SubmitOrder(Capped(action), price, Worth(acct, price)) ELSE NoFill
           out == ApplyFillSingle(acct, fill, price)
<1>6. Book(out, price)
  BY <1>2 DEF ProcessTick, PortfolioState
<1>7. fill \in {NoFill, SubmitOrder(Capped(action), price, Worth(acct, price))}
  OBVIOUS
<1> HIDE DEF fill
<1>8. Fair(acct, out, price) /\ Solvent(out.acct)
  BY <1>3, <1>5, <1>7, TickIs
<1> HIDE DEF out
<1>9. QED
  BY <1>1, <1>2, <1>3, <1>4, <1>5, <1>6, <1>8

\* So does a bar of the event-driven backtest.
LEMMA BacktestOutcome ==
  ASSUME PassInv, BoundsOK, BooksOK, BacktestBar
  PROVE  /\ engine = "event_driven" /\ engine' = engine /\ UNCHANGED <<context, ticker>>
         /\ \E price, out : /\ IsPrice(price) /\ Fair(acct, out, price) /\ Solvent(out.acct)
                            /\ Book(out, price)
<1>1. /\ engine = "event_driven" /\ engine' = engine /\ UNCHANGED <<context, ticker>>
      /\ cursor <= Len(closes)
  BY DEF BacktestBar
<1> DEFINE price == closes[cursor]
<1>2. PICK action \in Inputs : Book(BacktestExecute(acct, action, price), price)
  BY DEF BacktestBar
<1>3. acct \in AccountType /\ Solvent(acct)
  BY <1>1 DEF BooksOK, Leveraged, Bridges
<1>4. IsPrice(price)
  BY <1>1, PricesAre, TicksBounded DEF BoundsOK
<1> HIDE DEF price
<1> DEFINE order == ParseAction(action)
           out == BacktestExecute(acct, action, price)
<1>5. order.side \in Sides /\ IsShare(order.size)
  BY InputsAre
<1>6. out = Untouched(acct) \/ out = SpotExecute(acct, order.side, order.size, price)
  BY DEF BacktestExecute
<1> HIDE DEF order, out
<1>7. Fair(acct, out, price) /\ Solvent(out.acct)
  <2>1. CASE out = Untouched(acct)
    <3>1. Untouched(acct).acct = acct
      BY DEF Untouched, Outcome
    <3>2. QED
      BY <1>3, <1>4, <2>1, <3>1, UntouchedIsFair DEF IsPrice
  <2>2. CASE out = SpotExecute(acct, order.side, order.size, price)
    BY <1>3, <1>4, <1>5, <2>2, SpotExecuteIsFair
  <2>3. QED
    BY <1>6, <2>1, <2>2
<1>8. QED
  BY <1>1, <1>2, <1>4, <1>7 DEF out

-----------------------------------------------------------------------------
(* A step of an environment.                                               *)

Stepped(out, price, broken) ==
  LET worth == Valued(out.acct, price)
  IN  /\ acct' = IF broken THEN Liquidated(out.acct, worth) ELSE out.acct
      /\ mark' = price /\ paid' = paid \oplus out.cost
      /\ rewards' = [rewards EXCEPT !.prev = worth, !.earned = @ \oplus (worth \ominus rewards.prev)]

\* A worth above the margin an account must keep is positive.
LEMMA AboveMargin ==
  ASSUME NEW a \in AccountType, NEW p, IsPrice(p),
         ~ (FuturesWorth(a, p) \preceq MaintenanceRequirement(a, p))
  PROVE  Zero \preceq FuturesWorth(a, p)
<1> DEFINE w == FuturesWorth(a, p)
           m == MaintenanceRequirement(a, p)
<1>1. w \in Fraction /\ m \in Fraction /\ Zero \preceq m /\ Zero \in Fraction
  BY MarginIs, FuturesWorthIs, Constants DEF IsPrice
<1>2. ~ (w \preceq m)
  OBVIOUS
<1> HIDE DEF w, m
<1>3. m \preceq w
  BY <1>1, <1>2, Trichotomy
<1>4. Zero \preceq w
  BY <1>1, <1>3, Ordered
<1>5. QED
  BY <1>4 DEF w

\* A step of the spot or the futures environment: fair, unless the futures books
\* get the order wrong; below the margin the account is liquidated.
LEMMA EnvironmentStepIs ==
  ASSUME PassInv, BoundsOK, BooksOK, StepEnvironment
  PROVE  /\ engine \in Environments /\ engine' = engine /\ UNCHANGED <<context, ticker>>
         /\ \E price, out : \E broken \in BOOLEAN :
              /\ IsPrice(price) /\ Types(out) /\ Stepped(out, price, broken)
              /\ engine = "spot" => ~broken /\ Fair(acct, out, price) /\ Solvent(out.acct)
              /\ engine = "futures" /\ ~MisbookedOrders =>
                   FairFutures(acct, out, price) /\ (broken \/ Zero \preceq out.acct.cash)
<1>1. /\ engine \in Environments /\ engine' = engine /\ UNCHANGED <<context, ticker>>
      /\ phase = "running"
  BY DEF StepEnvironment
<1> DEFINE price == closes[cursor]
<1>2. IsPrice(price)
  BY <1>1, PricesAre DEF BoundsOK
<1>3. PICK input \in Inputs :
        LET order  == ParseAction(input)
            out    == EnvironmentOutcome(order, price)
            worth  == Valued(out.acct, price)
            broken == /\ engine = "futures"
                      /\ worth \preceq MaintenanceRequirement(out.acct, price)
        IN  /\ engine = "futures" => MisbookedOrders \/ ~Misbooked(order, price)
            /\ acct' = IF broken THEN Liquidated(out.acct, worth) ELSE out.acct
            /\ mark' = price /\ paid' = paid \oplus out.cost
            /\ rewards' = [rewards EXCEPT !.prev = worth,
                                          !.earned = @ \oplus (worth \ominus rewards.prev)]
  BY DEF StepEnvironment
<1> HIDE DEF price
<1> DEFINE order == ParseAction(input)
           out == EnvironmentOutcome(order, price)
           broken == /\ engine = "futures"
                     /\ Valued(out.acct, price) \preceq MaintenanceRequirement(out.acct, price)
<1>4. order.side \in Sides /\ IsShare(order.size)
  BY InputsAre
<1>5. Stepped(out, price, broken) /\ broken \in BOOLEAN
  BY <1>3 DEF Stepped
<1>6. engine = "futures" => MisbookedOrders \/ ~Misbooked(order, price)
  BY <1>3
<1>7. acct \in AccountType /\ (engine = "spot" => Solvent(acct))
      /\ (engine = "futures" /\ ~MisbookedOrders => Zero \preceq acct.cash)
  BY DEF BooksOK, Leveraged, Bridges
<1> HIDE DEF order
<1>8. CASE engine = "spot"
  <2>1. out = Untouched(acct) \/ out = SpotExecute(acct, order.side, order.size, price)
    BY <1>8 DEF EnvironmentOutcome
  <2>2. ~broken
    BY <1>8
  <2> HIDE DEF out, broken
  <2>3. Fair(acct, out, price) /\ Solvent(out.acct)
    <3>1. CASE out = Untouched(acct)
      <4>1. Untouched(acct).acct = acct
        BY DEF Untouched, Outcome
      <4>2. QED
        BY <1>2, <1>7, <1>8, <3>1, <4>1, UntouchedIsFair DEF IsPrice
    <3>2. CASE out = SpotExecute(acct, order.side, order.size, price)
      BY <1>2, <1>4, <1>7, <1>8, <3>2, SpotExecuteIsFair
    <3>3. QED
      BY <2>1, <3>1, <3>2
  <2>4. QED
    BY <1>1, <1>2, <1>5, <1>8, <2>2, <2>3 DEF Fair
<1>9. CASE engine = "futures"
  <2>1. out = FuturesExecute(acct, order.side, order.size, price)
    BY <1>9 DEF EnvironmentOutcome
  <2>2. broken <=> FuturesWorth(out.acct, price) \preceq MaintenanceRequirement(out.acct, price)
    BY <1>9 DEF Valued, Leveraged
  <2>3. Misbooked(order, price) <=> WrongFor(acct, order.side, FuturesUnits(acct, order.size, price))
    BY DEF Misbooked, WrongFor
  <2> HIDE DEF out, broken
  <2>4. Types(out)
    BY <1>2, <1>4, <1>7, <2>1, FuturesExecuteTypes DEF Sides
  <2>5. ASSUME ~MisbookedOrders
        PROVE  FairFutures(acct, out, price) /\ (broken \/ Zero \preceq out.acct.cash)
    <3>1. /\ FairFutures(acct, out, price)
          /\ Zero \preceq FuturesWorth(out.acct, price) => Zero \preceq out.acct.cash
      BY <1>2, <1>4, <1>6, <1>7, <1>9, <2>1, <2>3, <2>5, FuturesExecuteIsFair DEF Sides
    <3>2. out.acct \in AccountType
      BY <2>4 DEF Types
    <3>3. broken \/ Zero \preceq FuturesWorth(out.acct, price)
      BY <1>2, <2>2, <3>2, AboveMargin
    <3>4. QED
      BY <3>1, <3>3
  <2>6. QED
    BY <1>1, <1>2, <1>5, <1>9, <2>4, <2>5
<1>10. QED
  BY <1>1, <1>8, <1>9 DEF Environments

(* A step of the RL bridge. *)

Rewarded(out, price, hint) ==
  LET worth == Valued(out.acct, price)
      gain == worth \ominus rewards.prev
      peak == Greatest(rewards.peak, worth)
  IN  rewards' = [prev |-> worth, earned |-> rewards.earned \oplus gain, peak |-> peak,
                  gain |-> gain, given |-> StepReward(gain, Drawdown(peak, worth), hint)]

\* A step of the RL environment is fair in both markets; in the spot market only the
\* costs can take the cash below zero.
LEMMA BridgeStepIs ==
  ASSUME PassInv, BoundsOK, BooksOK, StepBridge
  PROVE  /\ engine \in Bridges /\ engine' = engine /\ UNCHANGED <<context, ticker>>
         /\ \E price, out : \E hint \in {Zero, Half} :
              /\ IsPrice(price) /\ Types(out) /\ Zero \preceq out.cost
              /\ Book(out, price) /\ Rewarded(out, price, hint)
              /\ engine = "rl_spot" =>
                   /\ Fair(acct, out, price) /\ Zero \preceq out.acct.qty
                   /\ Zero \preceq (out.acct.cash \oplus (paid \oplus out.cost))
              /\ engine = "rl_futures" => FairFutures(acct, out, price)
<1>1. /\ engine \in Bridges /\ engine' = engine /\ UNCHANGED <<context, ticker>>
      /\ phase = "running"
  BY DEF StepBridge
<1> DEFINE price == closes[cursor]
<1>2. IsPrice(price)
  BY <1>1, PricesAre DEF BoundsOK
<1>3. PICK target \in Targets, hint \in {Zero, Half} :
        LET fill  == SimulateTarget(Market, acct, ClipTarget(Market, target), price)
            out   == TrackerApply(Market, acct, fill, price)
        IN  Book(out, price) /\ Rewarded(out, price, hint)
  BY DEF StepBridge, Rewarded
<1> HIDE DEF price
<1> DEFINE goal == ClipTarget(Market, target)
           fill == SimulateTarget(Market, acct, goal, price)
           out == TrackerApply(Market, acct, fill, price)
<1>4. Book(out, price) /\ Rewarded(out, price, hint)
  BY <1>3
<1>5. Market \in {"spot", "futures"} /\ (engine = "rl_spot" <=> Market = "spot")
      /\ (engine = "rl_futures" => Market = "futures")
  BY <1>1 DEF Market, Bridges
<1>6. goal \in Fraction
  BY TargetsAre, ClipTargetIs
<1>7. /\ acct \in AccountType /\ paid \in Fraction
      /\ engine = "rl_spot" => /\ Zero \preceq acct.qty /\ Zero \preceq paid
                               /\ Zero \preceq (acct.cash \oplus paid)
  BY DEF BooksOK
<1> HIDE DEF goal
<1>8. IsMove(fill, price)
      /\ (Market = "spot" /\ Zero \prec fill.units =>
            (fill.units \otimes fill.price) \preceq acct.cash)
  BY <1>2, <1>5, <1>6, <1>7, SimulateTargetIs DEF IsMove
<1> HIDE DEF fill
<1>9. CASE engine = "rl_spot"
  <2>1. Market = "spot" /\ out = TrackerApply("spot", acct, fill, price)
    BY <1>5, <1>9
  <2> HIDE DEF out
  <2>2. /\ Fair(acct, out, price) /\ Zero \preceq out.acct.qty
        /\ Zero \preceq (out.acct.cash \oplus (paid \oplus out.cost))
    BY <1>2, <1>7, <1>8, <1>9, <2>1, TrackerSpotIsFair
  <2>3. QED
    BY <1>1, <1>2, <1>4, <1>9, <2>2 DEF Fair, out
<1>10. CASE engine = "rl_futures"
  <2>1. out = TrackerApply("futures", acct, fill, price)
    BY <1>5, <1>10
  <2> HIDE DEF out
  <2>2. FairFutures(acct, out, price)
    BY <1>2, <1>7, <1>8, <2>1, TrackerFuturesIsFair
  <2>3. QED
    BY <1>1, <1>2, <1>4, <1>10, <2>2 DEF FairFutures, out
<1>11. QED
  BY <1>1, <1>9, <1>10 DEF Bridges

-----------------------------------------------------------------------------
(* An order of the order flow.                                             *)

\* The envelopes of the order flow keep their shape.
LEMMA ContextIs ==
  ASSUME ContextOK
  PROVE  /\ context = [price |-> context.price, state |-> context.state, result |-> context.result]
         /\ context.price \in Prices \cup {Zero} /\ StateOK(context.state)
         /\ Known.equity \in Fraction /\ Zero \preceq Known.equity
         /\ Known.equity \preceq InitialCash
<1>1. PICK state, result : \E price \in Prices \cup {Zero} :
        context = [price |-> price, state |-> state, result |-> result] /\ StateOK(state)
  BY DEF ContextOK
<1>2. /\ context.price \in Prices \cup {Zero} /\ context.state = state /\ context.result = result
      /\ context = [price |-> context.price, state |-> state, result |-> result]
  BY <1>1
<1>3. FreshState.equity = InitialCash /\ InitialCash \in Fraction
      /\ Zero \preceq InitialCash /\ InitialCash \preceq InitialCash
  BY FreshStateIs, Assumed, Constants, Trichotomy
<1>4. CASE state = None
  BY <1>1, <1>2, <1>3, <1>4 DEF Known
<1>5. CASE state # None
  BY <1>1, <1>2, <1>5 DEF Known, StateOK
<1>6. QED
  BY <1>4, <1>5, <1>1, <1>2

\* An order of the flow, traded or refused, leaves a solvent portfolio.
LEMMA OrderIs ==
  ASSUME PassInv, BooksOK, ProcessOrder
  PROVE  /\ acct' \in AccountType /\ mark' \in Fraction /\ paid' \in Fraction
         /\ Solvent(acct') /\ ContextOK' /\ ticker' = ticker
         /\ engine = "flow" /\ engine' = engine
<1>1. engine = "flow" /\ engine' = engine /\ ticker' = ticker /\ context.price # Zero
  BY DEF ProcessOrder
<1> DEFINE price == context.price
<1>2. PICK side \in {"buy", "sell", "hold"}, risks \in (SUBSET Risks) \ {{}}, stats \in Stats,
           apply \in {"single_asset", "multi_asset"} :
        LET order == Order(side, CompositeSize(risks, Known, stats))
            fill  == SimulateFill(order, price, Known.equity)
            out   == IF apply = "single_asset" THEN ApplyFillSingle(Fresh, fill, price)
                     ELSE ApplyFillMulti(Fresh, fill, price)
        IN  IF CompositeCheck(risks, order, Known, stats)
            THEN /\ Book([out EXCEPT !.cost = out.cost \ominus paid], price)
                 /\ trades' = IF fill.status = "filled" THEN trades + 1 ELSE trades
                 /\ context' = [context EXCEPT !.state = PortfolioState(out.acct, price),
                                               !.result = fill]
            ELSE /\ context' = [context EXCEPT !.result = [status |-> "rejected"]]
                 /\ UNCHANGED <<book, trades>>
  BY DEF ProcessOrder
<1> DEFINE order == Order(side, CompositeSize(risks, Known, stats))
           fill == SimulateFill(order, price, Known.equity)
           out == IF apply = "single_asset" THEN ApplyFillSingle(Fresh, fill, price)
                  ELSE ApplyFillMulti(Fresh, fill, price)
<1>3. /\ acct \in AccountType /\ mark \in Fraction /\ paid \in Fraction /\ ContextOK
      /\ Solvent(acct)
  BY <1>1 DEF BooksOK, Leveraged, Bridges
<1>4. /\ context = [price |-> context.price, state |-> context.state, result |-> context.result]
      /\ price \in Prices /\ StateOK(context.state)
      /\ Known.equity \in Fraction /\ Zero \preceq Known.equity /\ Known.equity \preceq InitialCash
  BY <1>1, <1>3, ContextIs
<1>5. IsPrice(price)
  BY <1>4, PricesAre
<1>6. order.side \in {"buy", "sell", "hold"} /\ order.size \in Fraction /\ order.size \preceq One
  BY <1>4, CompositeSizeIs DEF Order
<1>7. \/ /\ Book([out EXCEPT !.cost = out.cost \ominus paid], price)
         /\ context' = [context EXCEPT !.state = PortfolioState(out.acct, price), !.result = fill]
      \/ /\ context' = [context EXCEPT !.result = [status |-> "rejected"]]
         /\ UNCHANGED <<book, trades>>
  BY <1>2
<1>8. out \in {ApplyFillSingle(Fresh, fill, price), ApplyFillMulti(Fresh, fill, price)}
  OBVIOUS
<1>9. fill = SimulateFill(order, price, Known.equity)
  OBVIOUS
<1> HIDE DEF order, fill, out, price
<1>10. /\ Fair(Fresh, out, price) /\ Solvent(out.acct)
       /\ Worth(out.acct, price) \in Fraction
       /\ Zero \preceq Worth(out.acct, price) /\ Worth(out.acct, price) \preceq InitialCash
  BY <1>4, <1>5, <1>6, <1>8, <1>9, FlowIsFair
<1>11. CASE /\ Book([out EXCEPT !.cost = out.cost \ominus paid], price)
            /\ context' = [context EXCEPT !.state = PortfolioState(out.acct, price), !.result = fill]
  <2>1. out \in [acct : AccountType, cost : Fraction, traded : BOOLEAN]
    BY <1>10 DEF Fair, Types
  <2>2. /\ out.cost \ominus paid \in Fraction /\ out.acct \in AccountType
        /\ paid \oplus (out.cost \ominus paid) \in Fraction
    BY <1>3, <2>1, Sums
  <2>3. acct' = out.acct /\ mark' = price /\ paid' = paid \oplus (out.cost \ominus paid)
    BY <1>11, <2>1 DEF Book
  <2>4. context' = [price |-> context.price, state |-> PortfolioState(out.acct, price),
                    result |-> fill]
    BY <1>4, <1>11
  <2>5. StateOK(PortfolioState(out.acct, price))
    BY <1>10 DEF StateOK, PortfolioState
  <2>6. ContextOK'
    BY <1>4, <2>4, <2>5 DEF ContextOK, StateOK, price
  <2>7. QED
    BY <1>1, <1>5, <1>10, <2>2, <2>3, <2>6 DEF IsPrice
<1>12. CASE /\ context' = [context EXCEPT !.result = [status |-> "rejected"]]
            /\ UNCHANGED <<book, trades>>
  <2>1. context' = [price |-> context.price, state |-> context.state,
                    result |-> [status |-> "rejected"]]
    BY <1>4, <1>12
  <2>2. ContextOK'
    BY <1>4, <2>1 DEF ContextOK, StateOK, price
  <2>3. QED
    BY <1>1, <1>3, <1>12, <2>2 DEF book
<1>13. QED
  BY <1>7, <1>11, <1>12

(* The books stay in order. *)

\* BooksOK holds initially.
LEMMA BooksInit == Init => BooksOK
<1> SUFFICES ASSUME Init PROVE BooksOK
  OBVIOUS
<1>1. /\ acct = Fresh /\ mark = Zero /\ paid = Zero /\ ticker = Zero
      /\ context = [price |-> Zero, state |-> None, result |-> None]
  BY DEF Init
<1>2. /\ Zero \in Fraction /\ Fresh \in AccountType /\ Solvent(Fresh) /\ Fresh.cash \in Fraction
      /\ Zero \preceq Zero
  BY FreshIs, Constants, Trichotomy DEF AccountType
<1>3. Zero \preceq (Fresh.cash \oplus Zero)
  BY <1>2, NonNegative DEF Solvent
<1>4. ContextOK
  BY <1>1 DEF ContextOK, StateOK
<1>5. QED
  BY <1>1, <1>2, <1>3, <1>4 DEF BooksOK, Solvent

\* Opening an account anew sets the books right.
LEMMA BooksReopened ==
  ASSUME BooksOK, Reopen, engine' = engine, ticker' \in Prices \cup {Zero}, UNCHANGED context
  PROVE  BooksOK'
<1>1. acct' = Fresh /\ mark' = Zero /\ paid' = Zero
  BY DEF Reopen
<1>2. /\ Zero \in Fraction /\ Fresh \in AccountType /\ Solvent(Fresh) /\ Fresh.cash \in Fraction
      /\ Zero \preceq Zero
  BY FreshIs, Constants, Trichotomy DEF AccountType
<1>3. Zero \preceq (Fresh.cash \oplus Zero)
  BY <1>2, NonNegative DEF Solvent
<1>4. ContextOK'
  BY DEF BooksOK, ContextOK, StateOK
<1>5. QED
  BY <1>1, <1>2, <1>3, <1>4 DEF BooksOK, Solvent

\* The accounts of a session and of the event-driven backtest are solvent.
LEMMA BooksKept ==
  ASSUME BooksOK, engine' = engine, engine \notin Leveraged \cup Bridges,
         ticker' \in Prices \cup {Zero}, UNCHANGED context,
         NEW price, IsPrice(price), NEW out, Fair(acct, out, price), Solvent(out.acct),
         Book(out, price)
  PROVE  BooksOK'
<1>1. /\ acct \in AccountType /\ paid \in Fraction
      /\ out.acct \in AccountType /\ out.cost \in Fraction
  BY DEF BooksOK, Fair, Types
<1>2. acct' = out.acct /\ mark' = price /\ paid' = paid \oplus out.cost
  BY DEF Book
<1>3. paid' \in Fraction
  BY <1>1, <1>2, Sums
<1>4. ContextOK'
  BY DEF BooksOK, ContextOK, StateOK
<1>5. QED
  BY <1>1, <1>2, <1>3, <1>4 DEF BooksOK, IsPrice, Solvent, Leveraged, Bridges

-----------------------------------------------------------------------------
(* The books, whatever is done.                                            *)

\* Sessions keep BooksOK.
LEMMA BooksSessions ==
  PassInv /\ BoundsOK /\ BooksOK
    /\ (StartSession \/ StopSession \/ Tick \/ TickFails \/ FinishSession)
    => BooksOK'
<1> SUFFICES ASSUME PassInv, BoundsOK, BooksOK,
                    StartSession \/ StopSession \/ Tick \/ TickFails \/ FinishSession
             PROVE  BooksOK'
  OBVIOUS
<1>1. CASE StartSession
  <2>1. ticker' \in Prices \cup {Zero}
    BY <1>1 DEF StartSession
  <2>2. QED
    BY <1>1, <2>1, BooksReopened DEF StartSession
<1>2. CASE StopSession
  BY <1>2 DEF StopSession, BooksOK, book, ContextOK, StateOK
<1>3. CASE Tick
  <2>1. /\ engine \in Sessions /\ engine' = engine
        /\ UNCHANGED context /\ ticker' \in Prices \cup {Zero}
        /\ \E price, out : /\ IsPrice(price) /\ Fair(acct, out, price) /\ Solvent(out.acct)
                           /\ Book(out, price)
    BY <1>3, TickOutcome
  <2>2. engine \notin Leveraged \cup Bridges
    BY <2>1 DEF Sessions, Leveraged, Bridges
  <2>3. QED
    BY <2>1, <2>2, BooksKept
<1>4. CASE TickFails
  BY <1>4 DEF TickFails, BooksOK, book, ContextOK, StateOK
<1>5. CASE FinishSession
  <2>1. FinalPrice \in Fraction
    <3>1. CASE closes # <<>>
      <4>1. Len(closes) \in 1 .. Len(closes)
        BY <3>1, TicksBounded
      <4>2. QED
        BY <3>1, <4>1, PricesAre DEF FinalPrice, IsPrice
    <3>2. CASE closes = <<>>
      BY <3>2, PricesAre DEF FinalPrice, BooksOK, IsPrice
    <3>3. QED
      BY <3>1, <3>2
  <2>2. /\ engine' = engine /\ acct' = acct /\ mark' = FinalPrice /\ paid' = paid
        /\ ticker' = ticker /\ context' = context
    BY <1>5 DEF FinishSession
  <2>3. QED
    BY <2>1, <2>2 DEF BooksOK, ContextOK, StateOK
<1>6. QED
  BY <1>1, <1>2, <1>3, <1>4, <1>5

\* The vectorized backtest holds a weight of what its account is worth.
LEMMA VectorizedStarts ==
  ASSUME PassInv, StartVectorized
  PROVE  /\ IsPrice(closes[1]) /\ engine = "vectorized" /\ engine' = engine
         /\ acct' \in AccountType /\ Solvent(acct') /\ Worth(acct', closes[1]) = InitialCash
         /\ mark' = closes[1] /\ paid' = Zero /\ UNCHANGED <<ticker, context>>
<1>1. /\ engine = "vectorized" /\ engine' = engine /\ closes # <<>>
      /\ mark' = closes[1] /\ paid' = Zero /\ UNCHANGED <<ticker, context>>
  BY DEF StartVectorized, PassInv, CountersOK
<1>2. 1 \in 1 .. Len(closes)
  BY <1>1 DEF PassInv, CountersOK
<1>3. IsPrice(closes[1])
  BY <1>2, PricesAre
<1>4. PICK weight \in {Zero} \cup Weights : acct' = Weighted(InitialCash, weight, closes[1])
  BY DEF StartVectorized
<1>5. IsShare(weight)
  <2>1. weight = Zero \/ weight \in Sizes
    BY DEF Weights
  <2>2. QED
    BY <2>1, TradingAssumption, Numbers, Trichotomy DEF IsShare
<1>6. InitialCash \in Fraction /\ Zero \preceq InitialCash
  BY Assumed, Constants, Trichotomy
<1>7. acct' = [cash |-> InitialCash \otimes (One \ominus weight),
               qty |-> (InitialCash \otimes weight) \oslash closes[1], entry |-> Zero]
  BY <1>4 DEF Weighted
<1>8. QED
  BY <1>1, <1>3, <1>5, <1>6, <1>7, WeightedIs

\* A bar of the vectorized backtest moves the worth with the price alone.
LEMMA VectorizedBarIs ==
  ASSUME PassInv, BoundsOK, BooksOK, VectorizedBar
  PROVE  /\ IsPrice(closes[cursor]) /\ engine = "vectorized" /\ engine' = engine
         /\ acct \in AccountType /\ acct' \in AccountType /\ Solvent(acct')
         /\ Worth(acct', closes[cursor]) = Worth(acct, closes[cursor])
         /\ mark' = closes[cursor] /\ paid' = paid /\ UNCHANGED <<ticker, context>>
         /\ curve'.last = Worth(acct, closes[cursor])
<1>1. /\ engine = "vectorized" /\ engine' = engine /\ phase = "replaying"
      /\ mark' = closes[cursor] /\ paid' = paid /\ UNCHANGED <<ticker, context>>
      /\ cursor <= Len(closes)
  BY DEF VectorizedBar
<1>2. cursor \in 1 .. Len(closes)
  BY <1>1, TicksBounded DEF BoundsOK
<1> DEFINE price == closes[cursor]
           equity == Worth(acct, price)
<1>3. IsPrice(price)
  BY <1>2, PricesAre
<1>4. PICK weight \in Weights :
        acct' = Weighted(equity, weight, price) /\ curve' = Point(curve, equity)
  BY DEF VectorizedBar
<1> HIDE DEF price
<1>5. acct \in AccountType /\ Solvent(acct)
  BY <1>1 DEF BooksOK, Leveraged, Bridges
<1>6. equity \in Fraction /\ Zero \preceq equity
  BY <1>3, <1>5, SolventWorth
<1>7. IsShare(weight)
  <2>1. weight = Zero \/ weight \in Sizes
    BY DEF Weights
  <2>2. QED
    BY <2>1, TradingAssumption, Numbers, Trichotomy DEF IsShare
<1> HIDE DEF equity
<1>8. acct' = [cash |-> equity \otimes (One \ominus weight),
               qty |-> (equity \otimes weight) \oslash price, entry |-> Zero]
  BY <1>4 DEF Weighted
<1>9. acct' \in AccountType /\ Solvent(acct') /\ Worth(acct', price) = equity
  BY <1>3, <1>6, <1>7, <1>8, WeightedIs
<1>10. curve'.last = equity
  BY <1>4 DEF Point
<1>11. QED
  BY <1>1, <1>3, <1>5, <1>9, <1>10 DEF price, equity

\* Backtests keep BooksOK.
LEMMA BooksBacktests ==
  PassInv /\ BoundsOK /\ BooksOK
    /\ (StartBacktest \/ BacktestBar \/ StartVectorized \/ VectorizedBar \/ FinishBacktest)
    => BooksOK'
<1> SUFFICES ASSUME PassInv, BoundsOK, BooksOK,
                    \/ StartBacktest \/ BacktestBar
                    \/ StartVectorized \/ VectorizedBar \/ FinishBacktest
             PROVE  BooksOK'
  OBVIOUS
<1>1. CASE StartBacktest
  <2>1. ticker' \in Prices \cup {Zero}
    BY <1>1 DEF StartBacktest, BooksOK
  <2>2. QED
    BY <1>1, <2>1, BooksReopened DEF StartBacktest
<1>2. CASE BacktestBar
  <2>1. /\ engine = "event_driven" /\ engine' = engine /\ UNCHANGED <<context, ticker>>
        /\ \E price, out : /\ IsPrice(price) /\ Fair(acct, out, price) /\ Solvent(out.acct)
                           /\ Book(out, price)
    BY <1>2, BacktestOutcome
  <2>2. engine \notin Leveraged \cup Bridges /\ ticker' \in Prices \cup {Zero}
    BY <2>1 DEF Leveraged, Bridges, BooksOK
  <2>3. QED
    BY <2>1, <2>2, BooksKept
<1>3. CASE StartVectorized
  <2>1. ContextOK'
    BY <1>3, VectorizedStarts DEF BooksOK, ContextOK, StateOK
  <2>2. QED
    BY <1>3, <2>1, VectorizedStarts, Constants
       DEF BooksOK, IsPrice, Solvent, Leveraged, Bridges
<1>4. CASE VectorizedBar
  <2>1. ContextOK'
    BY <1>4, VectorizedBarIs DEF BooksOK, ContextOK, StateOK
  <2>2. QED
    BY <1>4, <2>1, VectorizedBarIs DEF BooksOK, IsPrice, Solvent, Leveraged, Bridges
<1>5. CASE FinishBacktest
  BY <1>5 DEF FinishBacktest, BooksOK, book, ContextOK, StateOK
<1>6. QED
  BY <1>1, <1>2, <1>3, <1>4, <1>5

\* Environments keep BooksOK.
LEMMA BooksEnvironments ==
  PassInv /\ BoundsOK /\ BooksOK /\ (ResetEnvironment \/ StepEnvironment \/ StepBridge)
    => BooksOK'
<1> SUFFICES ASSUME PassInv, BoundsOK, BooksOK,
                    ResetEnvironment \/ StepEnvironment \/ StepBridge
             PROVE  BooksOK'
  OBVIOUS
<1>1. CASE ResetEnvironment
  <2>1. ticker' \in Prices \cup {Zero}
    BY <1>1 DEF ResetEnvironment, BooksOK
  <2>2. QED
    BY <1>1, <2>1, BooksReopened DEF ResetEnvironment
<1>2. CASE StepEnvironment
  <2>1. /\ engine \in Environments /\ engine' = engine /\ UNCHANGED <<context, ticker>>
        /\ \E price, out : \E broken \in BOOLEAN :
             /\ IsPrice(price) /\ Types(out) /\ Stepped(out, price, broken)
             /\ engine = "spot" => ~broken /\ Fair(acct, out, price) /\ Solvent(out.acct)
             /\ engine = "futures" /\ ~MisbookedOrders =>
                  FairFutures(acct, out, price) /\ (broken \/ Zero \preceq out.acct.cash)
    BY <1>2, EnvironmentStepIs
  <2>2. PICK price, out : \E broken \in BOOLEAN :
             /\ IsPrice(price) /\ Types(out) /\ Stepped(out, price, broken)
             /\ engine = "spot" => ~broken /\ Fair(acct, out, price) /\ Solvent(out.acct)
             /\ engine = "futures" /\ ~MisbookedOrders =>
                  FairFutures(acct, out, price) /\ (broken \/ Zero \preceq out.acct.cash)
    BY <2>1
  <2>3. PICK broken \in BOOLEAN :
             /\ IsPrice(price) /\ Types(out) /\ Stepped(out, price, broken)
             /\ engine = "spot" => ~broken /\ Fair(acct, out, price) /\ Solvent(out.acct)
             /\ engine = "futures" /\ ~MisbookedOrders =>
                  FairFutures(acct, out, price) /\ (broken \/ Zero \preceq out.acct.cash)
    BY <2>2
  <2>4. out.acct \in AccountType /\ out.cost \in Fraction /\ paid \in Fraction
    BY <2>3 DEF Types, BooksOK
  <2>5. /\ acct' = IF broken THEN Liquidated(out.acct, Valued(out.acct, price)) ELSE out.acct
        /\ mark' = price /\ paid' = paid \oplus out.cost
    BY <2>3 DEF Stepped
  <2>6. Valued(out.acct, price) \in Fraction
    BY <2>3, <2>4, FuturesWorthIs, Fields DEF Valued, IsPrice
  <2>7. /\ acct' \in AccountType
        /\ engine = "spot" => Solvent(acct')
        /\ engine = "futures" /\ ~MisbookedOrders => Zero \preceq acct'.cash
    <3>1. CASE broken
      BY <2>1, <2>3, <2>4, <2>5, <2>6, <3>1, LiquidatedIs DEF IsPrice
    <3>2. CASE ~broken
      BY <2>3, <2>4, <2>5, <3>2
    <3>3. QED
      BY <3>1, <3>2
  <2>8. ContextOK' /\ ticker' = ticker
    BY <2>1 DEF BooksOK, ContextOK, StateOK
  <2>9. mark' \in Fraction /\ paid' \in Fraction
    BY <2>3, <2>4, <2>5, Sums DEF IsPrice
  <2>10. engine' # "rl_spot" /\ engine' \in {"spot", "futures"} /\ engine' = engine
    BY <2>1 DEF Environments
  <2>11. QED
    BY <2>7, <2>8, <2>9, <2>10 DEF BooksOK, Leveraged, Bridges, Solvent
<1>3. CASE StepBridge
  <2>1. /\ engine \in Bridges /\ engine' = engine /\ UNCHANGED <<context, ticker>>
        /\ \E price, out : \E hint \in {Zero, Half} :
             /\ IsPrice(price) /\ Types(out) /\ Zero \preceq out.cost
             /\ Book(out, price) /\ Rewarded(out, price, hint)
             /\ engine = "rl_spot" =>
                  /\ Fair(acct, out, price) /\ Zero \preceq out.acct.qty
                  /\ Zero \preceq (out.acct.cash \oplus (paid \oplus out.cost))
             /\ engine = "rl_futures" => FairFutures(acct, out, price)
    BY <1>3, BridgeStepIs
  <2>2. PICK price, out :
             /\ IsPrice(price) /\ Types(out) /\ Zero \preceq out.cost
             /\ Book(out, price)
             /\ engine = "rl_spot" =>
                  /\ Zero \preceq out.acct.qty
                  /\ Zero \preceq (out.acct.cash \oplus (paid \oplus out.cost))
    BY <2>1
  <2>3. out.acct \in AccountType /\ out.cost \in Fraction /\ paid \in Fraction
    BY <2>2 DEF Types, BooksOK
  <2>4. acct' = out.acct /\ mark' = price /\ paid' = paid \oplus out.cost
    BY <2>2 DEF Book
  <2>5. paid' \in Fraction /\ (Zero \preceq paid => Zero \preceq paid')
    BY <2>2, <2>3, <2>4, Sums, NonNegative
  <2>6. ContextOK' /\ ticker' = ticker
    BY <2>1 DEF BooksOK, ContextOK, StateOK
  <2>7. engine' \in Bridges /\ engine' # "futures" /\ engine' = engine
    BY <2>1 DEF Bridges
  <2>8. QED
    BY <2>2, <2>3, <2>4, <2>5, <2>6, <2>7 DEF BooksOK, IsPrice
<1>4. QED
  BY <1>1, <1>2, <1>3

\* The order flow keeps BooksOK.
LEMMA BooksFlow ==
  PassInv /\ BooksOK /\ (PriceArrives \/ ProcessOrder) => BooksOK'
<1> SUFFICES ASSUME PassInv, BooksOK, PriceArrives \/ ProcessOrder PROVE BooksOK'
  OBVIOUS
<1>1. CASE PriceArrives
  <2>1. PICK price \in Prices : context' = [context EXCEPT !.price = price]
    BY <1>1 DEF PriceArrives
  <2>2. /\ context = [price |-> context.price, state |-> context.state, result |-> context.result]
        /\ StateOK(context.state)
    BY ContextIs DEF BooksOK
  <2>3. context' = [price |-> price, state |-> context.state, result |-> context.result]
    BY <2>1, <2>2
  <2>4. ContextOK'
    BY <2>1, <2>2, <2>3 DEF ContextOK, StateOK
  <2>5. QED
    BY <1>1, <2>4 DEF PriceArrives, book, BooksOK
<1>2. CASE ProcessOrder
  BY <1>2, OrderIs DEF BooksOK, Solvent, Leveraged, Bridges
<1>3. QED
  BY <1>1, <1>2

\* Stuttering keeps BooksOK.
LEMMA BooksStutter == BooksOK /\ UNCHANGED vars => BooksOK'
<1>1. QED
  BY DEF BooksOK, vars, book, ContextOK, StateOK

-----------------------------------------------------------------------------
(* The rewards of an environment.                                          *)

RewardType ==
  [prev : Fraction, earned : Fraction, peak : Fraction, gain : Fraction, given : Fraction]

\* Only the bridge pays anything but gains.
RewardsOK ==
  engine \in Environments \cup Bridges =>
    /\ rewards \in RewardType /\ Zero \prec rewards.peak
    /\ engine \in Environments => rewards.given = Zero
    /\ RewardsAddUp

\* What was gained adds up to what the account is worth more than at first.
LEMMA GainsAdd ==
  ASSUME NEW prev \in Fraction, NEW worth \in Fraction
  PROVE  /\ (prev \ominus InitialCash) \oplus (worth \ominus prev) = worth \ominus InitialCash
         /\ worth \ominus prev \in Fraction /\ worth \ominus InitialCash \in Fraction
<1> DEFINE c == InitialCash
           g == worth \ominus prev
           e == prev \ominus c
           l == e \oplus g
           r == worth \ominus c
<1>1. c \in Fraction
  BY Assumed
<1>2. PICK V, S : Reads(V, S) /\ {prev, worth, c, c, c, c, c, c} \subseteq S
  <2> HIDE DEF c
  <2>1. Commensurable(prev, worth, c, c, c, c, c, c)
    BY <1>1, Linear
  <2>2. QED
    BY <2>1 DEF Commensurable
<1> HIDE DEF c
<1>3. g \in S /\ e \in S /\ l \in S /\ r \in S
  BY <1>2 DEF Reads
<1>4. V[l] = V[r]
  BY <1>2, <1>3 DEF Reads
<1>5. l = r
  <2> HIDE DEF l, r
  <2>1. QED
    BY <1>2, <1>3, <1>4 DEF Reads
<1>6. g \in Fraction /\ r \in Fraction
  BY <1>1, Sums
<1>7. QED
  BY <1>5, <1>6 DEF c

\* Before the first step nothing was earned.
LEMMA RewardsOpened ==
  ASSUME NEW a, a = Fresh, NEW r, r = Unrewarded, NEW m \in Fraction
  PROVE  /\ r \in RewardType /\ Zero \prec r.peak /\ r.given = Zero /\ r.gain = Zero
         /\ r.earned = r.prev \ominus InitialCash
         /\ r.prev = Worth(a, m) /\ r.prev = FuturesWorth(a, m)
<1>1. InitialCash \in Fraction /\ Zero \in Fraction /\ Zero \prec InitialCash
  BY Assumed, Constants
<1>2. InitialCash \ominus InitialCash = Zero
  BY <1>1, NonNegative
<1>3. QED
  BY <1>1, <1>2, FreshIs DEF Unrewarded, RewardType

\* RewardsOK holds initially.
LEMMA RewardsInit == Init => RewardsOK
<1> SUFFICES ASSUME Init, engine \in Environments \cup Bridges PROVE RewardsOK
  BY DEF RewardsOK
<1>1. acct = Fresh /\ mark = Zero /\ rewards = Unrewarded /\ Zero \in Fraction
  BY Constants DEF Init
<1>2. /\ rewards \in RewardType /\ Zero \prec rewards.peak
      /\ rewards.given = Zero /\ rewards.gain = Zero
      /\ rewards.earned = rewards.prev \ominus InitialCash
      /\ rewards.prev = Worth(acct, mark) /\ rewards.prev = FuturesWorth(acct, mark)
  BY <1>1, RewardsOpened
<1>3. rewards.prev \preceq rewards.prev /\ ~ (Zero \prec Zero)
  BY <1>1, <1>2, Trichotomy DEF RewardType
<1>4. QED
  BY <1>2, <1>3 DEF RewardsOK, RewardsAddUp, Valued

\* A reset keeps RewardsOK.
LEMMA RewardsReset == RewardsOK /\ ResetEnvironment => RewardsOK'
<1> SUFFICES ASSUME RewardsOK, ResetEnvironment PROVE RewardsOK'
  OBVIOUS
<1>1. acct' = Fresh /\ mark' = Zero /\ rewards' = Unrewarded /\ Zero \in Fraction
  BY Constants DEF ResetEnvironment, Reopen
<1>2. /\ rewards' \in RewardType /\ Zero \prec rewards'.peak
      /\ rewards'.given = Zero /\ rewards'.gain = Zero
      /\ rewards'.earned = rewards'.prev \ominus InitialCash
      /\ rewards'.prev = Worth(acct', mark') /\ rewards'.prev = FuturesWorth(acct', mark')
  BY <1>1, RewardsOpened
<1>3. rewards'.prev \preceq rewards'.prev /\ ~ (Zero \prec Zero)
  BY <1>1, <1>2, Trichotomy DEF RewardType
<1>4. QED
  BY <1>2, <1>3 DEF RewardsOK, RewardsAddUp, Valued

\* A step of the spot or the futures environment rewards what the worth gained.
LEMMA RewardsStep ==
  PassInv /\ BoundsOK /\ BooksOK /\ RewardsOK /\ StepEnvironment => RewardsOK'
<1> SUFFICES ASSUME PassInv, BoundsOK, BooksOK, RewardsOK, StepEnvironment PROVE RewardsOK'
  OBVIOUS
<1>1. /\ engine \in Environments /\ engine' = engine
      /\ \E price, out : \E broken \in BOOLEAN :
           /\ IsPrice(price) /\ Types(out) /\ Stepped(out, price, broken)
           /\ engine = "spot" => ~broken /\ Fair(acct, out, price) /\ Solvent(out.acct)
           /\ engine = "futures" /\ ~MisbookedOrders =>
                FairFutures(acct, out, price) /\ (broken \/ Zero \preceq out.acct.cash)
  BY EnvironmentStepIs
<1>2. PICK price, out : \E broken \in BOOLEAN :
        /\ IsPrice(price) /\ Types(out) /\ Stepped(out, price, broken)
        /\ engine = "spot" => ~broken
  BY <1>1
<1>3. PICK broken \in BOOLEAN :
        /\ IsPrice(price) /\ Types(out) /\ Stepped(out, price, broken)
        /\ engine = "spot" => ~broken
  BY <1>2
<1> DEFINE worth == Valued(out.acct, price)
<1>4. /\ acct' = IF broken THEN Liquidated(out.acct, worth) ELSE out.acct
      /\ mark' = price
      /\ rewards' = [rewards EXCEPT !.prev = worth, !.earned = @ \oplus (worth \ominus rewards.prev)]
  BY <1>3 DEF Stepped
<1>5. out.acct \in AccountType /\ price \in Fraction
  BY <1>3 DEF Types, IsPrice
<1>6. worth \in Fraction
  BY <1>5, FuturesWorthIs, Fields DEF Valued
<1>7. /\ rewards \in RewardType /\ Zero \prec rewards.peak /\ rewards.given = Zero
      /\ rewards.earned = rewards.prev \ominus InitialCash
  BY <1>1 DEF RewardsOK, RewardsAddUp
<1>8. worth \preceq Valued(acct', price) /\ (acct'.qty # Zero => worth = Valued(acct', price))
  <2>1. CASE broken
    <3>1. engine = "futures"
      BY <1>1, <1>3, <2>1 DEF Environments
    <3>2. Valued(acct', price) = FuturesWorth(Liquidated(out.acct, worth), price)
      BY <1>4, <2>1, <3>1 DEF Valued, Leveraged
    <3> HIDE DEF worth
    <3>3. QED
      BY <1>4, <1>5, <1>6, <2>1, <3>2, LiquidatedIs
  <2>2. CASE ~broken
    BY <1>4, <1>6, <2>2, Trichotomy
  <2>3. QED
    BY <2>1, <2>2
<1>9. Valued(acct', price) = Valued(acct, mark)'
  BY <1>1, <1>4 DEF Valued
<1> HIDE DEF worth
<1>10. rewards.prev \in Fraction /\ rewards.earned \in Fraction /\ rewards.gain \in Fraction
       /\ rewards.peak \in Fraction /\ Zero \in Fraction /\ rewards.given \in Fraction
  BY <1>7, Constants DEF RewardType
<1>11. /\ (rewards.prev \ominus InitialCash) \oplus (worth \ominus rewards.prev)
           = worth \ominus InitialCash
       /\ worth \ominus InitialCash \in Fraction
  BY <1>6, <1>10, GainsAdd
<1>12. rewards' = [prev |-> worth, earned |-> worth \ominus InitialCash, peak |-> rewards.peak,
                   gain |-> rewards.gain, given |-> rewards.given]
  BY <1>4, <1>7, <1>11 DEF RewardType
<1>13. /\ rewards' \in RewardType /\ Zero \prec rewards'.peak /\ rewards'.given = Zero
       /\ rewards'.prev = worth /\ rewards'.earned = worth \ominus InitialCash
  BY <1>6, <1>7, <1>10, <1>11, <1>12 DEF RewardType
<1>14. ~ (Zero \prec Zero) /\ engine \notin Bridges
  BY <1>1, <1>10, Trichotomy DEF Environments, Bridges
<1>15. RewardsAddUp'
  BY <1>1, <1>8, <1>9, <1>13, <1>14 DEF RewardsAddUp
<1>16. QED
  BY <1>1, <1>13, <1>15 DEF RewardsOK

\* A step of the RL environment pays a positive reward only for a gain.
LEMMA RewardsBridge ==
  PassInv /\ BoundsOK /\ BooksOK /\ RewardsOK /\ StepBridge => RewardsOK'
<1> SUFFICES ASSUME PassInv, BoundsOK, BooksOK, RewardsOK, StepBridge PROVE RewardsOK'
  OBVIOUS
<1>1. /\ engine \in Bridges /\ engine' = engine
      /\ \E price, out : \E hint \in {Zero, Half} :
           /\ IsPrice(price) /\ Types(out) /\ Zero \preceq out.cost
           /\ Book(out, price) /\ Rewarded(out, price, hint)
           /\ engine = "rl_spot" =>
                /\ Fair(acct, out, price) /\ Zero \preceq out.acct.qty
                /\ Zero \preceq (out.acct.cash \oplus (paid \oplus out.cost))
           /\ engine = "rl_futures" => FairFutures(acct, out, price)
  BY BridgeStepIs
<1>2. PICK price, out : \E hint \in {Zero, Half} :
           /\ IsPrice(price) /\ Types(out)
           /\ Book(out, price) /\ Rewarded(out, price, hint)
  BY <1>1
<1>3. PICK hint \in {Zero, Half} :
           /\ IsPrice(price) /\ Types(out)
           /\ Book(out, price) /\ Rewarded(out, price, hint)
  BY <1>2
<1> DEFINE worth == Valued(out.acct, price)
           gain == worth \ominus rewards.prev
           peak == Greatest(rewards.peak, worth)
           fall == Drawdown(peak, worth)
           given == StepReward(gain, fall, hint)
<1>4. /\ acct' = out.acct /\ mark' = price
      /\ rewards' = [prev |-> worth, earned |-> rewards.earned \oplus gain, peak |-> peak,
                     gain |-> gain, given |-> given]
  BY <1>3 DEF Book, Rewarded
<1>5. out.acct \in AccountType /\ price \in Fraction
  BY <1>3 DEF Types, IsPrice
<1>6. worth \in Fraction
  BY <1>5, FuturesWorthIs, Fields DEF Valued
<1>7. worth = Valued(acct, mark)'
  BY <1>1, <1>4 DEF Valued
<1>8. /\ rewards.prev \in Fraction /\ rewards.peak \in Fraction /\ Zero \prec rewards.peak
      /\ rewards.earned = rewards.prev \ominus InitialCash /\ Zero \in Fraction
  BY <1>1, Constants DEF RewardsOK, RewardsAddUp, RewardType
<1> HIDE DEF worth
<1>9. /\ gain \in Fraction /\ worth \ominus InitialCash \in Fraction
      /\ rewards.earned \oplus gain = worth \ominus InitialCash
  <2>1. /\ (rewards.prev \ominus InitialCash) \oplus (worth \ominus rewards.prev)
             = worth \ominus InitialCash
        /\ worth \ominus rewards.prev \in Fraction /\ worth \ominus InitialCash \in Fraction
    BY <1>6, <1>8, GainsAdd
  <2>2. QED
    BY <1>8, <2>1
<1>10. peak \in Fraction /\ Zero \prec peak
  <2>1. peak \in Fraction /\ rewards.peak \preceq peak
    BY <1>6, <1>8, GreatestIs
  <2> HIDE DEF peak
  <2>2. QED
    BY <1>8, <2>1, Ordered
<1> HIDE DEF gain, peak
<1>11. fall \in Fraction /\ Zero \preceq fall /\ (worth = peak => fall = Zero)
  BY <1>6, <1>10, DrawdownIs
<1> HIDE DEF fall
<1>12. /\ given \in Fraction /\ (Zero \prec given => Zero \prec gain)
       /\ (Zero \prec gain /\ fall = Zero => Zero \prec given)
  BY <1>9, <1>11, StepRewardIs
<1> HIDE DEF given
<1>13. /\ rewards' \in RewardType /\ rewards'.prev = worth
       /\ rewards'.earned = worth \ominus InitialCash /\ rewards'.peak = peak
       /\ rewards'.gain = gain /\ rewards'.given = given
  BY <1>4, <1>6, <1>9, <1>10, <1>12 DEF RewardType
<1>14. engine \notin Environments /\ worth \preceq worth
  BY <1>1, <1>6, Trichotomy DEF Environments, Bridges
<1>15. RewardsAddUp'
  BY <1>1, <1>7, <1>11, <1>12, <1>13, <1>14 DEF RewardsAddUp
<1>16. QED
  BY <1>1, <1>10, <1>13, <1>14, <1>15 DEF RewardsOK

\* The other engines give no rewards.
LEMMA RewardsOthers ==
  ASSUME RewardsOK, engine' = engine, engine \notin Environments \cup Bridges
  PROVE  RewardsOK'
<1>1. QED
  BY DEF RewardsOK

\* Stuttering keeps RewardsOK.
LEMMA RewardsStutter == RewardsOK /\ UNCHANGED vars => RewardsOK'
<1>1. QED
  BY DEF RewardsOK, RewardsAddUp, Valued, vars, book

-----------------------------------------------------------------------------
(* The vectorized backtest, and the theorems.                              *)

VectorizedOK ==
  engine = "vectorized" =>
    /\ phase = "replaying" =>
         mark = closes[cursor - 1] /\ curve.last = Worth(acct, closes[cursor - 1])
    /\ report # None => CleanPass

\* VectorizedOK holds initially.
LEMMA VectorizedInit == Init => VectorizedOK
<1>1. QED
  BY DEF Init, VectorizedOK

\* The vectorized backtest keeps VectorizedOK: its last point is its worth.
LEMMA VectorizedKept ==
  PassInv /\ BoundsOK /\ BooksOK /\ VectorizedOK
    /\ (StartVectorized \/ VectorizedBar \/ FinishBacktest)
    => VectorizedOK'
<1> SUFFICES ASSUME PassInv, BoundsOK, BooksOK, VectorizedOK, engine = "vectorized",
                    StartVectorized \/ VectorizedBar \/ FinishBacktest
             PROVE  VectorizedOK'
  BY DEF VectorizedOK, StartVectorized, VectorizedBar, FinishBacktest
<1>1. CASE StartVectorized
  <2>1. /\ phase' = "replaying" /\ cursor' = 2 /\ closes' = closes /\ report' = None
        /\ curve'.last = InitialCash /\ mark' = closes[1]
    BY <1>1 DEF StartVectorized, Point
  <2>2. Worth(acct', closes[1]) = InitialCash
    BY <1>1, VectorizedStarts
  <2>3. cursor' - 1 = 1
    BY <2>1
  <2>4. QED
    BY <2>1, <2>2, <2>3 DEF VectorizedOK
<1>2. CASE VectorizedBar
  <2>1. /\ phase = "replaying" /\ phase' = phase /\ cursor' = cursor + 1 /\ closes' = closes
        /\ report' = report /\ cursor \in Nat
    BY <1>2 DEF VectorizedBar, PassInv, CountersOK
  <2>2. /\ mark' = closes[cursor] /\ curve'.last = Worth(acct', closes[cursor])
    BY <1>2, VectorizedBarIs
  <2>3. report = None
    BY <2>1 DEF PassInv, ReportOK
  <2>4. cursor' - 1 = cursor
    BY <2>1
  <2>5. QED
    BY <2>1, <2>2, <2>3, <2>4 DEF VectorizedOK
<1>3. CASE FinishBacktest
  <2>1. /\ phase = "replaying" /\ phase' = "done" /\ closes' = closes /\ acct' = acct
        /\ engine' = engine /\ cursor > Len(closes) /\ closes # <<>> /\ Len(closes) \in Nat
    BY <1>3 DEF FinishBacktest, book, PassInv, CountersOK
  <2>2. /\ report'.points = curve.points /\ report'.trades = trades
        /\ report'.final = closes[Len(closes)]
        /\ report'.pnl = curve.last \ominus InitialCash
    BY <1>3 DEF FinishBacktest
  <2>3. /\ cursor = curve.points + 1 /\ cursor \in 2 .. Len(closes) + 1
        /\ trades < curve.points /\ curve.points \in Nat /\ trades \in Nat
    BY <2>1 DEF BoundsOK, PassInv, CountersOK
  <2>4. curve.points = Len(closes) /\ trades <= curve.points /\ cursor - 1 = Len(closes)
    BY <2>1, <2>3
  <2>5. curve.last = Worth(acct, closes[Len(closes)])
    BY <2>1, <2>4 DEF VectorizedOK
  <2>6. CleanPass'
    BY <2>1, <2>2, <2>4, <2>5 DEF CleanPass
  <2>7. QED
    BY <2>1, <2>6 DEF VectorizedOK
<1>4. QED
  BY <1>1, <1>2, <1>3

\* The other engines say nothing about it.
LEMMA VectorizedOthers ==
  ASSUME VectorizedOK, engine' = engine, engine # "vectorized"
  PROVE  VectorizedOK'
<1>1. QED
  BY DEF VectorizedOK

\* Stuttering keeps VectorizedOK.
LEMMA VectorizedStutter == VectorizedOK /\ UNCHANGED vars => VectorizedOK'
<1>1. QED
  BY DEF VectorizedOK, CleanPass, vars, book, pass

(* All of it. *)

TradingInv == PassInv /\ BoundsOK /\ BooksOK /\ RewardsOK /\ VectorizedOK

\* The inductive invariant holds initially.
LEMMA TradingInit == Init => TradingInv
<1>1. QED
  BY PassInit, BoundsInit, BooksInit, RewardsInit, VectorizedInit DEF TradingInv

\* Every step of every engine keeps it.
LEMMA TradingStep == TradingInv /\ [Next]_vars => TradingInv'
<1> SUFFICES ASSUME TradingInv, [Next]_vars PROVE TradingInv'
  OBVIOUS
<1>1. PassInv /\ BoundsOK /\ BooksOK /\ RewardsOK /\ VectorizedOK
  BY DEF TradingInv
<1>2. CASE StartSession \/ StopSession \/ Tick \/ TickFails \/ FinishSession
  <2>1. engine \in Sessions /\ engine' = engine
    BY <1>2 DEF StartSession, StopSession, Tick, TickFails, FinishSession
  <2>2. engine \notin Environments \cup Bridges /\ engine # "vectorized"
    BY <2>1 DEF Sessions, Environments, Bridges
  <2>3. PassInv'
    BY <1>1, <1>2, StartSessionStep, StopSessionStep, TickStep, TickFailsStep, FinishSessionStep
  <2>4. BoundsOK' /\ BooksOK'
    BY <1>1, <1>2, BoundsSessions, BooksSessions
  <2>5. QED
    BY <1>1, <2>1, <2>2, <2>3, <2>4, RewardsOthers, VectorizedOthers DEF TradingInv
<1>3. CASE StartBacktest \/ BacktestBar \/ StartVectorized \/ VectorizedBar \/ FinishBacktest
  <2>1. engine \in {"event_driven", "vectorized"} /\ engine' = engine
    BY <1>3 DEF StartBacktest, BacktestBar, StartVectorized, VectorizedBar, FinishBacktest
  <2>2. engine \notin Environments \cup Bridges
    BY <2>1 DEF Environments, Bridges
  <2>3. PassInv'
    BY <1>1, <1>3, StartBacktestStep, BacktestBarStep, VectorizedSteps, FinishBacktestStep
  <2>4. BoundsOK' /\ BooksOK'
    BY <1>1, <1>3, BoundsBacktests, BooksBacktests
  <2>5. VectorizedOK'
    <3>1. CASE StartBacktest \/ BacktestBar
      BY <1>1, <2>1, <3>1, VectorizedOthers DEF StartBacktest, BacktestBar
    <3>2. CASE StartVectorized \/ VectorizedBar \/ FinishBacktest
      BY <1>1, <3>2, VectorizedKept
    <3>3. QED
      BY <1>3, <3>1, <3>2
  <2>6. QED
    BY <1>1, <2>1, <2>2, <2>3, <2>4, <2>5, RewardsOthers DEF TradingInv
<1>4. CASE ResetEnvironment \/ StepEnvironment \/ StepBridge
  <2>1. engine \in Environments \cup Bridges /\ engine' = engine
    <3>1. CASE ResetEnvironment
      BY <3>1 DEF ResetEnvironment
    <3>2. CASE StepEnvironment
      BY <3>2 DEF StepEnvironment
    <3>3. CASE StepBridge
      BY <3>3 DEF StepBridge
    <3>4. QED
      BY <1>4, <3>1, <3>2, <3>3
  <2>2. engine # "vectorized"
    BY <2>1 DEF Environments, Bridges
  <2>3. PassInv' /\ BoundsOK' /\ BooksOK' /\ RewardsOK'
    BY <1>1, <1>4, EnvironmentSteps, BoundsOthers, BooksEnvironments,
       RewardsReset, RewardsStep, RewardsBridge
  <2>4. QED
    BY <1>1, <2>1, <2>2, <2>3, VectorizedOthers DEF TradingInv
<1>5. CASE PriceArrives \/ ProcessOrder
  <2>1. engine = "flow" /\ engine' = engine
    BY <1>5 DEF PriceArrives, ProcessOrder
  <2>2. engine \notin Environments \cup Bridges /\ engine # "vectorized"
    BY <2>1 DEF Environments, Bridges
  <2>3. PassInv' /\ BoundsOK' /\ BooksOK'
    BY <1>1, <1>5, OrderFlowSteps, BoundsOthers, BooksFlow
  <2>4. QED
    BY <1>1, <2>1, <2>2, <2>3, RewardsOthers, VectorizedOthers DEF TradingInv
<1>6. CASE UNCHANGED vars
  BY <1>1, <1>6, PassStutters, BoundsStutter, BooksStutter, RewardsStutter, VectorizedStutter
     DEF TradingInv
<1>7. QED
  BY <1>2, <1>3, <1>4, <1>5, <1>6 DEF Next

\* The inductive invariant of all nine engines, whatever prices, sizes, fees, orders
\* and interleaved calls: cursor and curve move together (PassInv), counters stay in
\* their bounds (BoundsOK), cash and position are what the engine's market allows
\* (BooksOK), rewards are gains (RewardsOK), reports are of their pass (VectorizedOK).
THEOREM TradingIsInvariant == Spec => []TradingInv
<1>1. QED
  BY TradingInit, TradingStep, PTL DEF Spec

\* The books keep their types: accounts, marks and costs are fractions, and no engine
\* but the futures markets holds a negative position.
THEOREM TradingTypes == Spec => []TypeOK
<1>1. TradingInv => TypeOK
  BY DEF TradingInv, PassInv, CountersOK, BoundsOK, BooksOK, TypeOK, Solvent, Leveraged, Bridges
<1>2. QED
  BY <1>1, TradingIsInvariant, PTL

\* No engine of a spot market ever owes cash: not the paper broker's portfolio, the
\* backtests, the spot environment or the order flow; the RL tracker owes at most the
\* costs it charged on top of a buy that took all the cash (rl_product/env/execution.py).
THEOREM NoSpotEngineOverdraws == Spec => []NeverOverdrawn
<1>1. TradingInv => NeverOverdrawn
  BY DEF TradingInv, BooksOK, NeverOverdrawn, Solvent
<1>2. QED
  BY <1>1, TradingIsInvariant, PTL

\* What an environment has paid is what its account has gained since the reset, step
\* rewards of the RL bridge are positive only for a step that gained something.
THEOREM RewardsAreGains == Spec => []RewardsAddUp
<1>1. TradingInv => RewardsAddUp
  BY DEF TradingInv, RewardsOK, RewardsAddUp
<1>2. QED
  BY <1>1, TradingIsInvariant, PTL

\* A session that was started once and stopped cleanly, or a backtest that ran to its
\* end, in any engine, reports that pass: a point per bar, no more trades than points,
\* the worth of the account as the last point and its gain as profit.
THEOREM CleanPassesAreReported == Spec => []CleanPass
<1>1. TradingInv => CleanPass
  <2>1. report = None => CleanPass
    BY DEF CleanPass
  <2>2. QED
    BY <2>1 DEF TradingInv, PassInv, ReportOK, VectorizedOK
<1>2. QED
  BY <1>1, TradingIsInvariant, PTL

-----------------------------------------------------------------------------
(* The refinement: Account.                                                *)

\* The abstract module reckons in the same fractions.
LEMMA SameFractions ==
  /\ Book_!Zero = Zero
  /\ \A a, b : /\ Book_!\oplus(a, b) = (a \oplus b) /\ Book_!\ominus(a, b) = (a \ominus b)
               /\ Book_!\otimes(a, b) = (a \otimes b)
               /\ Book_!\preceq(a, b) <=> (a \preceq b)
               /\ Book_!Greatest(a, b) = Greatest(a, b)
<1>1. Book_!Positive = Positive /\ Book_!Pairs = Pairs /\ Book_!Gcd = Gcd
  BY DEF Book_!Positive, Positive, Book_!Pairs, Pairs, Book_!Gcd, Gcd
<1>2. Book_!Cancelled = Cancelled
  BY <1>1 DEF Book_!Cancelled, Cancelled
<1>3. Book_!Reduced = Reduced
  BY <1>1, <1>2 DEF Book_!Reduced, Reduced
<1>4. \A n, d : Book_!Frac(n, d) = Frac(n, d)
  BY <1>3 DEF Book_!Frac, Frac
<1>5. Book_!SumOver = SumOver /\ Book_!LessOver = LessOver /\ Book_!Product = Product
  BY <1>1, <1>4 DEF Book_!SumOver, SumOver, Book_!LessOver, LessOver, Book_!Product, Product
<1>6. Book_!Plus = Plus /\ Book_!Less = Less /\ Book_!Times = Times
  BY <1>1, <1>4, <1>5 DEF Book_!Plus, Plus, Book_!Less, Less, Book_!Times, Times
<1>7. Book_!Opposite = Opposite
  BY <1>1 DEF Book_!Opposite, Opposite
<1>8. Book_!Larger = Larger
  BY <1>1, <1>6 DEF Book_!Larger, Larger
<1>9. Book_!Zero = Zero
  BY DEF Book_!Zero, Zero, Book_!Whole, Whole
<1>10. \A a, b : /\ Book_!\oplus(a, b) = (a \oplus b) /\ Book_!\ominus(a, b) = (a \ominus b)
                 /\ Book_!\otimes(a, b) = (a \otimes b)
  BY <1>6, <1>7 DEF Book_!\oplus, \oplus, Book_!\ominus, \ominus, Book_!\otimes, \otimes
<1>11. \A a, b : Book_!\preceq(a, b) <=> (a \preceq b)
  BY <1>6 DEF Book_!\preceq, \preceq
<1>12. \A a, b : Book_!Greatest(a, b) = Greatest(a, b)
  BY <1>8 DEF Book_!Greatest, Greatest
<1>13. QED
  BY <1>9, <1>10, <1>11, <1>12

\* The worth of a book moves with its price.
LEMMA ValuedIs ==
  ASSUME NEW a \in AccountType, NEW p \in Fraction
  PROVE  /\ Valued(a, p) \in Fraction
         /\ \A r \in Fraction :
              /\ a.qty \otimes (r \ominus p) \in Fraction
              /\ Valued(a, r) = Valued(a, p) \oplus (a.qty \otimes (r \ominus p))
<1>1. QED
  BY Fields, FuturesWorthIs, Revalued DEF Valued

\* Where the account goes before a venue steps in.
LEMMA MovedIs ==
  ASSUME TradingInv, engine # "flow", engine' = engine,
         NEW price \in Fraction, mark' = price,
         NEW cost \in Fraction, Zero \preceq cost, paid' = paid \oplus cost
  PROVE  /\ Book_!Moved = Valued(acct, price) \ominus cost
         /\ paid \preceq paid'
<1>1. acct \in AccountType /\ mark \in Fraction /\ paid \in Fraction
  BY DEF TradingInv, BooksOK
<1>2. Valued(acct, price) = Valued(acct, mark) \oplus (acct.qty \otimes (price \ominus mark))
      /\ Valued(acct, price) \in Fraction
  BY <1>1, ValuedIs
<1>3. Book_!Moved = (Valued(acct, mark) \oplus (acct.qty \otimes (mark' \ominus mark)))
                       \ominus (paid' \ominus paid)
  BY SameFractions DEF Book_!Moved
<1>4. /\ Valued(acct, price) \ominus cost = Valued(acct, price) \ominus ((paid \oplus cost) \ominus paid)
      /\ paid \preceq (paid \oplus cost)
  BY <1>1, <1>2, PaidMoves
<1>5. QED
  BY <1>2, <1>3, <1>4

\* A step that changes the worth by its cost is a Move of Account.
LEMMA Moves ==
  ASSUME TradingInv, engine # "flow", engine' = engine,
         NEW price \in Fraction, mark' = price,
         NEW cost \in Fraction, Zero \preceq cost, paid' = paid \oplus cost,
         Valued(acct', price) = Valued(acct, price) \ominus cost
  PROVE  Book_!Move
<1>1. Book_!Moved = Valued(acct, price) \ominus cost /\ paid \preceq paid'
  BY MovedIs
<1>2. Valued(acct, mark)' = Valued(acct', price)
  BY DEF Valued
<1>3. QED
  BY <1>1, <1>2, SameFractions DEF Book_!Move

\* A move that costs nothing.
LEMMA FreeMoves ==
  ASSUME TradingInv, engine # "flow", engine' = engine,
         NEW price \in Fraction, mark' = price, paid' = paid,
         Valued(acct', price) = Valued(acct, price)
  PROVE  Book_!Move
<1>1. paid \in Fraction /\ acct \in AccountType
  BY DEF TradingInv, BooksOK
<1>2. Zero \in Fraction /\ Zero \preceq Zero /\ paid \oplus Zero = paid
      /\ Valued(acct, price) \in Fraction
  BY <1>1, Constants, Trichotomy, NonNegative, ValuedIs
<1>3. Valued(acct, price) \ominus Zero = Valued(acct, price)
  BY <1>2, NonNegative
<1>4. QED
  BY <1>2, <1>3, Moves

\* A step that starts from the initial cash is an Open of Account.
LEMMA Opens ==
  ASSUME engine # "flow", engine' = engine, Valued(acct', mark') = InitialCash, paid' = Zero
  PROVE  Book_!Open
<1>1. Valued(acct, mark)' = Valued(acct', mark')
  BY DEF Valued
<1>2. QED
  BY <1>1, SameFractions DEF Book_!Open

\* So is a reset.
LEMMA ReopenOpens ==
  ASSUME engine # "flow", engine' = engine, Reopen
  PROVE  Book_!Open
<1>1. acct' = Fresh /\ mark' = Zero /\ paid' = Zero /\ Zero \in Fraction
  BY Constants DEF Reopen
<1>2. Valued(acct', mark') = InitialCash
  BY <1>1, FreshIs DEF Valued
<1>3. QED
  BY <1>1, <1>2, Opens

\* A step that leaves the books alone is a stutter of Account.
LEMMA BooksStay ==
  ASSUME engine' = engine, engine = "flow" \/ UNCHANGED book
  PROVE  UNCHANGED Book_!vars
<1>1. QED
  BY DEF Book_!vars, book, Valued

Booked == [Book_!Open \/ Book_!Move \/ Book_!Liquidate]_(Book_!vars)

\* Every step of a session is a step of Account.
LEMMA SessionsAreBooked ==
  TradingInv /\ (StartSession \/ StopSession \/ Tick \/ TickFails \/ FinishSession) => Booked
<1> SUFFICES ASSUME TradingInv, StartSession \/ StopSession \/ Tick \/ TickFails \/ FinishSession
             PROVE  Booked
  OBVIOUS
<1>1. /\ engine \in Sessions /\ engine' = engine /\ engine # "flow" /\ engine \notin Leveraged
      /\ PassInv /\ BoundsOK /\ BooksOK
  <2>1. engine \in Sessions /\ engine' = engine
    BY DEF StartSession, StopSession, Tick, TickFails, FinishSession
  <2>2. QED
    BY <2>1 DEF Sessions, Leveraged, TradingInv
<1>2. CASE StartSession
  BY <1>1, <1>2, ReopenOpens DEF StartSession, Booked
<1>3. CASE StopSession \/ TickFails
  BY <1>1, <1>3, BooksStay DEF StopSession, TickFails, Booked
<1>4. CASE Tick
  <2>1. PICK price, out : /\ IsPrice(price) /\ Fair(acct, out, price)
                          /\ Book(out, price)
    BY <1>1, <1>4, TickOutcome
  <2>2. Book_!Move
    BY <1>1, <2>1, Moves DEF Fair, Types, Book, IsPrice, Valued
  <2>3. QED
    BY <2>2 DEF Booked
<1>5. CASE FinishSession
  <2>1. mark' \in Fraction
    BY <1>1, <1>5, BooksSessions DEF BooksOK
  <2>2. Book_!Move
    BY <1>1, <1>5, <2>1, FreeMoves DEF FinishSession
  <2>3. QED
    BY <2>2 DEF Booked
<1>6. QED
  BY <1>2, <1>3, <1>4, <1>5

\* So is every step of a backtest.
LEMMA BacktestsAreBooked ==
  TradingInv
    /\ (StartBacktest \/ BacktestBar \/ StartVectorized \/ VectorizedBar \/ FinishBacktest)
    => Booked
<1> SUFFICES ASSUME TradingInv,
                    \/ StartBacktest \/ BacktestBar
                    \/ StartVectorized \/ VectorizedBar \/ FinishBacktest
             PROVE  Booked
  OBVIOUS
<1>1. /\ engine \in {"event_driven", "vectorized"} /\ engine' = engine
      /\ engine # "flow" /\ engine \notin Leveraged /\ PassInv /\ BoundsOK /\ BooksOK
  <2>1. engine \in {"event_driven", "vectorized"} /\ engine' = engine
    BY DEF StartBacktest, BacktestBar, StartVectorized, VectorizedBar, FinishBacktest
  <2>2. QED
    BY <2>1 DEF Leveraged, TradingInv
<1>2. CASE StartBacktest
  BY <1>1, <1>2, ReopenOpens DEF StartBacktest, Booked
<1>3. CASE BacktestBar
  <2>1. PICK price, out : /\ IsPrice(price) /\ Fair(acct, out, price)
                          /\ Book(out, price)
    BY <1>1, <1>3, BacktestOutcome
  <2>2. Book_!Move
    BY <1>1, <2>1, Moves DEF Fair, Types, Book, IsPrice, Valued
  <2>3. QED
    BY <2>2 DEF Booked
<1>4. CASE StartVectorized
  BY <1>1, <1>4, VectorizedStarts, Opens DEF Valued, Booked
<1>5. CASE VectorizedBar
  <2>1. Book_!Move
    BY <1>1, <1>5, VectorizedBarIs, FreeMoves DEF Valued, IsPrice
  <2>2. QED
    BY <2>1 DEF Booked
<1>6. CASE FinishBacktest
  BY <1>1, <1>6, BooksStay DEF FinishBacktest, Booked
<1>7. QED
  BY <1>2, <1>3, <1>4, <1>5, <1>6

\* So is every step of an environment; liquidation forgives debt.
LEMMA EnvironmentsAreBooked ==
  ASSUME TradingInv, ~MisbookedOrders, ResetEnvironment \/ StepEnvironment \/ StepBridge
  PROVE  Booked
<1>1. PassInv /\ BoundsOK /\ BooksOK
  BY DEF TradingInv
<1>2. CASE ResetEnvironment
  <2>1. engine # "flow" /\ engine' = engine
    BY <1>2 DEF ResetEnvironment, Environments, Bridges
  <2>2. QED
    BY <1>2, <2>1, ReopenOpens DEF ResetEnvironment, Booked
<1>3. CASE StepEnvironment
  <2>1. /\ engine \in Environments /\ engine' = engine
        /\ \E price, out : \E broken \in BOOLEAN :
             /\ IsPrice(price) /\ Types(out) /\ Stepped(out, price, broken)
             /\ engine = "spot" => ~broken /\ Fair(acct, out, price) /\ Solvent(out.acct)
             /\ engine = "futures" /\ ~MisbookedOrders =>
                  FairFutures(acct, out, price) /\ (broken \/ Zero \preceq out.acct.cash)
    BY <1>1, <1>3, EnvironmentStepIs
  <2>2. PICK price, out : \E broken \in BOOLEAN :
             /\ IsPrice(price) /\ Types(out) /\ Stepped(out, price, broken)
             /\ engine = "spot" => ~broken /\ Fair(acct, out, price)
             /\ engine = "futures" => FairFutures(acct, out, price)
    BY <2>1
  <2>3. PICK broken \in BOOLEAN :
             /\ IsPrice(price) /\ Types(out) /\ Stepped(out, price, broken)
             /\ engine = "spot" => ~broken /\ Fair(acct, out, price)
             /\ engine = "futures" => FairFutures(acct, out, price)
    BY <2>2
  <2> DEFINE worth == Valued(out.acct, price)
  <2>4. /\ acct' = IF broken THEN Liquidated(out.acct, worth) ELSE out.acct
        /\ mark' = price /\ paid' = paid \oplus out.cost
    BY <2>3 DEF Stepped
  <2>5. /\ engine # "flow" /\ price \in Fraction /\ out.acct \in AccountType
        /\ out.cost \in Fraction
    BY <2>1, <2>3 DEF Environments, IsPrice, Types
  <2>6. Zero \preceq out.cost /\ worth = Valued(acct, price) \ominus out.cost
    BY <2>1, <2>3 DEF Environments, Fair, FairFutures, Valued, Leveraged
  <2>7. worth \in Fraction
    BY <2>5, ValuedIs
  <2>8. CASE ~broken
    <3>1. Valued(acct', price) = Valued(acct, price) \ominus out.cost
      BY <2>4, <2>6, <2>8
    <3>2. Book_!Move
      BY <2>1, <2>4, <2>5, <2>6, <3>1, Moves
    <3>3. QED
      BY <3>2 DEF Booked
  <2>9. CASE broken
    <3>1. engine = "futures" /\ acct' = Liquidated(out.acct, worth)
      BY <2>1, <2>3, <2>4, <2>9 DEF Environments
    <3>2. Book_!Moved = Valued(acct, price) \ominus out.cost /\ paid \preceq paid'
      BY <2>1, <2>4, <2>5, <2>6, MovedIs
    <3> HIDE DEF worth
    <3>3. acct'.qty = Zero /\ FuturesWorth(acct', price) = Greatest(worth, Zero)
      BY <2>5, <2>7, <3>1, LiquidatedIs
    <3>4. Valued(acct, mark)' = Greatest(worth, Zero)
      BY <2>1, <2>4, <3>1, <3>3 DEF Valued, Leveraged
    <3>5. Book_!Liquidate
      BY <2>1, <2>5, <2>6, <3>2, <3>3, <3>4, SameFractions DEF Book_!Liquidate
    <3>6. QED
      BY <3>5 DEF Booked
  <2>10. QED
    BY <2>8, <2>9
<1>4. CASE StepBridge
  <2>1. /\ engine \in Bridges /\ engine' = engine
        /\ \E price, out : \E hint \in {Zero, Half} :
             /\ IsPrice(price) /\ Types(out) /\ Zero \preceq out.cost
             /\ Book(out, price) /\ Rewarded(out, price, hint)
             /\ engine = "rl_spot" =>
                  /\ Fair(acct, out, price) /\ Zero \preceq out.acct.qty
                  /\ Zero \preceq (out.acct.cash \oplus (paid \oplus out.cost))
             /\ engine = "rl_futures" => FairFutures(acct, out, price)
    BY <1>1, <1>4, BridgeStepIs
  <2>2. PICK price, out :
             /\ IsPrice(price) /\ Types(out) /\ Zero \preceq out.cost /\ Book(out, price)
             /\ engine = "rl_spot" => Fair(acct, out, price)
             /\ engine = "rl_futures" => FairFutures(acct, out, price)
    BY <2>1
  <2>3. /\ engine # "flow" /\ price \in Fraction /\ out.cost \in Fraction
        /\ acct' = out.acct /\ mark' = price /\ paid' = paid \oplus out.cost
    BY <2>1, <2>2 DEF Bridges, IsPrice, Types, Book
  <2>4. Valued(acct', price) = Valued(acct, price) \ominus out.cost
    BY <2>1, <2>2, <2>3 DEF Bridges, Fair, FairFutures, Valued, Leveraged
  <2>5. Book_!Move
    BY <2>1, <2>2, <2>3, <2>4, Moves
  <2>6. QED
    BY <2>5 DEF Booked
<1>5. QED
  BY <1>2, <1>3, <1>4

\* Trading implements Account: between two steps of any engine that keeps books the
\* worth changes by quantity times price change, minus the costs it records, and only
\* a liquidation forgives debt. The futures environment closes a position it should
\* reduce part way and reopens it at a wrong entry, and drops the sign of a negative
\* entry when it adds to a short (environments/futures.py:130), so the theorem is about
\* the steps without such orders.
THEOREM TradingImplementsAccount ==
  ASSUME ~MisbookedOrders PROVE Spec => ImplementsAccount
<1>1. Init => Book_!Init
  <2> SUFFICES ASSUME Init PROVE Book_!Init
    OBVIOUS
  <2>1. acct = Fresh /\ mark = Zero /\ paid = Zero /\ Zero \in Fraction
    BY Constants DEF Init
  <2>2. Valued(acct, mark) = InitialCash /\ acct.qty = Zero
    BY <2>1, FreshIs DEF Valued
  <2>3. QED
    BY <2>1, <2>2, SameFractions DEF Book_!Init
<1>2. TradingInv /\ [Next]_vars => Booked
  <2> SUFFICES ASSUME TradingInv, [Next]_vars PROVE Booked
    OBVIOUS
  <2>1. CASE PriceArrives \/ ProcessOrder
    <3>1. engine = "flow" /\ engine' = engine
      BY <2>1 DEF PriceArrives, ProcessOrder
    <3>2. QED
      BY <3>1, BooksStay DEF Booked
  <2>2. CASE UNCHANGED vars
    BY <2>2, BooksStay DEF vars, Booked
  <2>3. QED
    BY <2>1, <2>2, SessionsAreBooked, BacktestsAreBooked, EnvironmentsAreBooked DEF Next
<1>3. QED
  BY <1>1, <1>2, TradingIsInvariant, PTL DEF Spec, ImplementsAccount, Book_!Spec, Booked
=============================================================================
