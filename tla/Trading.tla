------------------------------ MODULE Trading ------------------------------
(* Whoever trades over a series of closing prices: the paper and the live  *)
(* session, the two backtests, the spot and the futures environment, the   *)
(* environment the RL product trains in, and the order flow that sends one *)
(* order at a time through risk, execution and portfolio plugins. One of   *)
(* them runs in a behaviour, chosen at the start. Strategies, policies,    *)
(* exchanges and callers are free: a strategy may give any signals or      *)
(* fail, a fetched price may be any price or an error, and sessions may be *)
(* started and stopped in any order.                                       *)
EXTENDS Accounts, FiniteSets

CONSTANTS
  Engines,            \* the engines a run lets trade
  Prices,             \* prices a close or a ticker may take
  MaxBars,            \* bars of the longest series
  SessionBars,        \* bars of the longest series of a session
  MaxPoints,          \* points of a curve at which a session may still be stopped again
  MaxCalls,           \* starts, stops and orders in a behaviour
  MaxEpisodes,        \* runs of a backtest or an environment in a behaviour
  Sizes,              \* sizes a strategy asks for
  MisbookedOrders     \* whether the futures orders that the books get wrong are sent

ASSUME TradingAssumption ==
  /\ {MaxBars, SessionBars, MaxPoints, MaxCalls, MaxEpisodes} \subseteq Nat
  /\ SessionBars \in 1 .. MaxBars /\ MaxEpisodes <= MaxCalls
  /\ Prices \subseteq Fraction /\ \A price \in Prices : Zero \prec price
  /\ Sizes \subseteq Fraction /\ \A size \in Sizes : Zero \preceq size /\ size \preceq One
  /\ MisbookedOrders \in BOOLEAN

VARIABLES
  engine,   \* who trades
  closes,   \* the closing prices of the series, empty for a live session on tickers
  acct,     \* the account: cash, quantity, entry price
  mark,     \* the price acct last traded or was valued at
  paid,     \* fees and slippage since the account was opened
  phase,    \* "idle", "running", "replaying" or "done"
  cursor,   \* the bar the next tick or step takes
  curve,    \* equity_curve of a session or a backtest: its length and last point
  trades,   \* fills a session counts, trades of a backtest
  ticker,   \* the ticker a live session holds, Zero if none
  rewards,  \* of an environment: worth after the last step, sum of the steps' gains,
            \* highest worth so far, gain and reward of the last step
  clean,    \* whether nothing happened since the last start
  report,   \* the result the last stop or backtest returned
  context,  \* what the order flow's context holds: price, portfolio_state, last result
  calls     \* calls so far

book == <<acct, mark, paid>>
pass == <<cursor, curve, trades>>
vars == <<engine, closes, book, phase, pass, ticker, rewards, clean, report, context, calls>>

Sessions == {"paper", "live"}
Environments == {"spot", "futures"}
Bridges == {"rl_spot", "rl_futures"}
Market == IF engine = "rl_spot" THEN "spot" ELSE "futures"
Leveraged == {"futures", "rl_futures"}

NoPoints == [points |-> 0, last |-> Zero]
Point(c, worth) == [points |-> c.points + 1, last |-> worth]
None == [status |-> "none"]
FreshState == PortfolioState(Fresh, Zero)
Series(longest) == UNION {[1 .. n -> Prices] : n \in 1 .. longest}

Unrewarded ==
  [prev |-> InitialCash, earned |-> Zero, peak |-> InitialCash, gain |-> Zero, given |-> Zero]

Valued(a, price) == IF engine \in Leveraged THEN FuturesWorth(a, price) ELSE Worth(a, price)

Init ==
  /\ engine \in Engines
  /\ closes \in CASE engine \in Bridges \cup {"paper"} -> Series(SessionBars)
                  [] engine = "live" -> Series(SessionBars) \cup {<<>>}
                  [] engine = "flow" -> {<<>>}
                  [] OTHER -> Series(MaxBars)
  /\ acct = Fresh /\ mark = Zero /\ paid = Zero
  /\ phase = "idle" /\ cursor = 1 /\ curve = NoPoints /\ trades = 0
  /\ ticker = Zero
  /\ rewards = Unrewarded
  /\ clean = FALSE
  /\ report = None
  /\ context = [price |-> Zero, state |-> None, result |-> None]
  /\ calls = 0

Call ==
  /\ calls < IF engine \in Sessions \cup {"flow"} THEN MaxCalls ELSE MaxEpisodes
  /\ calls' = calls + 1

Reopen == acct' = Fresh /\ mark' = Zero /\ paid' = Zero

\* The account after an outcome at price.
Book(out, price) ==
  /\ acct' = out.acct
  /\ mark' = price
  /\ paid' = paid \oplus out.cost

\* What a trained policy may answer.
Targets == Sizes \cup {Zero, <<-1, 1>>}

\* What a strategy may answer: no signal, or a latest one of any side and size.
Signal(side) == [side |-> side, sized |-> FALSE, size |-> Zero]
SizedSignal(side, size) == [side |-> side, sized |-> TRUE, size |-> size]
Signals ==
  {<<>>, <<Signal("long")>>, <<SizedSignal("buy", One), Signal("short")>>, <<Signal("exit")>>}
    \cup {<<SizedSignal(side, size)>> : side \in {"buy", "sell"}, size \in Sizes}
    \cup {<<ActionToSignal(market, action)>> : market \in {"spot", "futures"}, action \in Targets}
Actions == {SignalToAction(s) : s \in Signals}
\* What a caller may step an environment or a backtest with.
Input(form, side, size) == [form |-> form, side |-> side, size |-> size]
Inputs ==
  {Input("word", side, Zero) : side \in {"hold", "long", "sell"}}
    \cup {Input("order", side, size) : side \in {"buy", "short", "exit"}, size \in Sizes}
    \cup {Input("number", "", Zero \ominus size) : size \in Sizes}

(* --- paper and live sessions -------------------------------------------- *)

\* A start that leaves the curve and the fills of the last pass.
StartSessionAppends ==
  /\ engine \in Sessions /\ phase # "replaying"
  /\ Call
  /\ Reopen
  /\ cursor' = 1
  /\ phase' = "running" /\ clean' = TRUE /\ report' = None
  /\ ticker' \in (IF closes = <<>> THEN Prices \cup {Zero} ELSE {Zero})
  /\ UNCHANGED <<engine, closes, curve, trades, rewards, context>>

\* A live session without bars fetches a ticker; the fetch may raise, and
\* what was reset stays reset.
StartSession ==
  /\ engine \in Sessions /\ phase # "replaying"
  /\ Call
  /\ Reopen
  /\ curve' = NoPoints /\ trades' = 0 /\ cursor' = 1
  /\ phase' = "running" /\ clean' = TRUE /\ report' = None
  /\ ticker' \in (IF closes = <<>> THEN Prices \cup {Zero} ELSE {Zero})
  /\ UNCHANGED <<engine, closes, rewards, context>>

\* stop() replays the bars; nothing checks that the session was started.
StopSession ==
  /\ engine \in Sessions /\ phase # "replaying" /\ curve.points <= MaxPoints
  /\ Call
  /\ phase' = "replaying" /\ cursor' = 1 /\ report' = None
  /\ UNCHANGED <<engine, closes, book, curve, trades, ticker, rewards, clean, context>>

\* One bar: the strategy sees the portfolio at price, its order is capped,
\* filled by the paper broker and handed to the portfolio. A filled order is
\* counted whether or not the portfolio took it.
ProcessTick(price, action) ==
  LET state  == PortfolioState(acct, price)
      sent   == action.side # "hold" /\ Zero \prec action.size
      fill   == IF sent THEN SubmitOrder(Capped(action), price, state.equity) ELSE NoFill
      out    == ApplyFillSingle(acct, fill, price)
  IN  /\ Book(out, price)
      /\ trades' = IF fill.status = "filled" THEN trades + 1 ELSE trades
      /\ curve' = Point(curve, Worth(out.acct, price))

\* A paper session trades at the close, a live one at the exchange's price,
\* or at the close if it has no exchange.
TickPrices ==
  CASE engine = "paper" -> {closes[cursor]}
    [] engine = "live" /\ closes # <<>> -> Prices
    [] OTHER -> IF ticker = Zero THEN Prices ELSE {ticker}

Replayed == cursor > Cardinality(DOMAIN closes \cup {1})

Tick ==
  /\ engine \in Sessions /\ phase = "replaying" /\ ~Replayed
  /\ \E price \in TickPrices, action \in Actions :
       /\ ProcessTick(price, action)
       /\ ticker' = IF engine = "live" /\ closes # <<>> THEN price ELSE ticker
  /\ cursor' = cursor + 1
  /\ UNCHANGED <<engine, closes, phase, rewards, clean, report, context, calls>>

\* The exchange or the strategy raises: stop() ends where it is, the ticks
\* already processed stay, and the session still counts as running.
TickFails ==
  /\ engine \in Sessions /\ phase = "replaying" /\ ~Replayed
  /\ phase' = "running" /\ clean' = FALSE
  /\ UNCHANGED <<engine, closes, book, pass, ticker, rewards, report, context, calls>>

\* The final equity is taken at the last close, or at the ticker start fetched;
\* a ticker that is fetched only now is traded at and not kept.
FinalPrice == IF closes # <<>> THEN closes[Len(closes)] ELSE ticker

FinishSession ==
  /\ engine \in Sessions /\ phase = "replaying" /\ Replayed
  /\ LET final == Worth(acct, FinalPrice)
     IN  report' = [status |-> "stopped", pnl |-> final \ominus InitialCash, trades |-> trades,
                    points |-> curve.points, clean |-> clean, final |-> FinalPrice]
  /\ mark' = FinalPrice
  /\ phase' = "done" /\ clean' = FALSE
  /\ UNCHANGED <<engine, closes, acct, paid, pass, ticker, rewards, context, calls>>

(* --- backtests ------------------------------------------------------------ *)

\* Each run has a portfolio of its own; the curve starts before the first bar.
StartBacktest ==
  /\ engine = "event_driven" /\ phase # "replaying"
  /\ Call
  /\ Reopen
  /\ curve' = Point(NoPoints, InitialCash) /\ trades' = 0 /\ cursor' = 1
  /\ phase' = "replaying" /\ clean' = TRUE /\ report' = None
  /\ UNCHANGED <<engine, closes, ticker, rewards, context>>

BacktestBar ==
  /\ engine = "event_driven" /\ phase = "replaying" /\ cursor <= Len(closes)
  /\ \E action \in Inputs :
       LET price == closes[cursor]
           out   == BacktestExecute(acct, action, price)
       IN  /\ Book(out, price)
           /\ trades' = IF out.traded THEN trades + 1 ELSE trades
           /\ curve' = Point(curve, Worth(out.acct, price))
  /\ cursor' = cursor + 1
  /\ UNCHANGED <<engine, closes, phase, ticker, rewards, clean, report, context, calls>>

\* The vectorized engine holds a weight of its equity over each return.
Weighted(equity, weight, price) ==
  [cash |-> equity \otimes (One \ominus weight), qty |-> (equity \otimes weight) \oslash price,
   entry |-> Zero]
Weights == {Zero} \cup Sizes

StartVectorized ==
  /\ engine = "vectorized" /\ phase # "replaying"
  /\ Call
  /\ mark' = closes[1] /\ paid' = Zero
  /\ \E weight \in IF Len(closes) < 2 THEN {Zero} ELSE Weights :
       acct' = Weighted(InitialCash, weight, closes[1])
  /\ curve' = Point(NoPoints, InitialCash) /\ trades' = 0 /\ cursor' = 2
  /\ phase' = "replaying" /\ clean' = TRUE /\ report' = None
  /\ UNCHANGED <<engine, closes, ticker, rewards, context>>

VectorizedBar ==
  /\ engine = "vectorized" /\ phase = "replaying" /\ cursor <= Len(closes)
  /\ \E weight \in Weights :
       LET equity == Worth(acct, closes[cursor])
           old    == (acct.qty \otimes mark) \oslash Worth(acct, mark)
       IN  /\ acct' = Weighted(equity, weight, closes[cursor])
           /\ curve' = Point(curve, equity)
           /\ trades' = IF weight = old THEN trades ELSE trades + 1
  /\ mark' = closes[cursor]
  /\ cursor' = cursor + 1
  /\ UNCHANGED <<engine, closes, paid, phase, ticker, rewards, clean, report, context, calls>>

FinishBacktest ==
  /\ engine \in {"event_driven", "vectorized"} /\ phase = "replaying" /\ cursor > Len(closes)
  /\ report' = [status |-> engine, pnl |-> curve.last \ominus InitialCash, trades |-> trades,
                points |-> curve.points, clean |-> TRUE, final |-> closes[Len(closes)]]
  /\ phase' = "done" /\ clean' = FALSE
  /\ UNCHANGED <<engine, closes, book, pass, ticker, rewards, context, calls>>

(* --- spot and futures environments ------------------------------------------ *)

ResetEnvironment ==
  /\ engine \in Environments \cup Bridges
  /\ Call
  /\ Reopen
  /\ rewards' = Unrewarded
  /\ cursor' = 1 /\ phase' = "running"
  /\ UNCHANGED <<engine, closes, curve, trades, ticker, clean, report, context>>

\* Whether the futures books get an order wrong (see the README): one that takes
\* a position down without closing it at once and for good, and a sell onto a
\* short whose entry price a cover has made negative.
Misbooked(order, price) ==
  LET units == FuturesUnits(acct, order.size, price)
  IN  /\ Zero \prec units
      /\ \/ order.side = "sell" /\ Zero \prec acct.qty /\ units \prec acct.qty
         \/ order.side = "buy" /\ acct.qty \prec Zero /\ (units \oplus units) = Magnitude(acct.qty)
         \/ order.side = "sell" /\ acct.qty \prec Zero /\ acct.entry \prec Zero

EnvironmentOutcome(order, price) ==
  IF engine = "spot"
  THEN IF order.side = "hold" THEN Untouched(acct) ELSE SpotExecute(acct, order.side, order.size, price)
  ELSE FuturesExecute(acct, order.side, order.size, price)

\* The reward is taken at the price traded at, before the step moves on; the
\* episode ends when the next bar is the last one.
StepEnvironment ==
  /\ engine \in Environments /\ phase = "running"
  /\ \E input \in Inputs :
       LET price  == closes[cursor]
           order  == ParseAction(input)
           out    == EnvironmentOutcome(order, price)
           worth  == Valued(out.acct, price)
           broken == /\ engine = "futures"
                     /\ worth \preceq MaintenanceRequirement(out.acct, price)
       IN  /\ engine = "futures" => MisbookedOrders \/ ~Misbooked(order, price)
           /\ acct' = IF broken THEN Liquidated(out.acct, worth) ELSE out.acct
           /\ mark' = price /\ paid' = paid \oplus out.cost
           /\ rewards' = [rewards EXCEPT !.prev = worth, !.earned = @ \oplus (worth \ominus rewards.prev)]
           /\ phase' = IF broken \/ cursor + 1 >= Len(closes) THEN "done" ELSE "running"
  /\ cursor' = cursor + 1
  /\ UNCHANGED <<engine, closes, curve, trades, ticker, clean, report, context, calls>>

(* --- the environment the RL product trains in ------------------------------------ *)

\* The policy is paid at the close it traded at. Whether the episode is over
\* is asked before the cursor moves: an episode has a step per bar, and the
\* last observation is of the bar just traded.
StepBridge ==
  /\ engine \in Bridges /\ phase = "running"
  /\ \E target \in Targets, hint \in {Zero, Half} :
       LET price == closes[cursor]
           fill  == SimulateTarget(Market, acct, ClipTarget(Market, target), price)
           out   == TrackerApply(Market, acct, fill, price)
           worth == Valued(out.acct, price)
           gain  == worth \ominus rewards.prev
           peak  == Greatest(rewards.peak, worth)
       IN  /\ Book(out, price)
           /\ rewards' = [prev |-> worth, earned |-> rewards.earned \oplus gain, peak |-> peak,
                          gain |-> gain, given |-> StepReward(gain, Drawdown(peak, worth), hint)]
  /\ IF cursor = Len(closes) THEN phase' = "done" /\ UNCHANGED cursor
     ELSE cursor' = cursor + 1 /\ UNCHANGED phase
  /\ UNCHANGED <<engine, closes, curve, trades, ticker, clean, report, context, calls>>

(* --- order flow ---------------------------------------------------------------- *)

Risks == {"fixed_risk", "kelly_risk"}
Stats == {[winRate |-> Half, ratio |-> One], [winRate |-> <<3, 4>>, ratio |-> One]}

\* A closed bar puts a price into the context.
PriceArrives ==
  /\ engine = "flow" /\ Call
  /\ \E price \in Prices : context' = [context EXCEPT !.price = price]
  /\ UNCHANGED <<engine, closes, book, phase, pass, ticker, rewards, clean, report>>

Known == IF context.state = None THEN FreshState ELSE context.state

\* One order: sized and checked against the portfolio_state of the context,
\* filled, and applied to the portfolio the manager hands out, which is a new
\* one each time: what the last order left is in the context only.
ProcessOrder ==
  /\ engine = "flow" /\ context.price # Zero /\ Call
  /\ \E side \in {"buy", "sell", "hold"}, risks \in (SUBSET Risks) \ {{}}, stats \in Stats,
        apply \in {"single_asset", "multi_asset"} :
       LET order == Order(side, CompositeSize(risks, Known, stats))
           fill  == SimulateFill(order, context.price, Known.equity)
           out   == IF apply = "single_asset" THEN ApplyFillSingle(Fresh, fill, context.price)
                    ELSE ApplyFillMulti(Fresh, fill, context.price)
       IN  IF CompositeCheck(risks, order, Known, stats)
           THEN /\ Book([out EXCEPT !.cost = out.cost \ominus paid], context.price)
                /\ trades' = IF fill.status = "filled" THEN trades + 1 ELSE trades
                /\ context' = [context EXCEPT !.state = PortfolioState(out.acct, context.price),
                                              !.result = fill]
           ELSE /\ context' = [context EXCEPT !.result = [status |-> "rejected"]]
                /\ UNCHANGED <<book, trades>>
  /\ UNCHANGED <<engine, closes, phase, cursor, curve, ticker, rewards, clean, report>>

Next ==
  \/ StartSession \/ StopSession \/ Tick \/ TickFails \/ FinishSession
  \/ StartBacktest \/ BacktestBar \/ StartVectorized \/ VectorizedBar \/ FinishBacktest
  \/ ResetEnvironment \/ StepEnvironment \/ StepBridge
  \/ PriceArrives \/ ProcessOrder

Spec == Init /\ [][Next]_vars

-----------------------------------------------------------------------------

\* Every variable stays in its type; positions are long only outside futures.
TypeOK ==
  /\ engine \in Engines
  /\ phase \in {"idle", "running", "replaying", "done"}
  /\ engine \notin Leveraged => Zero \preceq acct.qty
  /\ cursor \in 1 .. (MaxBars + 1) /\ curve.points <= MaxPoints + MaxBars + 1
  /\ trades \in Nat /\ calls \in 0 .. MaxCalls

\* No spot engine spends cash it has not got, whatever the order of buys,
\* sells, refused fills and fees of sells (portfolios/single.py:54 is the only
\* check there is; spot.py and event_driven.py rely on the budget being a
\* share of the cash). The RL tracker buys with all its cash and pays the fee
\* on top (env/execution.py:117-129): its debt never exceeds what it paid.
NeverOverdrawn ==
  /\ engine \notin Leveraged \cup Bridges => Zero \preceq acct.cash
  /\ engine = "rl_spot" => Zero \preceq (acct.cash \oplus paid)

\* A stop right after a start reports that pass and nothing else, whatever was
\* started, stopped or broken off before: one point per bar, or the single
\* tick of a session without bars, one more for the event-driven curve, which
\* starts before the first bar; no more trades than points; and a profit that
\* is the account's worth at the final price.
CleanPass ==
  report # None /\ report.clean =>
    /\ report.points = CASE engine = "event_driven" -> Len(closes) + 1
                         [] closes = <<>> -> 1
                         [] OTHER -> Len(closes)
    /\ report.trades <= report.points
    /\ phase = "done" => report.pnl = Worth(acct, report.final) \ominus InitialCash

\* The rewards of an episode add up to what the account gained; a liquidated
\* account that was in debt is worth more than its rewards say. The RL bridge
\* never pays for a step that lost, whatever the hints, and charges the
\* drawdown of a step that set a new high at nothing.
RewardsAddUp ==
  engine \in Environments \cup Bridges =>
    /\ rewards.earned = rewards.prev \ominus InitialCash
    /\ rewards.prev \preceq Valued(acct, mark)
    /\ engine \in Bridges \/ acct.qty # Zero => rewards.prev = Valued(acct, mark)
    /\ Zero \prec rewards.given => Zero \prec rewards.gain
    /\ Zero \prec rewards.gain /\ rewards.prev = rewards.peak =>
         engine \in Environments \/ Zero \prec rewards.given

\* Sessions, backtests and environments keep the promise of Account: worth
\* moves with the price of what is held and with costs alone. The order flow
\* opens an account per order and is left out.
Book_ == INSTANCE Account WITH
  Initial <- InitialCash,
  worth   <- IF engine = "flow" THEN InitialCash ELSE Valued(acct, mark),
  holding <- IF engine = "flow" THEN Zero ELSE acct.qty,
  mark    <- IF engine = "flow" THEN Zero ELSE mark,
  paid    <- IF engine = "flow" THEN Zero ELSE paid
ImplementsAccount == Book_!Spec
=============================================================================
