------------------------------ MODULE Accounts ------------------------------
(* The bookkeeping of quant_platform: what an order, a fill or an action   *)
(* does to the cash and the position of whoever holds them. Every engine   *)
(* keeps its books its own way; each way is one operator here. An account  *)
(* is [cash, qty, entry]; an operator that trades returns an Outcome: the  *)
(* account after it, what the trade cost (fees and slippage) and whether   *)
(* the engine counts it as a trade. The entry price is kept where money    *)
(* depends on it, in the futures books; spot books only display it.        *)
EXTENDS Fractions, Sequences

CONSTANTS
  InitialCash,      \* what a fresh account holds
  FeeRate,          \* fee per unit of turnover
  Slip,             \* slippage of the simulated execution, per unit of price
  HalfSpread,       \* half the spread of the RL execution, per unit of price
  Impact,           \* slippage of the RL execution, per unit of price and exposure
  RiskFraction,     \* cap on the size of an order (sessions, fixed risk)
  MaxExposure,      \* the exposure a risk check allows
  Leverage,         \* of the futures markets
  Maintenance       \* maintenance margin per unit of notional

ASSUME AccountsAssumption ==
  /\ {InitialCash, FeeRate, Slip, HalfSpread, Impact, RiskFraction, Leverage, Maintenance}
       \subseteq Fraction
  /\ Zero \prec InitialCash /\ Zero \prec RiskFraction /\ Zero \prec Leverage
  /\ \A rate \in {FeeRate, Slip, HalfSpread, Impact, Maintenance} : Zero \preceq rate
  /\ FeeRate \preceq One /\ RiskFraction \preceq One
  \* A price less its slippage is a price, also for a trade from wholly short
  \* to wholly long.
  /\ Slip \prec One /\ (HalfSpread \oplus (Impact \otimes Whole(2))) \prec One
  \* The fee is less than what an order sells, and than the margin it takes.
  /\ (RiskFraction \otimes FeeRate) \preceq (One \ominus Slip)
  /\ (Leverage \otimes FeeRate) \preceq One

Fresh == [cash |-> InitialCash, qty |-> Zero, entry |-> Zero]

Outcome(a, cost, traded) == [acct |-> a, cost |-> cost, traded |-> traded]
Untouched(a) == Outcome(a, Zero, FALSE)
Charged(a, fee) == [a EXCEPT !.cash = @ \ominus fee]

(* --- what callers hand in: words, orders and signed targets ----------- *)

Side(word) == CASE word \in {"buy", "long"} -> "buy"
                [] word \in {"sell", "short"} -> "sell"
                [] word = "hold" -> "hold"
                [] OTHER -> "other"
Order(side, size) == [side |-> side, size |-> size]
Hold == Order("hold", Zero)

DeadZone == <<1, 20>>
SignedAction(value) ==
  Order(CASE DeadZone \prec value -> "buy"
          [] value \prec <<-1, 20>> -> "sell"
          [] OTHER -> "hold",
        IF DeadZone \prec Magnitude(value) THEN Least(Magnitude(value), One) ELSE Zero)

\* A word that is no side raises, and no caller sends one; an order of an
\* unknown side goes through.
ParseAction(x) ==
  CASE x.form = "word" -> Order(Side(x.side), IF x.side = "hold" THEN Zero ELSE One)
    [] x.form = "order" -> Order(Side(x.side), Clip(x.size, Zero, One))
    [] x.form = "number" -> SignedAction(x.size)

\* Only the latest signal counts, and a signal without a size asks for all.
SignalToAction(signals) ==
  IF signals = <<>> THEN Hold
  ELSE LET latest == signals[Len(signals)]
       IN  Order(Side(latest.side), IF latest.sized THEN latest.size ELSE One)

(* --- spot environments and the event-driven backtest ------------------ *)

Worth(a, price) == a.cash \oplus (a.qty \otimes price)

\* The entry price of a position enlarged by units bought at price.
Blended(a, units, price) ==
  ((a.qty \otimes a.entry) \oplus (units \otimes price)) \oslash (a.qty \oplus units)

SellDown(a, units, price, fee) ==
  [a EXCEPT !.cash = (@ \oplus (units \otimes price)) \ominus fee, !.qty = @ \ominus units]

SpotExecute(a, side, size, price) ==
  LET budget == a.cash \otimes size
      fee    == budget \otimes FeeRate
      units  == (budget \ominus fee) \oslash price
      sold   == a.qty \otimes size
  IN  CASE side = "buy" /\ Zero \prec a.cash /\ Zero \prec units ->
             Outcome([a EXCEPT !.cash = @ \ominus budget, !.qty = @ \oplus units], fee, TRUE)
        [] side = "sell" /\ Zero \prec a.qty /\ Zero \prec size ->
             LET cut == (sold \otimes price) \otimes FeeRate
             IN  Outcome(SellDown(a, sold, price, cut), cut, TRUE)
        [] OTHER -> Untouched(a)

BacktestExecute(a, action, price) ==
  LET order == ParseAction(action)
  IN  IF order.side = "hold" \/ order.size = Zero THEN Untouched(a)
      ELSE SpotExecute(a, order.side, order.size, price)

(* --- futures environment ---------------------------------------------- *)

FuturesWorth(a, price) == a.cash \oplus (a.qty \otimes (price \ominus a.entry))
MaintenanceRequirement(a, price) == (Magnitude(a.qty) \otimes price) \otimes Maintenance

OpenLong(a, units, price) ==
  LET qty == a.qty \oplus units
  IN  [a EXCEPT !.qty = qty,
                !.entry = IF qty = Zero THEN Zero ELSE Blended(a, units, price)]

\* Selling while long is capped at the position, but the notional of what is
\* sold is still added to the notional of the rest; the entry price of a short,
\* negative after a cover at a much higher price, counts without its sign.
OpenShort(a, units, price) ==
  LET sold == IF Zero \prec a.qty THEN Least(units, a.qty) ELSE units
      qty  == a.qty \ominus sold
      sum  == (Magnitude(a.qty) \otimes Magnitude(a.entry)) \oplus (sold \otimes price)
  IN  [a EXCEPT !.qty = qty,
                !.entry = IF qty = Zero THEN Zero ELSE sum \oslash Magnitude(qty)]

\* The pnl of a short taken as that of a long.
ClosePartialOneWay(a, units, price) ==
  LET closed == Least(units, Magnitude(a.qty))
      signed == IF a.qty \prec Zero THEN Zero \ominus closed ELSE closed
      left   == a.qty \ominus signed
  IN  [cash  |-> a.cash \oplus (closed \otimes (price \ominus a.entry)),
       qty   |-> left,
       entry |-> IF left = Zero THEN Zero ELSE a.entry]

ClosePartial(a, units, price) ==
  LET closed == Least(units, Magnitude(a.qty))
      signed == IF a.qty \prec Zero THEN Zero \ominus closed ELSE closed
      left   == a.qty \ominus signed
  IN  [cash  |-> a.cash \oplus (signed \otimes (price \ominus a.entry)),
       qty   |-> left,
       entry |-> IF left = Zero THEN Zero ELSE a.entry]

FuturesUnits(a, size, price) == ((a.cash \otimes Leverage) \otimes size) \oslash price

\* A side that is none of the three trades nothing and pays the fee.
FuturesExecute(a, side, size, price) ==
  LET units   == FuturesUnits(a, size, price)
      fee     == (units \otimes price) \otimes FeeRate
      charged == Charged(a, fee)
      reduced == IF (side = "buy" /\ a.qty \prec Zero) \/ (side = "sell" /\ Zero \prec a.qty)
                 THEN ClosePartial(charged, units, price) ELSE charged
  IN  IF side = "hold" \/ size = Zero THEN Untouched(a)
      ELSE Outcome(CASE Zero \prec units /\ side = "buy" -> OpenLong(reduced, units, price)
                     [] Zero \prec units /\ side = "sell" -> OpenShort(reduced, units, price)
                     [] OTHER -> charged,
                   fee, TRUE)

\* What is left of a liquidated account.
Liquidated(a, worth) == [cash |-> Greatest(worth, Zero), qty |-> Zero, entry |-> Zero]

(* --- fills: paper broker, simulated execution, portfolios -------------- *)

NoFill == [status |-> "skipped", side |-> "hold", price |-> Zero, qty |-> Zero, fee |-> Zero]

\* The size of an order is a fraction of equity; a sell is sized the same way.
SimulateFill(order, price, equity) ==
  LET slip     == price \otimes Slip
      filled   == IF order.side = "buy" THEN price \oplus slip ELSE price \ominus slip
      notional == equity \otimes order.size
  IN  IF order.side = "hold" \/ order.size \preceq Zero THEN NoFill
      ELSE [status |-> "filled", side |-> order.side, price |-> filled,
            qty |-> notional \oslash filled, fee |-> notional \otimes FeeRate]

Exposure(a, price) ==
  LET worth == Worth(a, price)
  IN  IF Zero \prec worth THEN Magnitude(a.qty \otimes price) \oslash worth ELSE Zero

PortfolioState(a, price) ==
  [cash |-> a.cash, equity |-> Worth(a, price), exposure |-> Exposure(a, price), held |-> a]

\* What units traded at fill.price instead of price cost.
Slippage(units, fill, price) == units \otimes Magnitude(fill.price \ominus price)

\* A sell of more than is held.
ApplyFillUnclipped(a, fill, price) ==
  IF fill.status = "filled" /\ fill.side = "sell"
  THEN Outcome(SellDown(a, fill.qty, fill.price, fill.fee), fill.fee, TRUE) ELSE Untouched(a)

\* A buy that compares its price with the cash and forgets the fee.
ApplyFillBeforeFee(a, fill, price) ==
  IF fill.status = "filled" /\ fill.side = "buy" /\ (fill.qty \otimes fill.price) \preceq a.cash
  THEN Outcome([a EXCEPT !.cash = (@ \ominus (fill.qty \otimes fill.price)) \ominus fill.fee,
                         !.qty = @ \oplus fill.qty], fill.fee, TRUE)
  ELSE Untouched(a)

\* The portfolio refuses a buy it cannot pay; a sell is clipped to what is
\* held and pays the whole fee.
ApplyFillSingle(a, fill, price) ==
  LET due  == (fill.qty \otimes fill.price) \oplus fill.fee
      sold == Least(fill.qty, a.qty)
  IN  CASE fill.status = "filled" /\ fill.side = "buy" /\ Zero \prec fill.qty /\ due \preceq a.cash ->
             Outcome([a EXCEPT !.cash = @ \ominus due, !.qty = @ \oplus fill.qty],
                     fill.fee \oplus Slippage(fill.qty, fill, price), TRUE)
        [] fill.status = "filled" /\ fill.side = "sell" /\ Zero \prec fill.qty ->
             Outcome(SellDown(a, sold, fill.price, fill.fee),
                     fill.fee \oplus Slippage(sold, fill, price), TRUE)
        [] OTHER -> Untouched(a)

\* The multi-asset portfolio, seen from one symbol: a sell of a symbol that is
\* not held is ignored, fee included.
ApplyFillMulti(a, fill, price) ==
  IF fill.side = "sell" /\ a.qty = Zero THEN Untouched(a) ELSE ApplyFillSingle(a, fill, price)

Capped(action) == Order(action.side, Least(action.size, RiskFraction))

SubmitOrder(order, price, equity) ==
  IF order.side = "hold" THEN NoFill ELSE SimulateFill(order, price, equity)

(* --- risk ---------------------------------------------------------------- *)

KellyCap == <<1, 4>>
KellyFraction(winRate, ratio) ==
  IF ratio \preceq Zero THEN Zero
  ELSE Clip(winRate \ominus ((One \ominus winRate) \oslash ratio), Zero, KellyCap)

\* stats: what the context says of past trades; state: the last portfolio_state.
PositionSize(risk, state, stats) ==
  CASE risk = "fixed_risk" -> IF state.equity \preceq Zero THEN Zero ELSE Least(RiskFraction, One)
    [] risk = "kelly_risk" -> KellyFraction(stats.winRate, stats.ratio)

\* The check adds the size of the order to the exposure whichever way it goes.
RiskCheck(risk, order, state, stats) ==
  \/ order.side = "hold"
  \/ /\ Zero \prec order.size
     /\ order.size \preceq
          (IF risk = "fixed_risk" THEN One ELSE KellyFraction(stats.winRate, stats.ratio))
     /\ (state.exposure \oplus order.size) \preceq MaxExposure

\* A composite asks every child and takes the smallest size.
CompositeCheck(risks, order, state, stats) == \A r \in risks : RiskCheck(r, order, state, stats)
CompositeSize(risks, state, stats) ==
  IF risks = {} THEN Zero
  ELSE LET sizes == {PositionSize(r, state, stats) : r \in risks}
       IN  CHOOSE s \in sizes : \A q \in sizes : s \preceq q

(* --- the RL environment: targets instead of orders ------------------------ *)

ClipTarget(market, target) == Clip(target, IF market = "spot" THEN Zero ELSE <<-1, 1>>, One)
TrackerWorth(market, a, price) ==
  IF market = "spot" THEN Worth(a, price) ELSE FuturesWorth(a, price)
Notional(market, worth) == IF market = "spot" THEN worth ELSE worth \otimes Leverage
CurrentExposure(market, a, price, worth) ==
  IF worth \preceq Zero THEN Zero
  ELSE ClipTarget(market, (a.qty \otimes price) \oslash Notional(market, worth))

\* The units traded to bring the position to the target share of the account.
SimulateTarget(market, a, target, price) ==
  LET worth  == TrackerWorth(market, a, price)
      goal   == ClipTarget(market, target)
      delta  == goal \ominus CurrentExposure(market, a, price, worth)
      slip   == price \otimes (HalfSpread \oplus (Impact \otimes Magnitude(delta)))
      filled == IF Zero \prec delta THEN price \oplus slip ELSE price \ominus slip
      value  == (goal \otimes Notional(market, worth)) \ominus (a.qty \otimes price)
      cap    == Greatest(worth \ominus (a.qty \otimes price), Zero)
      units  == (IF market = "spot" /\ Zero \prec delta THEN Least(value, cap) ELSE value)
                  \oslash filled
  IN  IF worth \preceq Zero \/ delta = Zero THEN [price |-> price, units |-> Zero, fee |-> Zero]
      ELSE [price |-> filled, units |-> units,
            fee |-> Magnitude(units \otimes filled) \otimes FeeRate]

SameSide(a, units) == a.qty = Zero \/ (Zero \prec a.qty) = (Zero \prec units)

MoveSpot(a, fill) ==
  IF Zero \prec fill.units
  THEN [a EXCEPT !.cash = @ \ominus (fill.units \otimes fill.price), !.qty = @ \oplus fill.units]
  ELSE SellDown(a, Least(a.qty, Magnitude(fill.units)), fill.price, Zero)

MoveFutures(a, fill) ==
  LET qty    == a.qty \oplus fill.units
      grown  == ((Magnitude(a.qty) \otimes a.entry) \oplus (Magnitude(fill.units) \otimes fill.price))
                  \oslash Magnitude(qty)
      closed == IF Zero \prec a.qty THEN Least(a.qty, Magnitude(fill.units))
                ELSE Zero \ominus Least(Magnitude(a.qty), fill.units)
  IN  IF SameSide(a, fill.units) THEN [a EXCEPT !.qty = qty, !.entry = grown]
      ELSE [cash  |-> a.cash \oplus (closed \otimes (fill.price \ominus a.entry)),
            qty   |-> qty,
            entry |-> CASE qty = Zero -> Zero
                        [] qty # Zero /\ (Zero \prec a.qty) # (Zero \prec qty) -> fill.price
                        [] OTHER -> a.entry]

TrackerApply(market, a, fill, price) ==
  LET moved == IF fill.units = Zero THEN a
               ELSE IF market = "spot" THEN MoveSpot(a, fill) ELSE MoveFutures(a, fill)
  IN  Outcome(Charged(moved, fill.fee),
              fill.fee \oplus (Magnitude(moved.qty \ominus a.qty) \otimes Magnitude(fill.price \ominus price)),
              fill.units # Zero)

(* --- rewards of the RL environment ----------------------------------------- *)

DrawdownWeight == <<3, 20>>
SharpeWeight == <<1, 10>>
ContextWeight == <<1, 20>>
HintThreshold == Half

Drawdown(peak, worth) == Greatest(Zero, (peak \ominus worth) \oslash peak)

\* A confident hint paid for whatever the step earned.
StepRewardForHints(profit, drawdown, hint) ==
  (profit \oslash InitialCash) \oplus
    (IF HintThreshold \preceq hint THEN hint \otimes ContextWeight ELSE Zero)

\* What a step is paid: its profit, a bonus for a profit and for a confident
\* hint that came with one, less a share of the drawdown.
StepReward(profit, drawdown, hint) ==
  LET gain    == profit \oslash InitialCash
      bonus   == IF Zero \prec profit THEN gain \otimes SharpeWeight ELSE Zero
      context == IF Zero \prec profit /\ HintThreshold \preceq hint
                 THEN Least(ContextWeight, hint \otimes ContextWeight) ELSE Zero
  IN  ((gain \oplus bonus) \ominus (drawdown \otimes DrawdownWeight)) \oplus context

\* A trained policy's exposure as the signal a backtest understands: a spot
\* policy below its threshold sells everything, a futures policy waits.
FlatBand == <<1, 50>>
ActionToSignal(market, action) ==
  LET target == ClipTarget("spot", action)
      size   == Least(Magnitude(action), One)
      signal(side, amount) == [side |-> side, sized |-> TRUE, size |-> amount]
  IN  IF market = "spot"
      THEN CASE DeadZone \prec target -> signal("buy", target)
             [] target \preceq FlatBand -> signal("sell", One)
             [] OTHER -> signal("hold", Zero)
      ELSE CASE DeadZone \prec action -> signal("buy", size)
             [] action \prec <<-1, 20>> -> signal("sell", size)
             [] OTHER -> signal("hold", Zero)
=============================================================================
