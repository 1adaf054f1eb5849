------------------------- MODULE MCMarketStructure -------------------------
(* Instances of MarketStructure for TLC: two quiet levels, two bearish     *)
(* bars that reach further and further down, and a wide bullish bar.       *)
EXTENDS MarketStructure

OHLC(o, h, l, c) == [open |-> o, high |-> h, low |-> l, close |-> c]

MCBars ==
  {OHLC(6, 6, 6, 6), OHLC(4, 4, 4, 4), OHLC(4, 4, 3, 3), OHLC(4, 4, 2, 2),
   OHLC(2, 6, 1, 5)}
=============================================================================
