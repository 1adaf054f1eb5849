\* Every series of seven bars of five shapes.
CONSTANTS
  Bars <- MCBars
  Lookback = 1
  DisplacementPct = 30
  MaxBars = 7
SPECIFICATION Spec
INVARIANTS TypeOK BreaksAreConfirmed EachCandleOnce
PROPERTIES ReportsStand EventsSettle
CHECK_DEADLOCK FALSE
