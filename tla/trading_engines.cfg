CONSTANTS
  Engines = {"paper", "live", "event_driven", "vectorized", "spot", "futures", "rl_spot", "rl_futures", "flow"}
  Prices <- MCPrices
  MaxBars = 5
  SessionBars = 2
  MaxPoints = 3
  MaxCalls = 5
  MaxEpisodes = 2
  Sizes <- MCSizes
  MisbookedOrders = FALSE
  InitialCash <- MCInitial
  FeeRate <- MCFee
  Slip <- MCSlip
  HalfSpread <- MCSlip
  Impact <- MCFee
  RiskFraction <- MCFee
  MaxExposure <- MCSlip
  Leverage <- MCLeverage
  Maintenance <- MCMaintenance
SPECIFICATION Spec
INVARIANTS TypeOK NeverOverdrawn CleanPass RewardsAddUp
PROPERTY ImplementsAccount
CHECK_DEADLOCK FALSE
