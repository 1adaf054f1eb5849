\* Every builder with every plugin, two bars; training on up to five episodes.
CONSTANTS
  Programs <- MCPrograms
  MaxBars = 2
  MaxDepartures = 2
  EpisodeLength = 2
  Strides = {1, 2}
  BarCounts = {1, 6}
  Volatilities <- MCVolatilities
  Curricula <- MCCurricula
  FoldCounts = {2}
  MinFolds = 2
  Variants = 1
  RolloutSteps = 2
  Target = 5
  CacheSize = 1
  Prefetch = 2
  TrainedBars = 1
  TrainedDepartures = 0
SPECIFICATION PlatformSpec
INVARIANTS PlatformTypeOK DisabledNeverRuns FreshRun OverlapIsBounded LoadedOnce
CHECK_DEADLOCK FALSE
