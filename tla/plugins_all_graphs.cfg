\* Every dependency graph of three plugins, one of which may raise, and the
\* command line beside the platform.
CONSTANTS
  pa = pa pb = pb pc = pc g1 = g1 g2 = g2 kit = kit
  Order <- MCOrder
  GroupOf <- MCGroupOf
  GroupOrder <- MCGroupOrder
  DepGraphs <- MCDepGraphs
  BuilderGroup = g1
  feature = feature
  Features = {feature}
  platform = platform
  Platform = platform
  Matrices <- MCMatrices
  Builtin = {pb}
  Required = {pb}
  Cached = {pb, pc}
  Fragile = {pa, pc}
  SafeMode = TRUE
  ResolveGraph = TRUE
  MaxCrashes = 1
  MaxEdits = 1
  MaxLoads = 2
  PackageOf <- MCPackageOf
  Surroundings <- MCSurroundings
  MaxCommands = 3
SPECIFICATION MarketSpec
INVARIANTS MarketTypeOK ResolvedIsClosed OnlyDependentsAreUnmet
  SafeModeContinues TrackedIsInstalled
PROPERTIES ReloadRespectsConfig LoadEnds
CHECK_DEADLOCK FALSE
