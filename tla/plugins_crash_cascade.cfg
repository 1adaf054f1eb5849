\* A plugin raises while it is loaded: its dependents stay enabled.
CONSTANTS
  pa = pa pb = pb pc = pc g1 = g1 g2 = g2
  Order <- MCOrder
  GroupOf <- MCGroupOf
  GroupOrder <- MCGroupOrder
  DepGraphs <- MCDepGraphs
  BuilderGroup = g1
  feature = feature
  Features = {feature}
  platform = platform
  Platform = platform
  Matrices <- MCUniform
  Builtin = {pb}
  Required = {pb}
  Cached = {pb, pc}
  Fragile = {pa, pc}
  SafeMode = TRUE
  ResolveGraph = TRUE
  MaxCrashes = 1
  MaxEdits = 0
  MaxLoads = 1
SPECIFICATION Spec
INVARIANTS FailedIsCascaded
CHECK_DEADLOCK FALSE
