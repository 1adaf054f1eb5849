\* A killed run leaves a fragment and the CHECKSUM request of the next fails.
CONSTANTS
  f1 = f1 f2 = f2 f3 = f3 g1 = g1 g2 = g2
  Groups = {g1, g2}
  Files = {f1, f3}
  GroupOf <- MCGroupOf
  MaxConcurrent = 2
  RetryCount = 1
  VerifyChecksum = TRUE
  ChecksumAnswers = {"listed", "error"}
  TransferFaults = {"broken", "garbled"}
  DiscoveryMayFail = FALSE
  FsMayFail = FALSE
  MaxFaults = 2
  MaxRuns = 2
  MaxCrashes = 1
SPECIFICATION Spec
INVARIANTS SkippedIsValid
CHECK_DEADLOCK FALSE
