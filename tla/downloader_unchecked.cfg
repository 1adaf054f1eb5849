\* Checksums that are missing or cannot be fetched, file system errors.
CONSTANTS
  f1 = f1 f2 = f2 f3 = f3 g1 = g1 g2 = g2
  Groups = {g1, g2}
  Files = {f1, f2, f3}
  GroupOf <- MCGroupOf
  MaxConcurrent = 2
  RetryCount = 1
  VerifyChecksum = TRUE
  ChecksumAnswers = {"listed", "absent", "error"}
  TransferFaults = {"broken", "garbled"}
  DiscoveryMayFail = FALSE
  FsMayFail = TRUE
  MaxFaults = 2
  MaxRuns = 2
  MaxCrashes = 1
SPECIFICATION FairSpec
INVARIANTS CountedIsSettled DInv
PROPERTIES WholeFilesAreKept RunEnds
CHECK_DEADLOCK FALSE
