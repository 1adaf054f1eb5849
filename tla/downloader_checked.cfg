\* Every checksum is published; failing requests, a kill, interrupts, reruns.
CONSTANTS
  f1 = f1 f2 = f2 f3 = f3 g1 = g1 g2 = g2
  Groups = {g1, g2}
  Files = {f1, f3}
  GroupOf <- MCGroupOf
  MaxConcurrent = 1
  RetryCount = 1
  VerifyChecksum = TRUE
  ChecksumAnswers = {"listed"}
  TransferFaults = {"refused", "broken", "garbled"}
  DiscoveryMayFail = TRUE
  FsMayFail = FALSE
  MaxFaults = 2
  MaxRuns = 4
  MaxCrashes = 1
SPECIFICATION RerunSpec
INVARIANTS VerifiedIsWhole
PROPERTIES ImplementsStore ExitOkMeansDownloaded EveryFileArrives
CHECK_DEADLOCK FALSE
