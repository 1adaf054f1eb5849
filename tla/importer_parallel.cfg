\* Two pool threads, three months, one failing call, one kill, two runs.
CONSTANTS
  z1 = z1 z2 = z2 z3 = z3 j1 = j1 j2 = j2 j3 = j3
  Zips = {z1, z2, z3}
  Jobs = {j1, j2, j3}
  ZipOf <- MCZipOf
  Rank <- MCRank
  Batches <- MCBatches
  Quality <- MCQuality
  Workers = {w1, w2}
  NoJob = NoJob
  SerialImport = FALSE
  StrictValidation = TRUE
  RollbackOnFailure = TRUE
  DeleteAfterImport = FALSE
  RetryCount = 1
  InsertFaults = {"refused", "lost"}
  DeleteFaults = {"refused", "lost"}
  MarkFaults = {"refused"}
  UnmarkFaults = {"refused", "lost"}
  CheckMayFail = FALSE
  UnlinkMayFail = FALSE
  MaxFaults = 1
  MaxRuns = 2
  MaxCrashes = 1
SPECIFICATION Spec
PROPERTIES FinishedRunIsClean ImplementsLedger
CHECK_DEADLOCK FALSE
