\* Serial mode, every kind of single failure, one kill, two runs.
CONSTANTS
  z1 = z1 z2 = z2 z3 = z3 j1 = j1 j2 = j2 j3 = j3
  Zips = {z1, z2}
  Jobs = {j1, j2}
  ZipOf <- MCZipOf
  Rank <- MCRank
  Batches <- MCBatches
  Quality <- MCQuality
  Workers = {w1}
  NoJob = NoJob
  SerialImport = TRUE
  StrictValidation = TRUE
  RollbackOnFailure = TRUE
  DeleteAfterImport = TRUE
  RetryCount = 1
  InsertFaults = {"refused", "lost", "late"}
  DeleteFaults = {"refused", "lost"}
  MarkFaults = {"refused"}
  UnmarkFaults = {"refused", "lost"}
  CheckMayFail = TRUE
  UnlinkMayFail = FALSE
  MaxFaults = 2
  MaxRuns = 2
  MaxCrashes = 1
SPECIFICATION Spec
INVARIANTS TypeOK IInv MarkedIsComplete
PROPERTIES EveryFileIsCounted ExitOkMeansImported
CHECK_DEADLOCK FALSE
