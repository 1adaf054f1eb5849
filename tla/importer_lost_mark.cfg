\* The insert into import_state executes but its answer is lost.
CONSTANTS
  z1 = z1 z2 = z2 z3 = z3 j1 = j1 j2 = j2 j3 = j3
  Zips = {z1, z2}
  Jobs = {j1, j2}
  ZipOf <- MCZipOf
  Rank <- MCRank
  Batches <- MCBatches
  Quality <- MCQuality
  Workers = {w1}
  NoJob = NoJob
  SerialImport = TRUE
  StrictValidation = TRUE
  RollbackOnFailure = TRUE
  DeleteAfterImport = FALSE
  RetryCount = 1
  InsertFaults = {"refused", "lost", "late"}
  DeleteFaults = {"refused", "lost"}
  MarkFaults = {"lost"}
  UnmarkFaults = {"refused", "lost"}
  CheckMayFail = TRUE
  UnlinkMayFail = FALSE
  MaxFaults = 2
  MaxRuns = 2
  MaxCrashes = 0
SPECIFICATION Spec
INVARIANTS MarkedIsCompleteAtRest
CHECK_DEADLOCK FALSE
