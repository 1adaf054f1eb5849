\* Two pool threads under fairness: interrupted, killed and rerun.
CONSTANTS
  z1 = z1 z2 = z2 z3 = z3 j1 = j1 j2 = j2 j3 = j3
  Zips = {z1, z2}
  Jobs = {j1, j2}
  ZipOf <- MCZipOf
  Rank <- MCRank
  Batches <- MCBatches
  Quality <- MCQuality
  Workers = {w1, w2}
  NoJob = NoJob
  SerialImport = FALSE
  StrictValidation = TRUE
  RollbackOnFailure = TRUE
  DeleteAfterImport = TRUE
  RetryCount = 1
  InsertFaults = {"lost"}
  DeleteFaults = {"refused"}
  MarkFaults = {"refused"}
  UnmarkFaults = {}
  CheckMayFail = TRUE
  UnlinkMayFail = TRUE
  MaxFaults = 1
  MaxRuns = 3
  MaxCrashes = 1
SPECIFICATION RerunSpec
PROPERTIES RunEnds CleanZipsGetImported NoFileIsForgotten
CHECK_DEADLOCK FALSE
