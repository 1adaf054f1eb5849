--------------------------- MODULE Importer_proofs ---------------------------
(***************************************************************************)
(* Proofs about the importer, for any set of ZIPs, jobs and worker threads,*)
(* any bound on retries, failures, runs and kills.                         *)
(***************************************************************************)
EXTENDS Importer, FiniteSetTheorems, TLAPS

\* Counting keeps the statistics natural numbers.
LEMMA CountingTypes ==
  ASSUME NEW s \in ImportStats, NEW n \in Nat
  PROVE  /\ [s EXCEPT !.imported = @ + 1, !.rows = @ + n] \in ImportStats
         /\ [s EXCEPT !.failed = @ + 1] \in ImportStats
         /\ [s EXCEPT !.skipped = @ + 1] \in ImportStats
<1> USE DEF ImportStats
<1>1. [s EXCEPT !.imported = @ + 1, !.rows = @ + n] \in ImportStats
  <2> DEFINE t == [s EXCEPT !.imported = @ + 1]
  <2>1. t \in ImportStats
    OBVIOUS
  <2> HIDE DEF t
  <2>2. [t EXCEPT !.rows = @ + n] \in ImportStats
    BY <2>1
  <2>3. QED
    BY <2>2 DEF t
<1>2. [s EXCEPT !.failed = @ + 1] \in ImportStats
  OBVIOUS
<1>3. [s EXCEPT !.skipped = @ + 1] \in ImportStats
  OBVIOUS
<1>4. QED
  BY <1>1, <1>2, <1>3

LEMMA NoStatsTypes ==
  ASSUME NEW n \in Nat
  PROVE  NoStats \in ImportStats /\ [NoStats EXCEPT !.total = n] \in ImportStats
<1>1. NoStats \in ImportStats
  BY DEF NoStats, ImportStats
<1>2. [NoStats EXCEPT !.total = n] \in ImportStats
  BY DEF NoStats, ImportStats
<1>3. QED
  BY <1>1, <1>2

LEMMA TypeInit == Init => TypeOK
<1> USE ImporterAssumption DEF ImporterAssumption, Failure
<1> SUFFICES ASSUME Init PROVE TypeOK
  OBVIOUS
<1> USE DEF Init, IdleWorkers, Steps
<1>1. /\ runs \in 0 .. MaxRuns /\ crashes \in 0 .. MaxCrashes
      /\ faults \in 0 .. MaxFaults
  OBVIOUS
<1>2. /\ up \in BOOLEAN /\ shutdown \in BOOLEAN /\ collecting \in BOOLEAN
      /\ exit \in {"none", "ok", "errors", "killed"}
  OBVIOUS
<1>3. stats \in ImportStats
  BY NoStatsTypes, 0 \in Nat DEF Init
<1>4. klines \in [Zips -> SUBSET Nat]
  OBVIOUS
<1>5. /\ attempt \in [Workers -> 0 .. RetryCount + 1]
      /\ sent \in [Workers -> Nat]
  OBVIOUS
<1>6. QED
  BY <1>1, <1>2, <1>3, <1>4, <1>5 DEF TypeOK

LEMMA TypeStep == TypeOK /\ [Next]_vars => TypeOK'
<1> USE ImporterAssumption DEF ImporterAssumption, Failure
<1> SUFFICES ASSUME TypeOK, [Next]_vars PROVE TypeOK'
  OBVIOUS
<1> USE DEF TypeOK, Steps, At, Goto, Release, Return, Count, processVars,
            dbVars, workerVars, futureVars, lifeVars, Outcome, Charge
<1>1. ASSUME NEW w \in Workers, WorkerStep(w) PROVE TypeOK'
  <2>1. CASE Take(w)
    BY <2>1 DEF Take
  <2>2. CASE SkipImported(w)
    <3>1. Count("skipped")
      BY <2>2 DEF SkipImported
    <3>2. stats' \in ImportStats
      BY <3>1, CountingTypes, 0 \in Nat
    <3>3. QED
      BY <1>1, <2>2, <3>2 DEF SkipImported
  <2>3. CASE NotImported(w)
    BY <2>3 DEF NotImported
  <2>4. CASE CheckRaises(w)
    <3>1. /\ pc' \in [Workers -> Steps]
          /\ job' \in [Workers -> Jobs \cup {NoJob}]
          /\ attempt' \in [Workers -> 0 .. RetryCount + 1]
          /\ sent' \in [Workers -> Nat]
      BY <2>4 DEF CheckRaises
    <3>2. faults' \in 0 .. MaxFaults
      BY <2>4 DEF CheckRaises
    <3>8. up' \in BOOLEAN
      BY <2>4 DEF CheckRaises
    <3>9. exit' \in {"none", "ok", "errors", "killed"}
      BY <2>4 DEF CheckRaises
    <3>10. job[w] \in Jobs
      BY <1>1, <2>4 DEF CheckRaises
    <3>3. completed' \subseteq Jobs /\ raised' \subseteq completed'
      BY <3>10, <2>4 DEF CheckRaises
    <3>4. \A v \in Workers : pc'[v] # "idle" => job'[v] \in Jobs /\ up'
      <4>1. CASE SerialImport
        BY <1>1, <2>4, <4>1 DEF CheckRaises
      <4>2. CASE ~SerialImport
        BY <1>1, <2>4, <4>2 DEF CheckRaises
      <4>3. QED
        BY <4>1, <4>2
    <3>5. queue' \subseteq Jobs /\ collecting' \in BOOLEAN
      BY <2>4 DEF CheckRaises
    <3>6. \A v \in Workers :
            pc'[v] \notin {"idle", "check"} => attempt'[v] \in 1 .. RetryCount + 1
      BY <1>1, <2>4 DEF CheckRaises
    <3>7. QED
      BY <2>4, <3>1, <3>2, <3>3, <3>4, <3>5, <3>6, <3>8, <3>9 DEF CheckRaises
  <2>5. CASE StopAttempts(w)
    BY <2>5 DEF StopAttempts
  <2>6. CASE BeginAttempt(w)
    BY <2>6 DEF BeginAttempt, DeleteMonth, Zip
  <2>7. CASE InsertBatch(w)
    BY <2>7 DEF InsertBatch, InsertRows, Zip, Late
  <2>8. CASE ReadRaises(w)
    BY <2>8 DEF ReadRaises
  <2>9. CASE RejectRows(w)
    BY <2>9 DEF RejectRows, EndOfRows
  <2>10. CASE MarkImported(w)
    BY <2>10 DEF MarkImported, EndOfRows, InsertState, Zip, Late
  <2>11. CASE Commit(w)
    <3>1. CountImport(w)
      BY <2>11 DEF Commit
    <3>2. stats' \in ImportStats
      BY <1>1, <3>1, CountingTypes DEF CountImport
    <3>3. disk' \subseteq Zips
      BY <2>11 DEF Commit
    <3>4. QED
      BY <1>1, <2>11, <3>2, <3>3 DEF Commit
  <2>12. CASE UnlinkRaises(w)
    <3>1. CountImport(w)
      BY <2>12 DEF UnlinkRaises
    <3>2. stats' \in ImportStats
      BY <1>1, <3>1, CountingTypes DEF CountImport
    <3>3. QED
      BY <1>1, <2>12, <3>2 DEF UnlinkRaises
  <2>13. CASE InnerRollback(w)
    BY <2>13 DEF InnerRollback, DeleteMonth, Zip
  <2>14. CASE RollbackMonth(w)
    BY <2>14 DEF RollbackMonth, DeleteMonth, Zip
  <2>15. CASE RollbackState(w)
    BY <2>15 DEF RollbackState, RemoveState, Zip
  <2>16. CASE Retry(w)
    BY <2>16 DEF Retry
  <2>17. CASE GiveUp(w)
    <3>1. Count("failed")
      BY <2>17 DEF GiveUp
    <3>2. stats' \in ImportStats
      BY <3>1, CountingTypes, 0 \in Nat
    <3>3. QED
      BY <1>1, <2>17, <3>2 DEF GiveUp
  <2>18. QED
    BY <1>1, <2>1, <2>2, <2>3, <2>4, <2>5, <2>6, <2>7, <2>8, <2>9, <2>10,
       <2>11, <2>12, <2>13, <2>14, <2>15, <2>16, <2>17 DEF WorkerStep
<1>2. CASE Start
  <2>1. Cardinality(queue') \in Nat
    BY <1>2, FS_Subset, FS_CardinalityType DEF Start
  <2>2. stats' \in ImportStats
    BY <1>2, <2>1, NoStatsTypes DEF Start
  <2>3. /\ up' \in BOOLEAN /\ shutdown' \in BOOLEAN
        /\ collecting' \in BOOLEAN
    BY <1>2 DEF Start
  <2>4. runs' \in 0 .. MaxRuns
    BY <1>2 DEF Start
  <2>5. QED
    BY <1>2, <2>2, <2>3, <2>4 DEF Start
<1>11. CASE StartFails
  <2>1. /\ runs' \in 0 .. MaxRuns /\ faults' \in 0 .. MaxFaults
    BY <1>11 DEF StartFails
  <2>2. exit' \in {"none", "ok", "errors", "killed"}
    BY <1>11 DEF StartFails
  <2>3. QED
    BY <1>11, <2>1, <2>2 DEF StartFails
<1>3. ASSUME NEW j \in Jobs, CollectFuture(j) PROVE TypeOK'
  <2>1. stats' \in ImportStats
    <3>1. CASE Count("failed")
      BY <3>1, CountingTypes, 0 \in Nat
    <3>2. CASE UNCHANGED stats
      BY <3>2
    <3>3. QED
      BY <1>3, <3>1, <3>2 DEF CollectFuture
  <2>2. collecting' \in BOOLEAN
    BY <1>3 DEF CollectFuture
  <2>3. completed' \subseteq Jobs /\ raised' \subseteq completed'
    BY <1>3 DEF CollectFuture
  <2>4. QED
    BY <1>3, <2>1, <2>2, <2>3 DEF CollectFuture
<1>4. CASE Finish
  BY <1>4 DEF Finish
<1>5. CASE RequestShutdown
  BY <1>5 DEF RequestShutdown
<1>6. CASE Crash
  <2>1. /\ pc' \in [Workers -> Steps]
        /\ job' \in [Workers -> Jobs \cup {NoJob}]
        /\ sent' \in [Workers -> Nat]
    BY <1>6 DEF Crash
  <2>2. attempt' \in [Workers -> 0 .. RetryCount + 1]
    BY <1>6 DEF Crash
  <2>3. up' \in BOOLEAN /\ exit' \in {"none", "ok", "errors", "killed"}
    BY <1>6 DEF Crash
  <2>6. crashes' \in 0 .. MaxCrashes
    BY <1>6 DEF Crash
  <2>4. \A w \in Workers : pc'[w] = "idle"
    BY <1>6 DEF Crash
  <2>5. QED
    BY <1>6, <2>1, <2>2, <2>3, <2>4, <2>6 DEF Crash
<1>7. ASSUME NEW s \in late, ExecuteLate(s) PROVE TypeOK'
  BY <1>7 DEF ExecuteLate, Late
<1>8. ASSUME NEW z \in Zips, Redownload(z) PROVE TypeOK'
  BY <1>8 DEF Redownload
<1>9. CASE UNCHANGED vars
  BY <1>9 DEF vars
<1>10. QED
  BY <1>1, <1>2, <1>3, <1>4, <1>5, <1>6, <1>7, <1>8, <1>9, <1>11 DEF Next

\* The variables keep their types, and a worker that is busy has a job of a
\* process that is alive and an attempt number within the retry bound.
THEOREM TypeCorrect == Spec => []TypeOK
  BY TypeInit, TypeStep, PTL DEF Spec

-----------------------------------------------------------------------------
(* MarkedIsComplete.                                                       *)

LEMMA OtherZips ==
  ASSUME CleanFailures, TypeOK, JobsAreOwned,
         NEW v \in Workers, NEW w \in Workers, v # w, Busy(v), Busy(w)
  PROVE  Zip(v) # Zip(w)
  BY DEF CleanFailures, TypeOK, JobsAreOwned, Busy, Zip

(* Two shapes of worker steps.  In the first the worker stays within the   *)
(* attempt at its month, which is not recorded, and touches no other month.*)
AttemptStep(w) ==
  /\ pc[w] \in Attempting /\ pc'[w] \in Attempting
  /\ \A v \in Workers \ {w} : pc'[v] = pc[v] /\ sent'[v] = sent[v]
  /\ job' = job /\ queue' = queue
  /\ \A z \in Zips \ {Zip(w)} : klines'[z] = klines[z]
  /\ klines'[Zip(w)] \subseteq Rows(Zip(w))
  /\ import_state' \subseteq import_state
  /\ \A s \in late' : s.stmt = "insert" /\ s.batch \in Rows(s.zip)
  /\ pc'[w] = "insert" =>
       sent'[w] \in 0 .. Batches[Zip(w)] /\ 1 .. sent'[w] \subseteq klines'[Zip(w)]

(* In the second it lets go of its job and leaves the tables alone.        *)
ReleaseStep(w) ==
  /\ Busy(w) /\ pc'[w] = "idle"
  /\ \A v \in Workers \ {w} :
       pc'[v] = pc[v] /\ sent'[v] = sent[v] /\ job'[v] = job[v]
  /\ queue' \subseteq queue
  /\ UNCHANGED dbVars

LEMMA AttemptStepSafe ==
  ASSUME CleanFailures, TypeOK, TypeOK', Safe, NEW w \in Workers, AttemptStep(w)
  PROVE  Safe'
<1> USE ImporterAssumption DEF ImporterAssumption
<1>1. \A v \in Workers \ {w} : Busy(v) => Zip(v) # Zip(w)
  BY OtherZips DEF Safe, AttemptStep, Busy, Attempting
<1>2. Zip(w) \in Zips /\ Zip(w) \notin import_state
  BY DEF AttemptStep, Safe, AttemptIsUnrecorded, TypeOK, Zip, Attempting
<1>3. RowsAreGenuine'
  BY <1>2 DEF AttemptStep, Safe, RowsAreGenuine, Rows
<1>4. JobsAreOwned'
  BY DEF AttemptStep, Safe, JobsAreOwned, Busy, Attempting
<1>5. AttemptIsUnrecorded'
  BY DEF AttemptStep, Safe, AttemptIsUnrecorded, Zip
<1>6. ASSUME NEW v \in Workers, v # w, pc[v] = "insert"
      PROVE  klines'[Zip(v)] = klines[Zip(v)]
  BY <1>1, <1>6 DEF AttemptStep, TypeOK, Zip, Busy
<1>7. SentIsStored'
  BY <1>6 DEF AttemptStep, Safe, SentIsStored, Zip
<1>8. MarkedIsComplete'
  BY <1>2 DEF AttemptStep, Safe, MarkedIsComplete, TypeOK, Rows
<1>9. QED
  BY <1>3, <1>4, <1>5, <1>7, <1>8 DEF Safe

LEMMA ReleaseStepSafe ==
  ASSUME TypeOK, TypeOK', Safe, NEW w \in Workers, ReleaseStep(w)
  PROVE  Safe'
<1> USE DEF ReleaseStep, Safe, dbVars
<1>1. RowsAreGenuine'
  BY DEF RowsAreGenuine, Rows
<1>2. JobsAreOwned'
  BY DEF JobsAreOwned, Busy
<1>3. AttemptIsUnrecorded'
  BY DEF AttemptIsUnrecorded, Zip, Attempting
<1>4. SentIsStored'
  BY DEF SentIsStored, Zip
<1>5. MarkedIsComplete'
  BY DEF MarkedIsComplete, Rows
<1>6. QED
  BY <1>1, <1>2, <1>3, <1>4, <1>5

LEMMA WorkerStepSafe ==
  ASSUME CleanFailures, TypeOK, TypeOK', Safe, NEW w \in Workers, WorkerStep(w)
  PROVE  Safe'
<1> USE ImporterAssumption DEF ImporterAssumption
<1>1. CASE Take(w)
  <2> USE <1>1 DEF Take, dbVars, At
  <2>1. RowsAreGenuine' /\ MarkedIsComplete'
    BY DEF Safe, RowsAreGenuine, MarkedIsComplete, Rows
  <2>2. JobsAreOwned'
    BY DEF Safe, JobsAreOwned, Busy, TypeOK
  <2>3. AttemptIsUnrecorded' /\ SentIsStored'
    BY DEF Safe, AttemptIsUnrecorded, SentIsStored, Zip, Attempting, TypeOK
  <2>4. QED
    BY <2>1, <2>2, <2>3 DEF Safe
<1>2. CASE NotImported(w)
  <2> USE <1>2 DEF NotImported, dbVars, At, processVars
  <2>1. RowsAreGenuine' /\ MarkedIsComplete'
    BY DEF Safe, RowsAreGenuine, MarkedIsComplete, Rows
  <2>2. JobsAreOwned'
    BY DEF Safe, JobsAreOwned, Busy, TypeOK
  <2>3. AttemptIsUnrecorded' /\ SentIsStored'
    BY DEF Safe, AttemptIsUnrecorded, SentIsStored, Zip, Attempting, TypeOK
  <2>4. QED
    BY <2>1, <2>2, <2>3 DEF Safe
<1>3. CASE SkipImported(w) \/ StopAttempts(w) \/ Commit(w) \/ GiveUp(w)
  <2>1. ReleaseStep(w)
    BY <1>3 DEF SkipImported, StopAttempts, Commit, GiveUp, ReleaseStep, Return,
                Release, At, Busy, processVars, TypeOK
  <2>2. QED
    BY <2>1, ReleaseStepSafe
<1>4. CASE CheckRaises(w)
  <2>1. ReleaseStep(w)
    BY <1>4 DEF CheckRaises, ReleaseStep, Release, At, Busy, TypeOK
  <2>2. QED
    BY <2>1, ReleaseStepSafe
<1> USE DEF AttemptStep, At, Attempting, Goto, processVars, dbVars, TypeOK
<1>5. CASE BeginAttempt(w)
  <2>1. AttemptStep(w)
    BY <1>5 DEF BeginAttempt, DeleteMonth, Safe, RowsAreGenuine, Zip, Rows
  <2>2. QED
    BY <2>1, AttemptStepSafe
<1>6. CASE InsertBatch(w)
  <2>1. PICK o \in Outcome(InsertFaults) :
          /\ InsertRows(Zip(w), sent[w] + 1, o)
          /\ IF o = "ok"
               THEN sent' = [sent EXCEPT ![w] = @ + 1] /\ UNCHANGED pc
               ELSE pc' = [pc EXCEPT ![w] = "inner"] /\ UNCHANGED sent
    BY <1>6 DEF InsertBatch
  <2>2. Zip(w) \in Zips /\ sent[w] + 1 \in Rows(Zip(w)) /\ pc[w] = "insert"
    BY <1>6 DEF InsertBatch, Rows, Zip
  <2>3. /\ \A z \in Zips \ {Zip(w)} : klines'[z] = klines[z]
        /\ klines'[Zip(w)] \subseteq Rows(Zip(w))
        /\ klines[Zip(w)] \subseteq klines'[Zip(w)]
        /\ o = "ok" => sent[w] + 1 \in klines'[Zip(w)]
    BY <2>1, <2>2 DEF InsertRows, Executed, Safe, RowsAreGenuine
  <2>4. \A s \in late' : s.stmt = "insert" /\ s.batch \in Rows(s.zip)
    BY <2>1, <2>2 DEF InsertRows, Safe, RowsAreGenuine
  <2>5. pc'[w] = "insert" =>
          sent'[w] \in 0 .. Batches[Zip(w)] /\ 1 .. sent'[w] \subseteq klines'[Zip(w)]
    BY <2>1, <2>2, <2>3 DEF Safe, SentIsStored, Rows
  <2>6. AttemptStep(w)
    BY <1>6, <2>1, <2>2, <2>3, <2>4, <2>5 DEF InsertBatch, InsertRows
  <2>7. QED
    BY <2>6, AttemptStepSafe
<1>7. CASE ReadRaises(w) \/ RejectRows(w)
  <2>1. AttemptStep(w)
    BY <1>7 DEF ReadRaises, RejectRows, EndOfRows, Safe, RowsAreGenuine, Zip
  <2>2. QED
    BY <2>1, AttemptStepSafe
<1>8. CASE InnerRollback(w)
  <2>1. AttemptStep(w)
    BY <1>8 DEF InnerRollback, DeleteMonth, Safe, RowsAreGenuine, Zip, Rows
  <2>2. QED
    BY <2>1, AttemptStepSafe
<1>9. CASE RollbackMonth(w)
  <2>1. AttemptStep(w)
    BY <1>9 DEF RollbackMonth, DeleteMonth, Safe, RowsAreGenuine, Zip, Rows
  <2>2. QED
    BY <2>1, AttemptStepSafe
<1>10. CASE RollbackState(w)
  <2>1. AttemptStep(w)
    BY <1>10 DEF RollbackState, RemoveState, Safe, RowsAreGenuine, Zip, Rows
  <2>2. QED
    BY <2>1, AttemptStepSafe
<1>11. CASE Retry(w)
  <2>1. AttemptStep(w)
    BY <1>11 DEF Retry, Safe, RowsAreGenuine, Zip, Rows
  <2>2. QED
    BY <2>1, AttemptStepSafe
<1>12. CASE UnlinkRaises(w)
  BY <1>12 DEF UnlinkRaises, CleanFailures
<1>13. CASE MarkImported(w)
  <2>1. PICK o \in Outcome(MarkFaults) :
          /\ InsertState(Zip(w), o)
          /\ Goto(w, IF o = "ok" THEN "commit" ELSE "inner")
    BY <1>13 DEF MarkImported
  <2>2. CASE o = "ok"
    <3>1. /\ klines' = klines /\ late' = late /\ queue' = queue
          /\ import_state' = import_state \cup {Zip(w)}
      BY <1>13, <2>1, <2>2 DEF MarkImported, InsertState, Executed
    <3>2. RowsAreGenuine'
      BY <3>1 DEF Safe, RowsAreGenuine, Rows
    <3>3. JobsAreOwned'
      BY <1>13, <2>1, <3>1 DEF MarkImported, EndOfRows, Safe, JobsAreOwned, Busy
    <3>4. \A v \in Workers \ {w} : Busy(v) => Zip(v) # Zip(w)
      BY <1>13, OtherZips DEF MarkImported, EndOfRows, Safe, Busy
    <3>5. AttemptIsUnrecorded'
      BY <2>1, <2>2, <3>1, <3>4 DEF Safe, AttemptIsUnrecorded, Busy, Zip
    <3>6. SentIsStored'
      BY <2>1, <2>2, <3>1 DEF Safe, SentIsStored, Zip
    <3>7. klines[Zip(w)] = Rows(Zip(w))
      BY <1>13 DEF MarkImported, EndOfRows, Safe, SentIsStored, RowsAreGenuine, Rows, Zip
    <3>8. MarkedIsComplete'
      BY <3>1, <3>7 DEF Safe, MarkedIsComplete, Rows, Zip
    <3>9. QED
      BY <3>2, <3>3, <3>5, <3>6, <3>8 DEF Safe
  <2>3. CASE o # "ok"
    <3>1. o = "refused"
      BY <2>1, <2>3 DEF Outcome, CleanFailures
    <3>2. AttemptStep(w)
      BY <1>13, <2>1, <2>3, <3>1 DEF MarkImported, EndOfRows, InsertState, Executed, Safe,
         RowsAreGenuine, Zip
    <3>3. QED
      BY <3>2, AttemptStepSafe
  <2>4. QED
    BY <2>2, <2>3
<1>14. QED
  BY <1>1, <1>2, <1>3, <1>4, <1>5, <1>6, <1>7, <1>8, <1>9, <1>10, <1>11, <1>12,
     <1>13 DEF WorkerStep

LEMMA SafetyStep ==
  ASSUME CleanFailures, IInv, [Next]_vars
  PROVE  IInv'
<1> USE ImporterAssumption DEF ImporterAssumption
<1>1. TypeOK /\ TypeOK' /\ Safe
  BY TypeStep DEF IInv
<1>2. ASSUME NEW w \in Workers, WorkerStep(w) PROVE Safe'
  BY <1>1, <1>2, WorkerStepSafe
<1>3. ASSUME UNCHANGED <<dbVars, pc, job, sent>>, queue' \subseteq queue PROVE Safe'
  BY <1>1, <1>3 DEF Safe, RowsAreGenuine, JobsAreOwned, AttemptIsUnrecorded, SentIsStored,
                    MarkedIsComplete, Busy, Zip, Rows, dbVars
<1>4. ASSUME UNCHANGED dbVars, \A w \in Workers : pc'[w] = "idle" PROVE Safe'
  BY <1>1, <1>4 DEF Safe, RowsAreGenuine, JobsAreOwned, AttemptIsUnrecorded, SentIsStored,
                    MarkedIsComplete, Busy, Rows, dbVars, Attempting
<1>5. CASE Start
  <2>1. UNCHANGED dbVars
    BY <1>5 DEF Start
  <2>2. \A w \in Workers : pc'[w] = "idle"
    BY <1>1, <1>5 DEF Start, workerVars, TypeOK
  <2>3. QED
    BY <1>1, <1>4, <2>1, <2>2 DEF IInv
<1>6. ASSUME NEW j \in Jobs, CollectFuture(j) PROVE Safe'
  BY <1>3, <1>6 DEF CollectFuture, workerVars
<1>14. CASE StartFails
  <2>1. UNCHANGED <<dbVars, pc, job, sent>>
    BY <1>14 DEF StartFails, workerVars
  <2>2. queue' \subseteq queue
    BY <1>14 DEF StartFails, workerVars
  <2>3. QED
    BY <1>1, <1>3, <2>1, <2>2 DEF IInv
<1>7. CASE Finish
  <2>1. UNCHANGED <<dbVars, pc, job, sent>>
    BY <1>7 DEF Finish, workerVars
  <2>2. queue' \subseteq queue
    BY <1>7 DEF Finish, workerVars
  <2>3. QED
    BY <1>1, <1>3, <2>1, <2>2 DEF IInv
<1>8. CASE RequestShutdown
  <2>1. UNCHANGED <<dbVars, pc, job, sent>>
    BY <1>8 DEF RequestShutdown, workerVars
  <2>2. queue' \subseteq queue
    BY <1>8 DEF RequestShutdown, workerVars
  <2>3. QED
    BY <1>1, <1>3, <2>1, <2>2 DEF IInv
<1>9. CASE Crash
  <2>1. UNCHANGED dbVars
    BY <1>9 DEF Crash
  <2>2. \A w \in Workers : pc'[w] = "idle"
    BY <1>9 DEF Crash
  <2>3. QED
    BY <1>1, <1>4, <2>1, <2>2 DEF IInv
<1>10. ASSUME NEW s \in late, ExecuteLate(s) PROVE Safe'
  <2> USE <1>1, <1>10 DEF ExecuteLate, workerVars, Safe, TypeOK
  <2>1. s.stmt = "insert" /\ s.zip \in Zips /\ s.batch \in Rows(s.zip)
    BY DEF RowsAreGenuine, Late
  <2>2. /\ klines' = [klines EXCEPT ![s.zip] = @ \cup {s.batch}]
        /\ import_state' = import_state /\ late' \subseteq late
    BY <2>1
  <2>3. RowsAreGenuine'
    BY <2>1, <2>2 DEF RowsAreGenuine, Rows
  <2>4. JobsAreOwned' /\ AttemptIsUnrecorded'
    BY <2>2 DEF JobsAreOwned, AttemptIsUnrecorded, Busy, Zip
  <2>5. \A z \in Zips : klines[z] \subseteq klines'[z]
    BY <2>1, <2>2
  <2>6. SentIsStored'
    BY <2>5 DEF SentIsStored, Zip
  <2>7. MarkedIsComplete'
    <3>1. ASSUME NEW z \in import_state PROVE klines'[z] = Rows(z)
      <4>1. z \in Zips /\ klines[z] = Rows(z)
        BY DEF MarkedIsComplete
      <4>2. QED
        BY <2>1, <2>2, <4>1
    <3>2. QED
      BY <2>2, <3>1 DEF MarkedIsComplete, Rows
  <2>8. QED
    BY <2>3, <2>4, <2>6, <2>7
<1>11. ASSUME NEW z \in Zips, Redownload(z) PROVE Safe'
  BY <1>3, <1>11 DEF Redownload, workerVars
<1>12. CASE UNCHANGED vars
  <2>1. UNCHANGED <<dbVars, pc, job, sent>>
    BY <1>12 DEF vars, workerVars
  <2>2. queue' \subseteq queue
    BY <1>12 DEF vars, workerVars
  <2>3. QED
    BY <1>1, <1>3, <2>1, <2>2 DEF IInv
<1>13. QED
  BY <1>1, <1>2, <1>5, <1>6, <1>7, <1>8, <1>9, <1>10, <1>11, <1>12,
     <1>14 DEF Next, IInv

LEMMA SafetyInit == Init => IInv
<1> SUFFICES ASSUME Init PROVE Safe
  BY TypeInit DEF IInv
<1>1. QED
  BY DEF Init, Safe, RowsAreGenuine, JobsAreOwned, AttemptIsUnrecorded,
         SentIsStored, MarkedIsComplete, Busy, IdleWorkers, Attempting

\* When a failing insert into import_state has no effect, a recorded month is
\* complete at every moment, whatever the workers, the other failing calls and
\* the kills do.
THEOREM MarkedIsAlwaysComplete ==
  ASSUME CleanFailures PROVE Spec => []MarkedIsComplete
<1>1. Init => IInv
  BY SafetyInit
<1>2. IInv /\ [Next]_vars => IInv'
  BY SafetyStep
<1>3. IInv => MarkedIsComplete
  BY DEF IInv, Safe
<1>4. QED
  BY <1>1, <1>2, <1>3, PTL DEF Spec

\* The whole inductive invariant, under the same condition: types, genuine
\* rows, owned jobs, unrecorded attempts and stored batches.
THEOREM InvariantHolds ==
  ASSUME CleanFailures PROVE Spec => []IInv
<1>1. Init => IInv
  BY SafetyInit
<1>2. IInv /\ [Next]_vars => IInv'
  BY SafetyStep
<1>3. QED
  BY <1>1, <1>2, PTL DEF Spec

-----------------------------------------------------------------------------
(* The importer implements the ledger.  Under the invariant the rows of a  *)
(* recorded month are determined, so only import_state has to be followed. *)

LEMMA LedgerGrows ==
  ASSUME CleanFailures, IInv, [Next]_vars
  PROVE  \/ import_state' = import_state
         \/ \E z \in Zips \ import_state : import_state' = import_state \cup {z}
<1> USE ImporterAssumption DEF ImporterAssumption, dbVars
<1>1. ASSUME NEW w \in Workers, WorkerStep(w)
      PROVE  \/ import_state' = import_state
             \/ \E z \in Zips \ import_state :
                  import_state' = import_state \cup {z}
  <2>1. CASE MarkImported(w)
    <3>1. Zip(w) \in Zips
      BY <2>1 DEF MarkImported, EndOfRows, At, IInv, TypeOK, Zip
    <3>2. import_state' \in {import_state, import_state \cup {Zip(w)}}
      BY <2>1 DEF MarkImported, InsertState
    <3>3. QED
      BY <3>1, <3>2
  <2>2. CASE RollbackState(w)
    <3>1. Zip(w) \notin import_state
      BY <2>2 DEF RollbackState, At, IInv, Safe, AttemptIsUnrecorded, Attempting
    <3>2. import_state' \in {import_state, import_state \ {Zip(w)}}
      BY <2>2 DEF RollbackState, RemoveState
    <3>3. QED
      BY <3>1, <3>2
  <2>3. CASE BeginAttempt(w) \/ InsertBatch(w) \/ InnerRollback(w)
               \/ RollbackMonth(w)
    BY <2>3 DEF BeginAttempt, InsertBatch, InnerRollback, RollbackMonth,
                DeleteMonth, InsertRows
  <2>4. CASE Take(w) \/ SkipImported(w) \/ NotImported(w) \/ CheckRaises(w)
               \/ StopAttempts(w)
    BY <2>4 DEF Take, SkipImported, NotImported, CheckRaises, StopAttempts
  <2>5. CASE ReadRaises(w) \/ RejectRows(w) \/ Commit(w) \/ UnlinkRaises(w)
               \/ Retry(w) \/ GiveUp(w)
    BY <2>5 DEF ReadRaises, RejectRows, Commit, UnlinkRaises, Retry, GiveUp
  <2>6. QED
    BY <1>1, <2>1, <2>2, <2>3, <2>4, <2>5 DEF WorkerStep
<1>2. ASSUME NEW s \in late, ExecuteLate(s) PROVE import_state' = import_state
  BY <1>2 DEF ExecuteLate, IInv, Safe, RowsAreGenuine
<1>3. CASE \/ Start \/ StartFails \/ Finish \/ RequestShutdown \/ Crash \/ UNCHANGED vars
           \/ \E j \in Jobs : CollectFuture(j)
           \/ \E z \in Zips : Redownload(z)
  BY <1>3 DEF Start, StartFails, Finish, RequestShutdown, Crash, CollectFuture, Redownload,
              vars
<1>4. QED
  BY <1>1, <1>2, <1>3 DEF Next

\* Under the same condition the importer refines ImportLedger: whatever happens
\* inside, the recorded months grow one at a time, each with all its rows.
THEOREM ImporterImplementsLedger ==
  ASSUME CleanFailures PROVE Spec => ImplementsLedger
<1> DEFINE data == [z \in Zips |-> IF z \in import_state THEN klines[z] ELSE {}]
<1>1. Init => Ledger!Init
  BY DEF Init, Ledger!Init
<1>2. IInv /\ IInv' /\ [Next]_vars => [Ledger!Next]_<<import_state, data>>
  <2> SUFFICES ASSUME IInv, IInv', [Next]_vars
               PROVE  [Ledger!Next]_<<import_state, data>>
    OBVIOUS
  <2>1. data = [z \in Zips |-> IF z \in import_state THEN Rows(z) ELSE {}]
    BY DEF IInv, Safe, MarkedIsComplete
  <2>2. data' = [z \in Zips |-> IF z \in import_state' THEN Rows(z) ELSE {}]
    BY DEF IInv, Safe, MarkedIsComplete, Rows
  <2> HIDE DEF data
  <2>3. CASE import_state' = import_state
    BY <2>1, <2>2, <2>3
  <2>4. ASSUME NEW z \in Zips \ import_state,
               import_state' = import_state \cup {z}
        PROVE  Ledger!Publish(z)
    <3>1. data' = [data EXCEPT ![z] = 1 .. Batches[z]]
      BY <2>1, <2>2, <2>4 DEF Rows
    <3>2. QED
      BY <2>4, <3>1 DEF Ledger!Publish, data
  <2>5. QED
    BY <2>3, <2>4, LedgerGrows DEF Ledger!Next, data
<1>3. QED
  BY <1>1, <1>2, SafetyInit, SafetyStep, PTL
     DEF Spec, ImplementsLedger, Ledger!Spec, Ledger!ledgerVars

-----------------------------------------------------------------------------
(* A finished run: every file is counted, exit status 0 means that every    *)
(* ZIP on disk is recorded with all its rows, and what is not recorded has  *)
(* been rolled back.                                                        *)

LEMMA PendingJobs == TypeOK => Pending \subseteq Jobs /\ IsFiniteSet(Pending)
<1> SUFFICES ASSUME TypeOK PROVE Pending \subseteq Jobs /\ IsFiniteSet(Pending)
  OBVIOUS
<1>1. Pending \subseteq Jobs
  BY DEF TypeOK, Pending, Busy
<1>2. QED
  BY <1>1, ImporterAssumption, FS_Subset DEF ImporterAssumption

(* Three shapes of worker steps.  A worker takes a file, goes on with it,  *)
(* or lets go of it.                                                       *)

LEMMA TakeKeepsPending ==
  ASSUME TypeOK, PendingIsDisjoint, NEW w \in Workers, Take(w)
  PROVE  Pending' = Pending /\ PendingIsDisjoint'
<1> USE DEF TypeOK, Take, At, futureVars
<1>1. PICK j \in queue :
        /\ queue' = queue \ {j}
        /\ job' = [job EXCEPT ![w] = j]
        /\ pc' = [pc EXCEPT ![w] = "check"]
  OBVIOUS
<1>2. \A i : i \in Pending' <=> i \in Pending
  BY <1>1 DEF Pending, Busy
<1>3. PendingIsDisjoint'
  BY <1>1 DEF PendingIsDisjoint, JobsAreOwned, Busy
<1>4. QED
  BY <1>2, <1>3

WorkOn(w) ==
  /\ Busy(w) /\ pc'[w] # "idle"
  /\ \A v \in Workers \ {w} : pc'[v] = pc[v]
  /\ job' = job /\ queue' = queue /\ raised' = raised

LEMMA WorkOnKeepsPending ==
  ASSUME PendingIsDisjoint, NEW w \in Workers, WorkOn(w)
  PROVE  Pending' = Pending /\ PendingIsDisjoint'
<1> USE DEF WorkOn
<1>1. \A v \in Workers : Busy(v)' <=> Busy(v)
  BY DEF Busy
<1>2. Pending' = Pending
  BY <1>1 DEF Pending
<1>3. PendingIsDisjoint'
  BY <1>1 DEF PendingIsDisjoint, JobsAreOwned
<1>4. QED
  BY <1>2, <1>3

LetGo(w) ==
  /\ Busy(w) /\ pc'[w] = "idle"
  /\ \A v \in Workers \ {w} : pc'[v] = pc[v] /\ job'[v] = job[v]
  /\ queue' = queue

LEMMA LetGoReducesPending ==
  ASSUME PendingIsDisjoint, NEW w \in Workers, LetGo(w), raised' = raised
  PROVE  /\ job[w] \in Pending /\ Pending' = Pending \ {job[w]}
         /\ PendingIsDisjoint'
<1> USE DEF LetGo
<1>1. \A v \in Workers : Busy(v)' <=> Busy(v) /\ v # w
  BY DEF Busy
<1>2. \A i : i \in Pending' <=> i \in Pending /\ i # job[w]
  BY <1>1 DEF Pending, PendingIsDisjoint, JobsAreOwned
<1>3. PendingIsDisjoint'
  BY <1>1 DEF PendingIsDisjoint, JobsAreOwned
<1>4. QED
  BY <1>2, <1>3 DEF Pending

\* A job whose future holds an exception is still owed.
LEMMA RaisedStaysPending ==
  ASSUME PendingIsDisjoint, NEW w \in Workers, LetGo(w),
         raised' = raised \cup {job[w]}
  PROVE  Pending' = Pending /\ PendingIsDisjoint'
<1> USE DEF LetGo
<1>1. \A v \in Workers : Busy(v)' <=> Busy(v) /\ v # w
  BY DEF Busy
<1>2. \A i : i \in Pending' <=> i \in Pending
  BY <1>1 DEF Pending
<1>3. PendingIsDisjoint'
  BY <1>1 DEF PendingIsDisjoint, JobsAreOwned
<1>4. QED
  BY <1>2, <1>3

-----------------------------------------------------------------------------
(* Every file is counted.                                                  *)

LEMMA CountingCounts ==
  ASSUME NEW s \in ImportStats, NEW t, NEW n \in Nat,
         \/ t = [s EXCEPT !.imported = @ + 1, !.rows = @ + n]
         \/ t = [s EXCEPT !["skipped"] = @ + 1]
         \/ t = [s EXCEPT !["failed"] = @ + 1]
  PROVE  /\ t.imported + t.skipped + t.failed
              = s.imported + s.skipped + s.failed + 1
         /\ t.total = s.total
<1> USE DEF ImportStats
<1>1. CASE t = [s EXCEPT !.imported = @ + 1, !.rows = @ + n]
  BY <1>1
<1>2. CASE t = [s EXCEPT !["skipped"] = @ + 1]
  BY <1>2
<1>3. CASE t = [s EXCEPT !["failed"] = @ + 1]
  BY <1>3
<1>4. QED
  BY <1>1, <1>2, <1>3

\* A file that is settled is counted once.
LEMMA SettlingKeepsCounts ==
  ASSUME TypeOK, CountsAreKept, NEW j \in Pending,
         Pending' = Pending \ {j}, Counted' = Counted + 1,
         stats'.total = stats.total,
         UNCHANGED <<up, shutdown, collecting>>
  PROVE  CountsAreKept'
<1>1. /\ Cardinality(Pending') = Cardinality(Pending) - 1
      /\ Cardinality(Pending) \in Nat
  BY PendingJobs, FS_RemoveElement, FS_CardinalityType
<1>2. Counted \in Nat
  BY DEF Counted, TypeOK, ImportStats
<1>3. QED
  BY <1>1, <1>2 DEF CountsAreKept, Uninterrupted

LEMMA WorkerStepCounts ==
  ASSUME TypeOK, PendingIsDisjoint, NEW w \in Workers, WorkerStep(w)
  PROVE  PendingIsDisjoint' /\ (CountsAreKept => CountsAreKept')
<1> USE DEF TypeOK, At, Steps
<1>1. ASSUME WorkOn(w), UNCHANGED <<stats, shutdown, up, collecting>>
      PROVE  PendingIsDisjoint' /\ (CountsAreKept => CountsAreKept')
  BY <1>1, WorkOnKeepsPending DEF CountsAreKept, Uninterrupted, Counted
<1>2. CASE Take(w)
  <2>1. UNCHANGED <<stats, shutdown, up, collecting>>
    BY <1>2 DEF Take, futureVars, lifeVars
  <2>2. QED
    BY <1>2, <2>1, TakeKeepsPending DEF CountsAreKept, Uninterrupted, Counted
<1>3. CASE SkipImported(w) \/ Commit(w) \/ GiveUp(w)
  <2>1. LetGo(w) /\ raised' = raised /\ UNCHANGED <<shutdown, up, collecting>>
    BY <1>3 DEF SkipImported, Commit, GiveUp, Return, Release, LetGo, Busy,
                processVars, lifeVars
  <2>2. Counted' = Counted + 1 /\ stats'.total = stats.total
    <3>1. Count("skipped") \/ Count("failed") \/ CountImport(w)
      BY <1>3 DEF SkipImported, Commit, GiveUp
    <3>2. QED
      BY <3>1, CountingCounts DEF Counted, Count, CountImport
  <2>3. QED
    BY <2>1, <2>2, LetGoReducesPending, SettlingKeepsCounts
<1>4. CASE StopAttempts(w)
  <2>1. LetGo(w) /\ raised' = raised /\ shutdown'
    BY <1>4 DEF StopAttempts, Return, Release, LetGo, Busy, processVars
  <2>2. QED
    BY <2>1, LetGoReducesPending DEF CountsAreKept, Uninterrupted
<1>5. CASE CheckRaises(w)
  <2>1. CASE SerialImport
    <3>1. ~up' /\ raised' = raised /\ queue' = {}
      BY <1>5, <2>1 DEF CheckRaises, futureVars
    <3>2. PendingIsDisjoint'
      BY <1>5, <3>1 DEF CheckRaises, Release, PendingIsDisjoint, JobsAreOwned,
                        Busy
    <3>3. QED
      BY <3>1, <3>2 DEF CountsAreKept, Uninterrupted
  <2>2. CASE ~SerialImport
    <3>1. LetGo(w) /\ raised' = raised \cup {job[w]}
      BY <1>5, <2>2 DEF CheckRaises, Release, LetGo, Busy
    <3>2. UNCHANGED <<stats, shutdown, up, collecting>>
      BY <1>5, <2>2 DEF CheckRaises
    <3>3. QED
      BY <3>1, <3>2, RaisedStaysPending
         DEF CountsAreKept, Uninterrupted, Counted
  <2>3. QED
    BY <2>1, <2>2
<1>6. CASE UnlinkRaises(w)
  <2>1. WorkOn(w) /\ UNCHANGED <<shutdown, up, collecting>>
    BY <1>6 DEF UnlinkRaises, Goto, WorkOn, Busy, processVars, lifeVars,
                futureVars
  <2>2. /\ Counted' = Counted + 1 /\ stats'.total = stats.total
        /\ Counted \in Nat /\ stats.total \in Nat
    BY <1>6 DEF UnlinkRaises, CountImport, Counted, ImportStats
  <2>3. Cardinality(Pending) \in Nat
    BY PendingJobs, FS_CardinalityType
  <2>4. Pending' = Pending /\ PendingIsDisjoint'
    BY <2>1, WorkOnKeepsPending
  <2>5. DeleteAfterImport /\ UnlinkMayFail
    BY <1>6 DEF UnlinkRaises
  <2>6. CountsAreKept => CountsAreKept'
    BY <2>1, <2>2, <2>3, <2>4, <2>5 DEF CountsAreKept, Uninterrupted
  <2>7. QED
    BY <2>4, <2>6
<1>7. CASE NotImported(w) \/ BeginAttempt(w) \/ InsertBatch(w)
             \/ ReadRaises(w) \/ RejectRows(w) \/ MarkImported(w)
  <2>1. WorkOn(w) /\ UNCHANGED <<stats, shutdown, up, collecting>>
    BY <1>7 DEF NotImported, BeginAttempt, InsertBatch, ReadRaises, RejectRows,
                MarkImported, EndOfRows, Goto, WorkOn, Busy, processVars,
                lifeVars, futureVars
  <2>2. QED
    BY <1>1, <2>1
<1>8. CASE InnerRollback(w) \/ RollbackMonth(w) \/ RollbackState(w)
             \/ Retry(w)
  <2>1. WorkOn(w) /\ UNCHANGED <<stats, shutdown, up, collecting>>
    BY <1>8 DEF InnerRollback, RollbackMonth, RollbackState, Retry, Goto,
                WorkOn, Busy, processVars, lifeVars, futureVars
  <2>2. QED
    BY <1>1, <2>1
<1>9. QED
  BY <1>2, <1>3, <1>4, <1>5, <1>6, <1>7, <1>8 DEF WorkerStep

LEMMA CountStep ==
  ASSUME CountInv, [Next]_vars
  PROVE  CountInv'
<1>1. TypeOK /\ TypeOK' /\ PendingIsDisjoint /\ CountsAreKept
  BY TypeStep DEF CountInv
<1>2. ASSUME UNCHANGED <<queue, raised, pc, job>>
      PROVE  Pending' = Pending /\ PendingIsDisjoint'
  BY <1>1, <1>2 DEF Pending, PendingIsDisjoint, JobsAreOwned, Busy
<1>3. ASSUME UNCHANGED <<queue, raised, pc, job, stats, up, shutdown, collecting>>
      PROVE  PendingIsDisjoint' /\ CountsAreKept'
  BY <1>1, <1>2, <1>3 DEF CountsAreKept, Uninterrupted, Counted
<1>4. ASSUME NEW w \in Workers, WorkerStep(w)
      PROVE  PendingIsDisjoint' /\ CountsAreKept'
  BY <1>1, <1>4, WorkerStepCounts
<1>5. CASE Start
  <2>1. /\ \A w \in Workers : pc[w] = "idle" /\ pc'[w] = "idle"
        /\ raised' = {} /\ collecting' = TRUE
    BY <1>1, <1>5 DEF Start, TypeOK, workerVars
  <2>2. Pending' = queue' /\ PendingIsDisjoint'
    BY <2>1 DEF Pending, PendingIsDisjoint, JobsAreOwned, Busy
  <2>3. Counted' = 0 /\ stats'.total = Cardinality(queue')
    BY <1>5 DEF Start, NoStats, Counted
  <2>4. Cardinality(queue') \in Nat
    BY <1>1, <2>2, PendingJobs, FS_CardinalityType,
       ImporterAssumption, FS_Subset DEF TypeOK, ImporterAssumption
  <2>5. collecting'
    BY <2>1
  <2>6. Counted' + Cardinality(Pending') = stats'.total
    BY <2>2, <2>3, <2>4
  <2>7. stats'.total \in Nat
    BY <2>3, <2>4
  <2>8. QED
    BY <1>1, <2>2, <2>5, <2>6, <2>7 DEF CountInv, CountsAreKept
<1>6. ASSUME NEW j \in Jobs, CollectFuture(j)
      PROVE  PendingIsDisjoint' /\ CountsAreKept'
  <2>1. CASE shutdown
    BY <1>2, <1>6, <2>1 DEF CollectFuture, CountsAreKept, Uninterrupted,
                            workerVars
  <2>2. CASE ~shutdown /\ j \notin raised
    <3>1. raised' = raised
      BY <1>6, <2>2 DEF CollectFuture
    <3>2. QED
      BY <1>3, <1>6, <2>2, <3>1 DEF CollectFuture, workerVars, lifeVars
  <2>3. CASE ~shutdown /\ j \in raised
    <3>1. /\ raised' = raised \ {j} /\ Count("failed")
          /\ UNCHANGED <<queue, pc, job, up, shutdown, collecting>>
      BY <1>6, <2>3 DEF CollectFuture, workerVars, lifeVars
    <3>2. j \in Pending /\ Pending' = Pending \ {j}
      BY <1>1, <2>3, <3>1 DEF Pending, PendingIsDisjoint, Busy
    <3>3. Counted' = Counted + 1 /\ stats'.total = stats.total
      BY <1>1, <3>1 DEF Count, Counted, TypeOK, ImportStats
    <3>4. PendingIsDisjoint'
      BY <1>1, <3>1 DEF PendingIsDisjoint, JobsAreOwned, Busy
    <3>5. QED
      BY <1>1, <3>1, <3>2, <3>3, <3>4, SettlingKeepsCounts
  <2>4. QED
    BY <2>1, <2>2, <2>3
<1>7. CASE StartFails \/ \E z \in Zips : Redownload(z)
  <2>1. UNCHANGED <<queue, raised, pc, job, stats, up, shutdown, collecting>>
    BY <1>7 DEF StartFails, Redownload, workerVars, futureVars, lifeVars
  <2>2. QED
    BY <1>1, <1>3, <2>1 DEF CountInv
<1>8. CASE Finish \/ Crash
  <2>1. ~up' /\ queue' = {} /\ raised' = raised
    BY <1>8 DEF Finish, Crash, futureVars
  <2>2. \A w \in Workers : pc'[w] = "idle"
    BY <1>8 DEF Finish, Crash, workerVars
  <2>3. QED
    BY <1>1, <2>1, <2>2 DEF CountInv, PendingIsDisjoint, JobsAreOwned, Busy,
                            CountsAreKept, Uninterrupted
<1>9. CASE RequestShutdown
  <2>1. shutdown' /\ UNCHANGED <<queue, raised, pc, job>>
    BY <1>9 DEF RequestShutdown, workerVars, futureVars
  <2>2. QED
    BY <1>1, <1>2, <2>1 DEF CountInv, CountsAreKept, Uninterrupted
<1>10. CASE \E s \in late : ExecuteLate(s)
  <2>1. UNCHANGED <<queue, raised, pc, job, stats, up, shutdown, collecting>>
    BY <1>10 DEF ExecuteLate, workerVars, futureVars, lifeVars
  <2>2. QED
    BY <1>1, <1>3, <2>1 DEF CountInv
<1>11. CASE UNCHANGED vars
  <2>1. UNCHANGED <<queue, raised, pc, job, stats, up, shutdown, collecting>>
    BY <1>11 DEF vars, workerVars, futureVars, lifeVars
  <2>2. QED
    BY <1>1, <1>3, <2>1 DEF CountInv
<1>12. QED
  BY <1>1, <1>4, <1>5, <1>6, <1>7, <1>8, <1>9, <1>10, <1>11 DEF Next, CountInv

LEMMA CountInit == Init => CountInv
<1> SUFFICES ASSUME Init PROVE PendingIsDisjoint /\ CountsAreKept
  BY TypeInit DEF CountInv
<1>1. QED
  BY DEF Init, IdleWorkers, PendingIsDisjoint, JobsAreOwned, Busy,
         CountsAreKept, Uninterrupted

\* When a run finishes uninterrupted nothing is owed any more.
LEMMA FinishedOwesNothing ==
  ASSUME CountInv, Finish, ~shutdown
  PROVE  Pending = {}
<1>1. collecting /\ completed = {} /\ queue = {}
  BY DEF CountInv, CountsAreKept, Uninterrupted, Finish
<1>2. raised = {} /\ \A w \in Workers : ~Busy(w)
  BY <1>1 DEF CountInv, TypeOK, Finish, Busy
<1>3. QED
  BY <1>1, <1>2 DEF Pending

LEMMA FinishedCounts ==
  ASSUME CountInv, Finish, ~shutdown
  PROVE  /\ Counted >= stats.total
         /\ ~(DeleteAfterImport /\ UnlinkMayFail) => Counted = stats.total
<1>1. Cardinality(Pending) = 0
  BY FinishedOwesNothing, FS_EmptySet
<1>2. Counted \in Nat /\ stats.total \in Nat
  BY DEF CountInv, TypeOK, Counted, ImportStats
<1>3. QED
  BY <1>1, <1>2 DEF CountInv, CountsAreKept, Uninterrupted, Finish

\* In every circumstance, a file of an uninterrupted run is not left out of
\* the summary: whichever calls fail, it is counted as imported, skipped or
\* failed by the time run() returns.
THEOREM FilesAreNeverForgotten == Spec => NoFileIsForgotten
<1>1. CountInv /\ [Next]_vars => CountInv'
  BY CountStep
<1>2. CountInv /\ [Next]_vars
        => [Finish /\ ~shutdown =>
              stats.imported + stats.skipped + stats.failed >= stats.total]_vars
  BY FinishedCounts DEF Counted
<1>3. QED
  BY CountInit, <1>1, <1>2, PTL DEF Spec, NoFileIsForgotten

\* Unless a ZIP cannot be removed after its import, each file is counted
\* exactly once.
THEOREM FilesAreCountedOnce ==
  ASSUME ~(DeleteAfterImport /\ UnlinkMayFail)
  PROVE  Spec => EveryFileIsCounted
<1>1. CountInv /\ [Next]_vars => CountInv'
  BY CountStep
<1>2. CountInv /\ [Next]_vars
        => [Finish /\ ~shutdown =>
              stats.imported + stats.skipped + stats.failed = stats.total]_vars
  BY FinishedCounts DEF Counted
<1>3. QED
  BY CountInit, <1>1, <1>2, PTL DEF Spec, EveryFileIsCounted

-----------------------------------------------------------------------------
(* Exit status 0.                                                          *)

\* A step of a worker restores no ZIP and takes back no failure; a file it
\* lets go of is recorded or counted as failed, or will be.
LEMMA WorkerStepSettles ==
  ASSUME TypeOK, PendingIsDisjoint, CommitIsRecorded,
         NEW w \in Workers, WorkerStep(w)
  PROVE  /\ disk' \subseteq disk
         /\ stats'.failed >= stats.failed
         /\ Uninterrupted' =>
              /\ Uninterrupted
              /\ \A j \in Pending :
                   \/ j \in Pending'
                   \/ ZipOf[j] \in import_state
                   \/ stats'.failed > 0
<1> USE DEF TypeOK, At, Steps
<1>1. CASE Take(w)
  <2>1. UNCHANGED <<disk, stats, shutdown, up>>
    BY <1>1 DEF Take, lifeVars
  <2>2. QED
    BY <1>1, <2>1, TakeKeepsPending DEF Uninterrupted, ImportStats
<1>2. CASE SkipImported(w)
  <2>1. LetGo(w) /\ raised' = raised /\ UNCHANGED <<disk, shutdown, up>>
    BY <1>2 DEF SkipImported, Return, Release, LetGo, Busy, processVars,
                lifeVars
  <2>2. stats'.failed = stats.failed /\ stats.failed \in Nat
    BY <1>2 DEF SkipImported, Count, ImportStats
  <2>3. ZipOf[job[w]] \in import_state
    BY <1>2 DEF SkipImported, Zip
  <2>4. QED
    BY <2>1, <2>2, <2>3, LetGoReducesPending DEF Uninterrupted
<1>3. CASE Commit(w)
  <2>1. LetGo(w) /\ raised' = raised /\ UNCHANGED <<shutdown, up>>
    BY <1>3 DEF Commit, Return, Release, LetGo, Busy, processVars, lifeVars
  <2>2. stats'.failed = stats.failed /\ stats.failed \in Nat
    BY <1>3 DEF Commit, CountImport, ImportStats
  <2>3. ZipOf[job[w]] \in import_state /\ disk' \subseteq disk
    BY <1>3 DEF Commit, CommitIsRecorded, Zip
  <2>4. QED
    BY <2>1, <2>2, <2>3, LetGoReducesPending DEF Uninterrupted
<1>4. CASE GiveUp(w)
  <2>1. LetGo(w) /\ raised' = raised /\ UNCHANGED <<disk, shutdown, up>>
    BY <1>4 DEF GiveUp, Return, Release, LetGo, Busy, processVars, lifeVars
  <2>2. stats'.failed = stats.failed + 1 /\ stats.failed \in Nat
    BY <1>4 DEF GiveUp, Count, ImportStats
  <2>3. QED
    BY <2>1, <2>2, LetGoReducesPending DEF Uninterrupted
<1>5. CASE StopAttempts(w)
  <2>1. shutdown' /\ UNCHANGED <<disk, stats>>
    BY <1>5 DEF StopAttempts, processVars
  <2>2. QED
    BY <2>1 DEF Uninterrupted, ImportStats
<1>6. CASE CheckRaises(w)
  <2>1. UNCHANGED <<disk, stats, shutdown>>
    BY <1>6 DEF CheckRaises
  <2>2. CASE SerialImport
    BY <1>6, <2>1, <2>2 DEF CheckRaises, Uninterrupted, ImportStats
  <2>3. CASE ~SerialImport
    <3>1. LetGo(w) /\ raised' = raised \cup {job[w]} /\ up' = up
      BY <1>6, <2>3 DEF CheckRaises, Release, LetGo, Busy
    <3>2. QED
      BY <2>1, <3>1, RaisedStaysPending DEF Uninterrupted, ImportStats
  <2>4. QED
    BY <2>2, <2>3
<1>7. ASSUME WorkOn(w), UNCHANGED <<disk, shutdown, up>>,
             stats'.failed = stats.failed
      PROVE  /\ disk' \subseteq disk
             /\ stats'.failed >= stats.failed
             /\ Uninterrupted' =>
                  /\ Uninterrupted
                  /\ \A j \in Pending :
                       \/ j \in Pending'
                       \/ ZipOf[j] \in import_state
                       \/ stats'.failed > 0
  BY <1>7, WorkOnKeepsPending DEF Uninterrupted, ImportStats
<1>8. CASE UnlinkRaises(w)
  <2>1. WorkOn(w) /\ UNCHANGED <<disk, shutdown, up>>
    BY <1>8 DEF UnlinkRaises, Goto, WorkOn, Busy, processVars, lifeVars,
                futureVars
  <2>2. stats'.failed = stats.failed
    BY <1>8 DEF UnlinkRaises, CountImport, ImportStats
  <2>3. QED
    BY <1>7, <2>1, <2>2
<1>9. CASE NotImported(w) \/ BeginAttempt(w) \/ InsertBatch(w)
             \/ ReadRaises(w) \/ RejectRows(w) \/ MarkImported(w)
  <2>1. WorkOn(w) /\ UNCHANGED <<disk, stats, shutdown, up>>
    BY <1>9 DEF NotImported, BeginAttempt, InsertBatch, ReadRaises, RejectRows,
                MarkImported, EndOfRows, Goto, WorkOn, Busy, processVars,
                lifeVars, futureVars
  <2>2. QED
    BY <1>7, <2>1
<1>10. CASE InnerRollback(w) \/ RollbackMonth(w) \/ RollbackState(w)
             \/ Retry(w)
  <2>1. WorkOn(w) /\ UNCHANGED <<disk, stats, shutdown, up>>
    BY <1>10 DEF InnerRollback, RollbackMonth, RollbackState, Retry, Goto,
                 WorkOn, Busy, processVars, lifeVars, futureVars
  <2>2. QED
    BY <1>7, <2>1
<1>11. QED
  BY <1>1, <1>2, <1>3, <1>4, <1>5, <1>6, <1>8, <1>9, <1>10 DEF WorkerStep

\* A worker reaches "commit" only by recording its month.
LEMMA CommitStep ==
  ASSUME CleanFailures, IInv, CommitIsRecorded, [Next]_vars
  PROVE  CommitIsRecorded'
<1> USE DEF IInv, TypeOK, At, Steps
<1>1. import_state \subseteq import_state'
  BY LedgerGrows
<1>2. ASSUME NEW w \in Workers, WorkerStep(w), NEW v \in Workers,
             pc'[v] = "commit"
      PROVE  Zip(v)' \in import_state'
  <2>1. CASE MarkImported(w)
    <3>1. PICK o \in Outcome(MarkFaults) :
            /\ InsertState(Zip(w), o)
            /\ Goto(w, IF o = "ok" THEN "commit" ELSE "inner")
      BY <2>1 DEF MarkImported
    <3>2. CASE v = w
      BY <1>2, <3>1, <3>2 DEF Goto, InsertState, Executed, Zip
    <3>3. CASE v # w
      BY <1>1, <1>2, <3>1, <3>3 DEF Goto, Zip, CommitIsRecorded
    <3>4. QED
      BY <3>2, <3>3
  <2>2. CASE ~MarkImported(w)
    <3>1. pc[v] = "commit" /\ job'[v] = job[v]
      <4>1. CASE Take(w) \/ SkipImported(w) \/ NotImported(w) \/ CheckRaises(w)
                  \/ StopAttempts(w) \/ Commit(w) \/ GiveUp(w)
        BY <1>2, <4>1 DEF Take, SkipImported, NotImported, CheckRaises,
                          StopAttempts, Commit, GiveUp, Return, Release
      <4>2. CASE BeginAttempt(w) \/ InsertBatch(w) \/ ReadRaises(w)
                  \/ RejectRows(w)
        BY <1>2, <4>2 DEF BeginAttempt, InsertBatch, ReadRaises, RejectRows,
                          Goto
      <4>3. CASE UnlinkRaises(w) \/ InnerRollback(w) \/ RollbackMonth(w)
                  \/ RollbackState(w) \/ Retry(w)
        BY <1>2, <4>3 DEF UnlinkRaises, InnerRollback, RollbackMonth,
                          RollbackState, Retry, Goto
      <4>4. QED
        BY <1>2, <2>2, <4>1, <4>2, <4>3 DEF WorkerStep
    <3>2. QED
      BY <1>1, <3>1 DEF Zip, CommitIsRecorded
  <2>3. QED
    BY <2>1, <2>2
<1>3. CASE \E w \in Workers : WorkerStep(w)
  BY <1>2, <1>3 DEF CommitIsRecorded
<1>4. CASE Crash
  BY <1>4 DEF Crash, CommitIsRecorded
<1>5. CASE \/ Start \/ StartFails \/ Finish \/ RequestShutdown
           \/ \E j \in Jobs : CollectFuture(j)
           \/ \E s \in late : ExecuteLate(s)
           \/ \E z \in Zips : Redownload(z)
           \/ UNCHANGED vars
  <2>1. pc' = pc /\ job' = job
    BY <1>5 DEF Start, StartFails, Finish, RequestShutdown, CollectFuture,
                ExecuteLate, Redownload, vars, workerVars
  <2>2. QED
    BY <1>1, <2>1 DEF CommitIsRecorded, Zip
<1>6. QED
  BY <1>3, <1>4, <1>5 DEF Next

LEMMA StartOwesTheDisk ==
  ASSUME TypeOK, Start
  PROVE  /\ Pending' = {j \in Jobs : ZipOf[j] \in disk}
         /\ disk' = disk
<1>1. raised' = {} /\ \A w \in Workers : pc'[w] = "idle"
  BY DEF TypeOK, Start, workerVars
<1>2. QED
  BY <1>1 DEF Start, Pending, Busy

\* The same for every other step of an uninterrupted run.
LEMMA StepSettles ==
  ASSUME TypeOK, PendingIsDisjoint, CommitIsRecorded,
         [Next]_vars, ~Start, Uninterrupted'
  PROVE  /\ Uninterrupted
         /\ disk' \subseteq disk
         /\ stats'.failed >= stats.failed
         /\ \A j \in Pending :
              \/ j \in Pending'
              \/ ZipOf[j] \in import_state
              \/ stats'.failed > 0
<1> USE DEF TypeOK, Uninterrupted
<1>1. CASE \E w \in Workers : WorkerStep(w)
  BY <1>1, WorkerStepSettles
<1>2. ASSUME NEW j \in Jobs, CollectFuture(j)
      PROVE  /\ Uninterrupted /\ disk' \subseteq disk
             /\ stats'.failed >= stats.failed
             /\ \A i \in Pending : i \in Pending' \/ stats'.failed > 0
  <2>1. UNCHANGED <<disk, up, shutdown, pc, job, queue>>
    BY <1>2 DEF CollectFuture, workerVars, lifeVars
  <2>2. CASE j \in raised
    <3>1. stats'.failed = stats.failed + 1
      BY <1>2, <2>1, <2>2 DEF CollectFuture, Count, ImportStats
    <3>2. QED
      BY <2>1, <3>1 DEF ImportStats
  <2>3. CASE j \notin raised
    <3>1. stats' = stats /\ raised' = raised
      BY <1>2, <2>1, <2>3 DEF CollectFuture
    <3>2. QED
      BY <2>1, <3>1 DEF ImportStats, Pending, Busy
  <2>4. QED
    BY <2>2, <2>3
<1>3. CASE \/ StartFails \/ Finish \/ RequestShutdown \/ Crash
           \/ \E z \in Zips : Redownload(z)
  BY <1>3 DEF StartFails, Finish, RequestShutdown, Crash, Redownload, lifeVars
<1>4. CASE (\E s \in late : ExecuteLate(s)) \/ UNCHANGED vars
  <2>1. UNCHANGED <<disk, stats, up, shutdown, pc, job, queue, raised>>
    BY <1>4 DEF ExecuteLate, vars, workerVars, lifeVars, futureVars
  <2>2. QED
    BY <2>1 DEF ImportStats, Pending, Busy
<1>5. QED
  BY <1>1, <1>2, <1>3, <1>4 DEF Next

LEMMA ExitStep ==
  ASSUME CleanFailures, ExitInv, [Next]_vars
  PROVE  ExitInv'
<1> USE DEF ExitInv
<1>1. IInv' /\ CountInv' /\ CommitIsRecorded'
  BY SafetyStep, CountStep, CommitStep
<1>2. TypeOK /\ PendingIsDisjoint
  BY DEF CountInv
<1>3. import_state \subseteq import_state'
  BY LedgerGrows
<1>4. CASE Start
  BY <1>1, <1>2, <1>4, StartOwesTheDisk DEF SettledIsRecorded
<1>5. CASE ~Start
  <2>1. SUFFICES ASSUME Uninterrupted', NEW j \in Jobs, ZipOf[j] \in disk'
                 PROVE  \/ j \in Pending'
                        \/ ZipOf[j] \in import_state'
                        \/ stats'.failed > 0
    BY <1>1 DEF SettledIsRecorded
  <2>2. /\ Uninterrupted /\ ZipOf[j] \in disk
        /\ stats'.failed >= stats.failed
    BY <1>2, <1>5, <2>1, StepSettles
  <2>3. j \in Pending \/ ZipOf[j] \in import_state \/ stats.failed > 0
    BY <2>2 DEF SettledIsRecorded
  <2>4. stats'.failed \in Nat /\ stats.failed \in Nat
    BY <1>1, <1>2 DEF CountInv, TypeOK, ImportStats
  <2>5. QED
    BY <1>2, <1>3, <1>5, <2>1, <2>2, <2>3, <2>4, StepSettles
<1>6. QED
  BY <1>4, <1>5

LEMMA ExitInit == Init => ExitInv
<1> SUFFICES ASSUME Init PROVE SettledIsRecorded /\ CommitIsRecorded
  BY SafetyInit, CountInit DEF ExitInv
<1>1. QED
  BY DEF Init, IdleWorkers, SettledIsRecorded, CommitIsRecorded, Uninterrupted

\* Exit status 0 of an uninterrupted run, which the training container waits
\* for, means that every month with a ZIP on disk is recorded and complete.
THEOREM ExitOkIsHonest ==
  ASSUME CleanFailures PROVE Spec => ExitOkMeansImported
<1>1. ExitInv /\ [Next]_vars => ExitInv'
  BY ExitStep
<1>2. ExitInv /\ [Next]_vars
        => [Finish /\ ~shutdown /\ exit' = "ok" =>
              \A j \in Jobs : ZipOf[j] \in disk =>
                ZipOf[j] \in import_state /\ klines[ZipOf[j]] = Rows(ZipOf[j])]_vars
  <2> SUFFICES ASSUME ExitInv, Finish, ~shutdown, exit' = "ok",
                      NEW j \in Jobs, ZipOf[j] \in disk
               PROVE  /\ ZipOf[j] \in import_state
                      /\ klines[ZipOf[j]] = Rows(ZipOf[j])
    OBVIOUS
  <2>1. Pending = {} /\ Uninterrupted
    BY FinishedOwesNothing DEF ExitInv, Finish, Uninterrupted
  <2>2. ~(stats.failed > 0)
    BY DEF Finish
  <2>3. ZipOf[j] \in import_state
    BY <2>1, <2>2 DEF ExitInv, SettledIsRecorded
  <2>4. QED
    BY <2>3 DEF ExitInv, IInv, Safe, MarkedIsComplete
<1>3. QED
  BY ExitInit, <1>1, <1>2, PTL DEF Spec, ExitOkMeansImported

-----------------------------------------------------------------------------
(* Rollbacks.                                                              *)

\* What a worker does to the tables concerns the month it holds.
LEMMA OneMonthAtATime ==
  ASSUME TypeOK, EffectiveRollbacks, late = {}, raised = {},
         NEW w \in Workers, WorkerStep(w)
  PROVE  /\ \A z \in Zips : klines'[z] # klines[z] =>
              Busy(w) /\ Busy(w)' /\ job' = job /\ z = Zip(w)
         /\ faults' \in {faults, faults + 1}
         /\ late' = {} /\ raised' = {}
         /\ \A v \in Workers \ {w} : pc'[v] = pc[v] /\ job'[v] = job[v]
<1> USE DEF TypeOK, At, Steps, Busy
<1>1. CASE BeginAttempt(w) \/ InnerRollback(w) \/ RollbackMonth(w)
  BY <1>1 DEF BeginAttempt, InnerRollback, RollbackMonth, DeleteMonth, Charge,
              Goto, futureVars, Zip, dbVars
<1>2. CASE InsertBatch(w)
  <2>1. PICK o \in Outcome(InsertFaults) :
          /\ InsertRows(Zip(w), sent[w] + 1, o)
          /\ \/ pc' = pc
             \/ pc' = [pc EXCEPT ![w] = "inner"]
    BY <1>2 DEF InsertBatch
  <2>2. o # "late"
    BY <2>1 DEF Outcome, EffectiveRollbacks
  <2>3. QED
    BY <1>2, <2>1, <2>2 DEF InsertBatch, InsertRows, Charge, futureVars, Zip
<1>3. CASE MarkImported(w)
  <2>1. PICK o \in Outcome(MarkFaults) :
          InsertState(Zip(w), o) /\ Goto(w, IF o = "ok" THEN "commit" ELSE "inner")
    BY <1>3 DEF MarkImported
  <2>2. o # "late"
    BY <2>1 DEF Outcome, EffectiveRollbacks, CleanFailures
  <2>3. QED
    BY <1>3, <2>1, <2>2 DEF MarkImported, InsertState, Charge, Goto, futureVars
<1>4. CASE RollbackState(w)
  BY <1>4 DEF RollbackState, RemoveState, Charge, Goto, futureVars
<1>5. CASE UnlinkRaises(w) \/ CheckRaises(w)
  BY <1>5 DEF UnlinkRaises, CheckRaises, EffectiveRollbacks, CleanFailures
<1>6. CASE Take(w) \/ SkipImported(w) \/ NotImported(w) \/ StopAttempts(w)
             \/ Commit(w) \/ GiveUp(w)
  BY <1>6 DEF Take, SkipImported, NotImported, StopAttempts, Commit, GiveUp,
              Return, Release, dbVars, futureVars
<1>7. CASE ReadRaises(w) \/ RejectRows(w) \/ Retry(w)
  BY <1>7 DEF ReadRaises, RejectRows, Retry, EndOfRows, Goto, dbVars, futureVars
<1>8. QED
  BY <1>1, <1>2, <1>3, <1>4, <1>5, <1>6, <1>7 DEF WorkerStep

\* A failed attempt empties its month: either a delete succeeds, or the call
\* that failed was a delete and no other call can fail.
LEMMA RollbackEmpties ==
  ASSUME TypeOK, EffectiveRollbacks, FailedIsEmpty,
         NEW w \in Workers, WorkerStep(w)
  PROVE  /\ pc'[w] \in {"unmark", "failed"} => klines'[Zip(w)'] = {}
         /\ pc'[w] = "rollback" =>
              \/ klines'[Zip(w)'] = {}
              \/ faults' = MaxFaults
              \/ DeleteFaults \subseteq {"lost"}
<1> USE ImporterAssumption
    DEF ImporterAssumption, TypeOK, At, Steps, Zip, Failure, Outcome,
        EffectiveRollbacks
<1>1. CASE BeginAttempt(w)
  BY <1>1 DEF BeginAttempt, DeleteMonth, Charge, Executed
<1>2. CASE InnerRollback(w)
  BY <1>2 DEF InnerRollback, DeleteMonth, Charge, Executed, Goto
<1>3. CASE RollbackMonth(w)
  BY <1>3 DEF RollbackMonth, DeleteMonth, Charge, Executed, Goto, FailedIsEmpty
<1>4. CASE RollbackState(w)
  BY <1>4 DEF RollbackState, RemoveState, Goto, FailedIsEmpty
<1>5. CASE InsertBatch(w)
  BY <1>5 DEF InsertBatch
<1>6. CASE MarkImported(w)
  BY <1>6 DEF MarkImported, Goto
<1>7. CASE UnlinkRaises(w) \/ CheckRaises(w)
  BY <1>7 DEF UnlinkRaises, CheckRaises, CleanFailures
<1>8. CASE Take(w) \/ SkipImported(w) \/ NotImported(w) \/ StopAttempts(w)
             \/ Commit(w) \/ GiveUp(w)
  BY <1>8 DEF Take, SkipImported, NotImported, StopAttempts, Commit, GiveUp,
              Return, Release
<1>9. CASE ReadRaises(w) \/ RejectRows(w) \/ Retry(w)
  BY <1>9 DEF ReadRaises, RejectRows, Retry, EndOfRows, Goto
<1>10. QED
  BY <1>1, <1>2, <1>3, <1>4, <1>5, <1>6, <1>7, <1>8, <1>9 DEF WorkerStep

LEMMA FailedIsEmptyStep ==
  ASSUME TypeOK, TypeOK', JobsAreOwned, EffectiveRollbacks, FailedIsEmpty,
         late = {}, raised = {}, NEW w \in Workers, WorkerStep(w)
  PROVE  FailedIsEmpty'
<1> SUFFICES ASSUME NEW v \in Workers
             PROVE  /\ pc'[v] \in {"unmark", "failed"} => klines'[Zip(v)'] = {}
                    /\ pc'[v] = "rollback" =>
                         \/ klines'[Zip(v)'] = {}
                         \/ faults' = MaxFaults
                         \/ DeleteFaults \subseteq {"lost"}
  BY DEF FailedIsEmpty
<1>1. CASE v = w
  BY <1>1, RollbackEmpties
<1>2. CASE v # w /\ Busy(v)
  <2>1. Busy(w) => Zip(v) # Zip(w)
    BY <1>2, OtherZips DEF EffectiveRollbacks
  <2>2. pc'[v] = pc[v] /\ job'[v] = job[v]
    BY <1>2, OneMonthAtATime
  <2>3. Zip(v) \in Zips /\ Zip(v)' = Zip(v)
    BY <1>2, <2>2, ImporterAssumption DEF ImporterAssumption, TypeOK, Busy, Zip
  <2>4. klines'[Zip(v)] = klines[Zip(v)]
    BY <2>1, <2>3, OneMonthAtATime
  <2>5. faults = MaxFaults => faults' = MaxFaults
    BY OneMonthAtATime, ImporterAssumption DEF ImporterAssumption, TypeOK
  <2>6. QED
    BY <2>2, <2>3, <2>4, <2>5 DEF FailedIsEmpty
<1>3. CASE v # w /\ ~Busy(v)
  BY <1>3, OneMonthAtATime DEF Busy
<1>4. QED
  BY <1>1, <1>2, <1>3

\* The month of a file that a worker lets go of is recorded or empty.
LEMMA WorkerStepSettlesCleanly ==
  ASSUME TidyInv, EffectiveRollbacks, NEW w \in Workers, WorkerStep(w)
  PROVE  Uninterrupted' =>
           \A j \in Pending : j \in Pending' \/ CleanOf(ZipOf[j])
<1> USE DEF TypeOK, At, Steps
<1>1. TypeOK /\ PendingIsDisjoint
  BY DEF TidyInv, ExitInv, CountInv
<1>2. CASE Take(w)
  BY <1>1, <1>2, TakeKeepsPending
<1>3. CASE SkipImported(w) \/ Commit(w) \/ GiveUp(w)
  <2>1. LetGo(w) /\ raised' = raised
    BY <1>1, <1>3 DEF SkipImported, Commit, GiveUp, Return, Release, LetGo,
                      Busy, processVars
  <2>2. CleanOf(ZipOf[job[w]])
    BY <1>3 DEF SkipImported, Commit, GiveUp, CleanOf, TidyInv, ExitInv,
                CommitIsRecorded, FailedIsEmpty, Zip
  <2>3. QED
    BY <1>1, <2>1, <2>2, LetGoReducesPending
<1>4. CASE StopAttempts(w)
  BY <1>4 DEF StopAttempts, processVars, Uninterrupted
<1>5. CASE UnlinkRaises(w) \/ CheckRaises(w)
  BY <1>5 DEF UnlinkRaises, CheckRaises, EffectiveRollbacks, CleanFailures
<1>6. CASE NotImported(w) \/ BeginAttempt(w) \/ InsertBatch(w)
             \/ ReadRaises(w) \/ RejectRows(w) \/ MarkImported(w)
  <2>1. WorkOn(w)
    BY <1>1, <1>6 DEF NotImported, BeginAttempt, InsertBatch, ReadRaises,
                      RejectRows, MarkImported, EndOfRows, Goto, WorkOn, Busy,
                      processVars, futureVars
  <2>2. QED
    BY <1>1, <2>1, WorkOnKeepsPending
<1>7. CASE InnerRollback(w) \/ RollbackMonth(w) \/ RollbackState(w)
             \/ Retry(w)
  <2>1. WorkOn(w)
    BY <1>1, <1>7 DEF InnerRollback, RollbackMonth, RollbackState, Retry, Goto,
                      WorkOn, Busy, processVars, futureVars
  <2>2. QED
    BY <1>1, <2>1, WorkOnKeepsPending
<1>8. QED
  BY <1>2, <1>3, <1>4, <1>5, <1>6, <1>7 DEF WorkerStep

LEMMA TidyStep ==
  ASSUME EffectiveRollbacks, TidyInv, [Next]_vars
  PROVE  TidyInv'
<1>1. /\ TypeOK /\ TypeOK' /\ PendingIsDisjoint /\ CommitIsRecorded
      /\ FailedIsEmpty /\ late = {} /\ raised = {}
  BY TypeStep DEF TidyInv, ExitInv, CountInv
<1>2. ExitInv'
  BY ExitStep DEF TidyInv, EffectiveRollbacks
<1>3. import_state \subseteq import_state'
  BY LedgerGrows DEF TidyInv, ExitInv, EffectiveRollbacks
<1>4. ASSUME NEW w \in Workers, WorkerStep(w)
      PROVE  late' = {} /\ raised' = {} /\ FailedIsEmpty' /\ SettledIsClean'
  <2>1. late' = {} /\ raised' = {}
    BY <1>1, <1>4, OneMonthAtATime
  <2>2. FailedIsEmpty'
    BY <1>1, <1>4, FailedIsEmptyStep DEF PendingIsDisjoint
  <2>3. ASSUME Uninterrupted', NEW j \in Jobs, ZipOf[j] \in disk',
               j \notin Pending'
        PROVE  CleanOf(ZipOf[j])'
    <3>1. Uninterrupted /\ ZipOf[j] \in disk
      BY <1>1, <1>4, <2>3, WorkerStepSettles
    <3>2. CleanOf(ZipOf[j])
      <4>1. CASE j \in Pending
        BY <1>4, <2>3, <4>1, WorkerStepSettlesCleanly
      <4>2. CASE j \notin Pending
        BY <3>1, <4>2 DEF TidyInv, SettledIsClean
      <4>3. QED
        BY <4>1, <4>2
    <3>3. klines'[ZipOf[j]] = klines[ZipOf[j]]
      <4>1. SUFFICES ASSUME klines'[ZipOf[j]] # klines[ZipOf[j]] PROVE FALSE
        OBVIOUS
      <4>2. ZipOf[j] \in Zips
        BY ImporterAssumption DEF ImporterAssumption
      <4>3. Busy(w) /\ Busy(w)' /\ job' = job /\ ZipOf[j] = Zip(w)
        BY <1>1, <1>4, <4>1, <4>2, OneMonthAtATime
      <4>4. j = job'[w]
        BY <1>1, <4>3 DEF EffectiveRollbacks, CleanFailures, TypeOK, Busy, Zip
      <4>5. QED
        BY <2>3, <4>3, <4>4 DEF Pending
    <3>4. QED
      BY <1>3, <3>2, <3>3 DEF CleanOf
  <2>4. QED
    BY <2>1, <2>2, <2>3 DEF SettledIsClean
<1>5. CASE Start
  <2>1. late' = {} /\ raised' = {} /\ UNCHANGED <<klines, faults, pc, job>>
    BY <1>1, <1>5 DEF Start, dbVars, workerVars
  <2>2. FailedIsEmpty'
    BY <1>1, <2>1 DEF FailedIsEmpty, Zip
  <2>3. SettledIsClean'
    BY <1>1, <1>5, StartOwesTheDisk DEF SettledIsClean
  <2>4. QED
    BY <1>2, <2>1, <2>2, <2>3 DEF TidyInv
<1>6. CASE Crash
  BY <1>1, <1>2, <1>6 DEF Crash, dbVars, futureVars, TidyInv, FailedIsEmpty,
                          SettledIsClean, Uninterrupted
<1>7. CASE \/ StartFails \/ Finish \/ RequestShutdown \/ UNCHANGED vars
           \/ \E j \in Jobs : CollectFuture(j)
           \/ \E z \in Zips : Redownload(z)
           \/ \E s \in late : ExecuteLate(s)
  <2>1. /\ late' = {} /\ UNCHANGED <<klines, pc, job>>
        /\ raised' \subseteq raised /\ faults' \in {faults, faults + 1}
    BY <1>1, <1>7 DEF StartFails, Finish, RequestShutdown, vars, CollectFuture,
                      Redownload, ExecuteLate, dbVars, workerVars, futureVars
  <2>2. FailedIsEmpty'
    BY <1>1, <2>1, ImporterAssumption
       DEF ImporterAssumption, TypeOK, FailedIsEmpty, Zip
  <2>3. Uninterrupted' =>
          Uninterrupted /\ disk' \subseteq disk /\ queue' = queue
    BY <1>1, <1>7 DEF StartFails, Finish, RequestShutdown, vars, CollectFuture,
                      Redownload, ExecuteLate, Uninterrupted, lifeVars
  <2>4. Uninterrupted' => Pending' = Pending
    BY <1>1, <2>1, <2>3 DEF Pending, Busy
  <2>5. SettledIsClean'
    BY <1>3, <2>1, <2>3, <2>4 DEF TidyInv, SettledIsClean, CleanOf
  <2>6. QED
    BY <1>1, <1>2, <2>1, <2>2, <2>5 DEF TidyInv
<1>8. CASE \E w \in Workers : WorkerStep(w)
  BY <1>2, <1>4, <1>8 DEF TidyInv
<1>9. QED
  BY <1>5, <1>6, <1>7, <1>8 DEF Next

LEMMA TidyInit == Init => TidyInv
<1> SUFFICES ASSUME Init PROVE FailedIsEmpty /\ SettledIsClean
  BY ExitInit DEF TidyInv, Init
<1>1. QED
  BY DEF Init, IdleWorkers, FailedIsEmpty, SettledIsClean, Uninterrupted

\* When rollbacks are effective, a run that ends uninterrupted leaves every
\* month it had a ZIP for recorded or empty, whatever an earlier, killed run
\* had left behind.
THEOREM FinishedRunIsAlwaysClean ==
  ASSUME EffectiveRollbacks PROVE Spec => FinishedRunIsClean
<1>1. TidyInv /\ [Next]_vars => TidyInv'
  BY TidyStep
<1>2. TidyInv /\ [Next]_vars
        => [Finish /\ ~shutdown =>
              \A j \in Jobs : \/ ZipOf[j] \notin disk
                              \/ ZipOf[j] \in import_state
                              \/ klines[ZipOf[j]] = {}]_vars
  <2> SUFFICES ASSUME TidyInv, Finish, ~shutdown, NEW j \in Jobs,
                      ZipOf[j] \in disk
               PROVE  ZipOf[j] \in import_state \/ klines[ZipOf[j]] = {}
    OBVIOUS
  <2>1. Pending = {} /\ Uninterrupted
    BY FinishedOwesNothing DEF TidyInv, ExitInv, Finish, Uninterrupted
  <2>2. QED
    BY <2>1 DEF TidyInv, SettledIsClean, CleanOf
<1>3. QED
  BY TidyInit, <1>1, <1>2, PTL DEF Spec, FinishedRunIsClean

-----------------------------------------------------------------------------
(* Why a run ends, but for the scheduling: a worker has a bounded number of *)
(* steps before it per file, each step uses one up, and only taking another *)
(* file out of the queue, which does not grow, gives it new ones.           *)

\* The steps of one attempt at most, whatever fails in it.
PerAttempt(w) == Batches[Zip(w)] + 8

\* The steps of the attempts a worker has left after the one it is in.
Left(w) == PerAttempt(w) * (RetryCount + 1 - attempt[w])

\* What remains of the attempt it is in.
Rest(w) ==
  CASE pc[w] = "begin"    -> Batches[Zip(w)] + 7
    [] pc[w] = "insert"   -> Batches[Zip(w)] - sent[w] + 6
    [] pc[w] = "commit"   -> 5
    [] pc[w] = "inner"    -> 4
    [] pc[w] = "rollback" -> 3
    [] pc[w] = "unmark"   -> 2
    [] OTHER              -> 1

\* The steps a worker may still take before it lets go of its file.
Work(w) ==
  IF pc[w] = "idle" THEN 0
  ELSE IF pc[w] = "check" THEN PerAttempt(w) * (RetryCount + 1)
  ELSE Left(w) + Rest(w)

\* A worker sends no batch the CSV does not have.
SentIsBounded ==
  \A w \in Workers : pc[w] = "insert" => sent[w] <= Batches[Zip(w)]

LEMMA Products ==
  ASSUME NEW c \in Nat, NEW n \in Nat
  PROVE  c * n \in Nat /\ c * (n + 1) = c * n + c
OBVIOUS

\* All attempts, and those that are left, as numbers.
LEMMA AttemptsLeft ==
  ASSUME TypeOK, NEW w \in Workers, pc[w] # "idle"
  PROVE  /\ Batches[Zip(w)] \in Nat /\ RetryCount \in Nat
         /\ PerAttempt(w) = Batches[Zip(w)] + 8
         /\ PerAttempt(w) * (RetryCount + 1) \in Nat
         /\ PerAttempt(w) * RetryCount \in Nat
         /\ PerAttempt(w) * (RetryCount + 1)
              = PerAttempt(w) * RetryCount + PerAttempt(w)
         /\ attempt[w] \in 1 .. RetryCount + 1 =>
              /\ Left(w) \in Nat
              /\ Left(w) <= PerAttempt(w) * RetryCount
         /\ attempt[w] \in 1 .. RetryCount =>
              Left(w) = PerAttempt(w) * (RetryCount + 1 - (attempt[w] + 1))
                          + PerAttempt(w)
<1> USE ImporterAssumption DEF ImporterAssumption
<1> DEFINE c == PerAttempt(w)
<1>1. /\ Batches[Zip(w)] \in Nat /\ c = Batches[Zip(w)] + 8
      /\ RetryCount \in Nat /\ attempt[w] \in 0 .. RetryCount + 1
  BY DEF TypeOK, Zip, PerAttempt
<1> HIDE DEF c
<1>2. /\ c * (RetryCount + 1) \in Nat /\ c * RetryCount \in Nat
      /\ c * (RetryCount + 1) = c * RetryCount + c
  BY <1>1, Products, RetryCount + 1 \in Nat
<1>3. ASSUME attempt[w] \in 1 .. RetryCount + 1
      PROVE  Left(w) \in Nat /\ Left(w) <= c * RetryCount
  <2> DEFINE left == RetryCount + 1 - attempt[w]
             done == attempt[w] - 1
  <2>1. left \in Nat /\ done \in Nat /\ RetryCount = left + done
    BY <1>1, <1>3
  <2>2. Left(w) = c * left
    BY DEF Left, c
  <2> HIDE DEF left, done
  <2>3. c * left \in Nat /\ c * done \in Nat
    BY <1>1, <2>1, Products
  <2>4. c * (left + done) = c * left + c * done
    BY <1>1, <2>1
  <2> QED
    BY <2>1, <2>2, <2>3, <2>4
<1>4. ASSUME attempt[w] \in 1 .. RetryCount
      PROVE  Left(w) = c * (RetryCount + 1 - (attempt[w] + 1)) + c
  <2> DEFINE left == RetryCount + 1 - (attempt[w] + 1)
  <2>1. left \in Nat /\ RetryCount + 1 - attempt[w] = left + 1
    BY <1>1, <1>4
  <2>2. Left(w) = c * (left + 1)
    BY <2>1 DEF Left, c
  <2> HIDE DEF left
  <2>3. c * (left + 1) = c * left + c
    <3>1. c \in Nat /\ left \in Nat
      BY <1>1, <2>1
    <3> QED
      BY <3>1, Products
  <2> QED
    BY <2>2, <2>3 DEF left
<1> QED
  BY <1>1, <1>2, <1>3, <1>4 DEF c

\* The cases of Rest one by one, before and after a step.
LEMMA RestAt ==
  ASSUME NEW w \in Workers
  PROVE  /\ pc[w] = "begin" => Rest(w) = Batches[Zip(w)] + 7
         /\ pc[w] = "insert" => Rest(w) = Batches[Zip(w)] - sent[w] + 6
         /\ pc[w] = "commit" => Rest(w) = 5
         /\ pc[w] = "inner" => Rest(w) = 4
         /\ pc[w] = "rollback" => Rest(w) = 3
         /\ pc[w] = "unmark" => Rest(w) = 2
         /\ pc[w] = "failed" => Rest(w) = 1
<1>1. pc[w] = "begin" => Rest(w) = Batches[Zip(w)] + 7
  BY DEF Rest
<1>2. pc[w] = "insert" => Rest(w) = Batches[Zip(w)] - sent[w] + 6
  BY DEF Rest
<1>3. /\ pc[w] = "commit" => Rest(w) = 5
      /\ pc[w] = "inner" => Rest(w) = 4
      /\ pc[w] = "rollback" => Rest(w) = 3
      /\ pc[w] = "unmark" => Rest(w) = 2
      /\ pc[w] = "failed" => Rest(w) = 1
  BY DEF Rest
<1> QED
  BY <1>1, <1>2, <1>3

LEMMA RestAtNext ==
  ASSUME NEW w \in Workers, job'[w] = job[w]
  PROVE  /\ pc'[w] = "begin" => Rest(w)' = Batches[Zip(w)] + 7
         /\ pc'[w] = "insert" => Rest(w)' = Batches[Zip(w)] - sent'[w] + 6
         /\ pc'[w] = "commit" => Rest(w)' = 5
         /\ pc'[w] = "inner" => Rest(w)' = 4
         /\ pc'[w] = "rollback" => Rest(w)' = 3
         /\ pc'[w] = "unmark" => Rest(w)' = 2
         /\ pc'[w] = "failed" => Rest(w)' = 1
<1>1. pc'[w] = "begin" => Rest(w)' = Batches[Zip(w)] + 7
  BY DEF Rest, Zip
<1>2. pc'[w] = "insert" => Rest(w)' = Batches[Zip(w)] - sent'[w] + 6
  BY DEF Rest, Zip
<1>3. /\ pc'[w] = "commit" => Rest(w)' = 5
      /\ pc'[w] = "inner" => Rest(w)' = 4
      /\ pc'[w] = "rollback" => Rest(w)' = 3
      /\ pc'[w] = "unmark" => Rest(w)' = 2
      /\ pc'[w] = "failed" => Rest(w)' = 1
  BY DEF Rest
<1> QED
  BY <1>1, <1>2, <1>3

\* What remains of an attempt is less than an attempt.
LEMMA RestBounds ==
  ASSUME TypeOK, SentIsBounded, NEW w \in Workers, pc[w] \notin {"idle", "check"}
  PROVE  /\ Rest(w) \in 1 .. PerAttempt(w) - 1
         /\ attempt[w] \in 1 .. RetryCount + 1
<1>1. Batches[Zip(w)] \in Nat /\ PerAttempt(w) = Batches[Zip(w)] + 8
  BY AttemptsLeft
<1>2. /\ sent[w] \in Nat /\ (pc[w] = "insert" => sent[w] <= Batches[Zip(w)])
      /\ attempt[w] \in 1 .. RetryCount + 1
      /\ pc[w] \in {"begin", "insert", "commit", "inner", "rollback", "unmark",
                    "failed"}
  BY DEF TypeOK, SentIsBounded, Steps
<1> QED
  BY <1>1, <1>2, RestAt

\* It is a number, and no more than the retry count allows.
LEMMA WorkBounds ==
  ASSUME TypeOK, SentIsBounded, NEW w \in Workers
  PROVE  /\ Work(w) \in Nat
         /\ pc[w] # "idle" =>
              Work(w) > 0 /\ Work(w) <= PerAttempt(w) * (RetryCount + 1)
<1>1. CASE pc[w] = "idle"
  BY <1>1 DEF Work
<1>2. CASE pc[w] = "check"
  <2>1. Work(w) = PerAttempt(w) * (RetryCount + 1)
    BY <1>2 DEF Work
  <2> QED
    BY <1>2, <2>1, AttemptsLeft
<1>3. CASE pc[w] \notin {"idle", "check"}
  <2>1. Work(w) = Left(w) + Rest(w)
    BY <1>3 DEF Work
  <2> QED
    BY <1>3, <2>1, AttemptsLeft, RestBounds
<1> QED
  BY <1>1, <1>2, <1>3

\* No step sends a batch the CSV does not have.
LEMMA SentStep == TypeOK /\ SentIsBounded /\ [Next]_vars => SentIsBounded'
<1> USE ImporterAssumption DEF ImporterAssumption
<1> SUFFICES ASSUME TypeOK, SentIsBounded, [Next]_vars,
                    NEW v \in Workers, pc'[v] = "insert"
             PROVE  sent'[v] <= Batches[ZipOf[job'[v]]]
  BY DEF SentIsBounded, Zip
<1> USE DEF TypeOK, SentIsBounded, At, Goto, Release, Return, Zip, workerVars
<1>1. ASSUME NEW w \in Workers, WorkerStep(w)
      PROVE  sent'[v] <= Batches[ZipOf[job'[v]]]
  <2>1. CASE Take(w)
    BY <2>1 DEF Take
  <2>2. CASE SkipImported(w) \/ NotImported(w) \/ CheckRaises(w) \/ StopAttempts(w)
    BY <2>2 DEF SkipImported, NotImported, CheckRaises, StopAttempts
  <2>3. CASE BeginAttempt(w)
    BY <2>3 DEF BeginAttempt
  <2>4. CASE InsertBatch(w)
    BY <2>4 DEF InsertBatch
  <2>5. CASE ReadRaises(w) \/ RejectRows(w) \/ MarkImported(w)
    BY <2>5 DEF ReadRaises, RejectRows, MarkImported
  <2>6. CASE Commit(w) \/ UnlinkRaises(w) \/ InnerRollback(w) \/ RollbackState(w)
    BY <2>6 DEF Commit, UnlinkRaises, InnerRollback, RollbackState
  <2>7. CASE RollbackMonth(w)
    BY <2>7 DEF RollbackMonth
  <2>8. CASE Retry(w) \/ GiveUp(w)
    BY <2>8 DEF Retry, GiveUp
  <2> QED
    BY <1>1, <2>1, <2>2, <2>3, <2>4, <2>5, <2>6, <2>7, <2>8 DEF WorkerStep
<1>2. CASE ~\E w \in Workers : WorkerStep(w)
  BY <1>2 DEF Next, Start, StartFails, CollectFuture, Finish, RequestShutdown,
              Crash, ExecuteLate, Redownload, vars
<1> QED
  BY <1>1, <1>2

\* What a worker's step does to its place: nothing at all to that of another.
LEMMA OtherWorkers ==
  ASSUME TypeOK, NEW w \in Workers, WorkerStep(w), NEW v \in Workers \ {w}
  PROVE  /\ pc'[v] = pc[v] /\ job'[v] = job[v]
         /\ attempt'[v] = attempt[v] /\ sent'[v] = sent[v]
<1> USE DEF TypeOK, Goto, Release, Return, processVars
<1>1. CASE Take(w) \/ SkipImported(w) \/ NotImported(w) \/ CheckRaises(w)
  BY <1>1 DEF Take, SkipImported, NotImported, CheckRaises
<1>2. CASE StopAttempts(w) \/ BeginAttempt(w) \/ InsertBatch(w) \/ ReadRaises(w)
  BY <1>2 DEF StopAttempts, BeginAttempt, InsertBatch, ReadRaises
<1>3. CASE RejectRows(w) \/ MarkImported(w) \/ Commit(w) \/ UnlinkRaises(w)
  BY <1>3 DEF RejectRows, MarkImported, Commit, UnlinkRaises
<1>4. CASE InnerRollback(w) \/ RollbackMonth(w) \/ RollbackState(w) \/ Retry(w)
             \/ GiveUp(w)
  BY <1>4 DEF InnerRollback, RollbackMonth, RollbackState, Retry, GiveUp
<1> QED
  BY <1>1, <1>2, <1>3, <1>4 DEF WorkerStep

\* Where a worker's step leads within an attempt.
Onward(w) ==
  /\ job'[w] = job[w] /\ attempt'[w] = attempt[w]
  /\ \/ pc[w] = "begin" /\ pc'[w] = "insert" /\ sent'[w] = 0
     \/ pc[w] = "begin" /\ pc'[w] = "rollback"
     \/ /\ pc[w] = "insert" /\ sent[w] < Batches[Zip(w)]
        /\ pc'[w] = "insert" /\ sent'[w] = sent[w] + 1
     \/ pc[w] = "insert" /\ pc'[w] \in {"commit", "inner"}
     \/ pc[w] = "commit" /\ pc'[w] = "rollback"
     \/ pc[w] = "inner" /\ pc'[w] = "rollback"
     \/ pc[w] = "rollback" /\ pc'[w] \in {"unmark", "failed"}
     \/ pc[w] = "unmark" /\ pc'[w] = "failed"

LEMMA WorkerMoves ==
  ASSUME TypeOK, NEW w \in Workers, WorkerStep(w)
  PROVE  \/ Take(w) \/ NotImported(w) \/ Retry(w) \/ Onward(w)
         \/ pc[w] # "idle" /\ pc'[w] = "idle"
<1> USE DEF TypeOK, At, Goto, Release, Return, Onward, workerVars
<1>1. CASE SkipImported(w) \/ CheckRaises(w) \/ StopAttempts(w) \/ Commit(w)
             \/ GiveUp(w)
  BY <1>1 DEF SkipImported, CheckRaises, StopAttempts, Commit, GiveUp
<1>2. CASE BeginAttempt(w)
  BY <1>2 DEF BeginAttempt
<1>3. CASE InsertBatch(w)
  BY <1>3 DEF InsertBatch
<1>4. CASE ReadRaises(w) \/ RejectRows(w) \/ MarkImported(w)
  BY <1>4 DEF ReadRaises, RejectRows, MarkImported, EndOfRows
<1>5. CASE UnlinkRaises(w) \/ InnerRollback(w) \/ RollbackState(w)
  BY <1>5 DEF UnlinkRaises, InnerRollback, RollbackState
<1>6. CASE RollbackMonth(w)
  BY <1>6 DEF RollbackMonth
<1> QED
  BY <1>1, <1>2, <1>3, <1>4, <1>5, <1>6 DEF WorkerStep

\* A step of a worker uses one up, unless it takes a file.
LEMMA WorkIsDone ==
  ASSUME TypeOK, TypeOK', SentIsBounded, SentIsBounded',
         NEW w \in Workers, WorkerStep(w), ~Take(w)
  PROVE  Work(w)' < Work(w)
<1> USE ImporterAssumption DEF ImporterAssumption
<1>1. CASE pc[w] # "idle" /\ pc'[w] = "idle"
  <2>1. Work(w)' = 0
    BY <1>1 DEF Work
  <2> QED
    BY <1>1, <2>1, WorkBounds
<1>2. CASE NotImported(w)
  <2>1. /\ pc[w] = "check" /\ pc'[w] = "begin" /\ attempt'[w] = 1 /\ job' = job
    BY <1>2 DEF NotImported, TypeOK, At
  <2>2. /\ RetryCount \in Nat /\ Batches[Zip(w)] \in Nat
        /\ PerAttempt(w) = Batches[Zip(w)] + 8
        /\ PerAttempt(w) * RetryCount \in Nat
        /\ PerAttempt(w) * (RetryCount + 1)
             = PerAttempt(w) * RetryCount + PerAttempt(w)
    BY <2>1, AttemptsLeft
  <2>3. Work(w)' = Left(w)' + Rest(w)' /\ Work(w) = PerAttempt(w) * (RetryCount + 1)
    BY <2>1 DEF Work
  <2>4. Left(w)' = PerAttempt(w) * RetryCount
    <3>1. RetryCount + 1 - attempt'[w] = RetryCount /\ PerAttempt(w)' = PerAttempt(w)
      BY <2>1, <2>2 DEF PerAttempt, Zip
    <3> QED
      BY <3>1 DEF Left
  <2>5. Rest(w)' = Batches[Zip(w)] + 7
    BY <2>1 DEF Rest, Zip
  <2> QED
    BY <2>2, <2>3, <2>4, <2>5
<1>3. CASE Retry(w)
  <2>1. /\ pc[w] = "failed" /\ pc'[w] = "begin" /\ job' = job
        /\ attempt'[w] = attempt[w] + 1 /\ attempt[w] \in 1 .. RetryCount
    BY <1>3 DEF Retry, TypeOK, At
  <2> DEFINE left == PerAttempt(w) * (RetryCount + 1 - (attempt[w] + 1))
  <2>2. /\ RetryCount \in Nat /\ Batches[Zip(w)] \in Nat
        /\ PerAttempt(w) = Batches[Zip(w)] + 8 /\ Left(w) \in Nat
        /\ Left(w) = left + PerAttempt(w)
    BY <2>1, AttemptsLeft
  <2>3. left \in Nat
    <3>1. RetryCount + 1 - (attempt[w] + 1) \in Nat /\ PerAttempt(w) \in Nat
      BY <2>1, <2>2
    <3> QED
      BY <3>1, Products
  <2>4. Work(w)' = Left(w)' + Rest(w)' /\ Work(w) = Left(w) + Rest(w)
    BY <2>1 DEF Work
  <2>5. Left(w)' = left
    BY <2>1 DEF Left, PerAttempt, Zip
  <2>6. Rest(w)' = Batches[Zip(w)] + 7 /\ Rest(w) = 1
    BY <2>1 DEF Rest, Zip
  <2> HIDE DEF left
  <2> QED
    BY <2>2, <2>3, <2>4, <2>5, <2>6
<1>4. CASE Onward(w)
  <2>1. /\ pc[w] \notin {"idle", "check"} /\ pc'[w] \notin {"idle", "check"}
        /\ job'[w] = job[w] /\ attempt'[w] = attempt[w]
    BY <1>4 DEF Onward
  <2>2. Left(w)' = Left(w)
    BY <2>1 DEF Left, PerAttempt, Zip
  <2>3. Left(w) \in Nat /\ Batches[Zip(w)] \in Nat /\ sent[w] \in Nat
        /\ (pc[w] = "insert" => sent[w] <= Batches[Zip(w)])
    BY <2>1, AttemptsLeft, RestBounds DEF TypeOK, SentIsBounded
  <2>4. Rest(w)' \in Int /\ Rest(w) \in Int /\ Rest(w)' < Rest(w)
    BY <1>4, <2>1, <2>3, RestAt, RestAtNext DEF Onward
  <2>5. Work(w)' = Left(w)' + Rest(w)' /\ Work(w) = Left(w) + Rest(w)
    BY <2>1 DEF Work
  <2> QED
    BY <2>2, <2>3, <2>4, <2>5
<1> QED
  BY <1>1, <1>2, <1>3, <1>4, WorkerMoves

\* The bound in the next state.
LEMMA WorkBoundsNext ==
  (TypeOK /\ SentIsBounded)' => (\A w \in Workers : Work(w) \in Nat)'
<1>1. TypeOK /\ SentIsBounded => \A w \in Workers : Work(w) \in Nat
  BY WorkBounds
<1> QED
  BY <1>1, PTL

\* The same for every step: no other worker gets more work, and the queue of a
\* run only shrinks.
LEMMA WorkGoesDown ==
  ASSUME TypeOK, TypeOK', SentIsBounded, SentIsBounded', [Next]_vars
  PROVE  /\ up => queue' \subseteq queue
         /\ \A w \in Workers :
              /\ Take(w) => queue' # queue
              /\ WorkerStep(w) /\ ~Take(w) => Work(w)' < Work(w)
              /\ up /\ up' /\ ~Take(w) => Work(w)' <= Work(w)
<1>1. up => queue' \subseteq queue
  <2>1. ASSUME NEW w \in Workers, WorkerStep(w) PROVE queue' \subseteq queue
    <3> USE DEF processVars
    <3>1. CASE Take(w) \/ SkipImported(w) \/ NotImported(w) \/ CheckRaises(w)
      BY <3>1 DEF Take, SkipImported, NotImported, CheckRaises
    <3>2. CASE StopAttempts(w) \/ BeginAttempt(w) \/ InsertBatch(w) \/ ReadRaises(w)
      BY <3>2 DEF StopAttempts, BeginAttempt, InsertBatch, ReadRaises
    <3>3. CASE RejectRows(w) \/ MarkImported(w) \/ Commit(w) \/ UnlinkRaises(w)
      BY <3>3 DEF RejectRows, MarkImported, Commit, UnlinkRaises
    <3>4. CASE InnerRollback(w) \/ RollbackMonth(w) \/ RollbackState(w)
                 \/ Retry(w) \/ GiveUp(w)
      BY <3>4 DEF InnerRollback, RollbackMonth, RollbackState, Retry, GiveUp
    <3> QED
      BY <2>1, <3>1, <3>2, <3>3, <3>4 DEF WorkerStep
  <2>2. CASE up /\ ~\E w \in Workers : WorkerStep(w)
    BY <2>2 DEF Next, Start, StartFails, CollectFuture, Finish, RequestShutdown,
                Crash, ExecuteLate, Redownload, vars
  <2> QED
    BY <2>1, <2>2
<1>2. ASSUME NEW w \in Workers, Take(w) PROVE queue' # queue
  BY <1>2 DEF Take
<1>3. ASSUME NEW w \in Workers, WorkerStep(w), ~Take(w) PROVE Work(w)' < Work(w)
  BY <1>3, WorkIsDone
<1>4. ASSUME NEW w \in Workers, up, up', ~Take(w) PROVE Work(w)' <= Work(w)
  <2>1. Work(w) \in Nat /\ Work(w)' \in Nat
    BY WorkBounds, WorkBoundsNext
  <2>2. CASE WorkerStep(w)
    BY <1>3, <1>4, <2>1, <2>2
  <2>3. CASE \E v \in Workers \ {w} : WorkerStep(v)
    <3>1. PICK v \in Workers \ {w} : WorkerStep(v)
      BY <2>3
    <3>2. /\ pc'[w] = pc[w] /\ job'[w] = job[w]
          /\ attempt'[w] = attempt[w] /\ sent'[w] = sent[w]
      BY <3>1, OtherWorkers
    <3>3. Work(w)' = Work(w)
      BY <3>2 DEF Work, Left, Rest, PerAttempt, Zip
    <3> QED
      BY <2>1, <3>3
  <2>4. CASE ~\E v \in Workers : WorkerStep(v)
    <3>1. UNCHANGED workerVars
      BY <1>4, <2>4 DEF Next, Start, StartFails, CollectFuture, Finish,
         RequestShutdown, Crash, ExecuteLate, Redownload, vars
    <3>2. Work(w)' = Work(w)
      BY <3>1 DEF Work, Left, Rest, PerAttempt, Zip, workerVars
    <3> QED
      BY <2>1, <3>2
  <2> QED
    BY <2>2, <2>3, <2>4
<1> QED
  BY <1>1, <1>2, <1>3, <1>4

\* From the moment it takes a file a worker has at most
\* (Batches + 8) * (RetryCount + 1) steps before it, whatever fails, stays or
\* is shut down; each of its steps uses one up, nobody gives it more, and the
\* queue, the only source of further work, shrinks with every file taken.
THEOREM WorkIsBounded ==
  Spec => /\ [](\A w \in Workers :
                  /\ Work(w) \in Nat
                  /\ pc[w] # "idle" =>
                       Work(w) <= PerAttempt(w) * (RetryCount + 1))
          /\ [][/\ up => queue' \subseteq queue
                /\ \A w \in Workers :
                     /\ Take(w) => queue' # queue
                     /\ WorkerStep(w) /\ ~Take(w) => Work(w)' < Work(w)
                     /\ up /\ up' /\ ~Take(w) => Work(w)' <= Work(w)]_vars
<1>1. Init => SentIsBounded
  BY DEF Init, IdleWorkers, SentIsBounded
<1>2. TypeOK /\ SentIsBounded =>
        \A w \in Workers :
          /\ Work(w) \in Nat
          /\ pc[w] # "idle" => Work(w) <= PerAttempt(w) * (RetryCount + 1)
  BY WorkBounds
<1>3. TypeOK /\ TypeOK' /\ SentIsBounded /\ SentIsBounded' /\ [Next]_vars =>
        [/\ up => queue' \subseteq queue
         /\ \A w \in Workers :
              /\ Take(w) => queue' # queue
              /\ WorkerStep(w) /\ ~Take(w) => Work(w)' < Work(w)
              /\ up /\ up' /\ ~Take(w) => Work(w)' <= Work(w)]_vars
  BY WorkGoesDown
<1> QED
  BY <1>1, <1>2, <1>3, TypeInit, TypeStep, SentStep, PTL DEF Spec
=============================================================================
