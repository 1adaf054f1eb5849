------------------------------ MODULE Importer ------------------------------
(***************************************************************************)
(* The importer service: ImportWorker (services/importer/worker.py) and    *)
(* the two ClickHouse tables it writes through ClickHouseClient            *)
(* (services/database/client.py).  One run lists the monthly ZIPs on disk  *)
(* and, for each, deletes the month's klines, inserts the CSV in batches,  *)
(* validates, records the file in import_state and possibly removes the    *)
(* ZIP; a failed attempt is rolled back and retried.  The process may be   *)
(* killed between any two database calls and be run again.                 *)
(***************************************************************************)
EXTENDS Integers, FiniteSets

CONSTANTS
  Zips,               \* the monthly ZIP files; each has a month of its own
  Jobs,               \* entries of the list discover_local_zips can return
  ZipOf,              \* Jobs -> Zips; not injective if the config repeats a symbol
  Rank,               \* Jobs -> Nat, the order of zip_chronological_key
  Batches,            \* Zips -> Nat, batches of valid rows in the CSV
  Quality,            \* Zips -> {"clean", "dirty", "unreadable"}
  Workers,            \* the threads of the pool; one in serial mode
  NoJob,              \* the job of an idle worker
  SerialImport, StrictValidation, RollbackOnFailure, DeleteAfterImport,
  RetryCount,
  \* How a database call can fail, per kind of statement (see Outcome).
  InsertFaults, DeleteFaults, MarkFaults, UnmarkFaults,
  CheckMayFail,       \* may is_file_imported or a connection raise?
  UnlinkMayFail,      \* may zip_path.unlink raise?
  MaxFaults,          \* bound on failing calls in a behaviour
  MaxRuns, MaxCrashes \* bounds on runs and on kills of the process

Failure == {"refused", "lost", "late"}

ASSUME ImporterAssumption ==
  /\ ZipOf \in [Jobs -> Zips]
  /\ Rank \in [Jobs -> Nat]
  /\ Batches \in [Zips -> Nat]
  /\ Quality \in [Zips -> {"clean", "dirty", "unreadable"}]
  /\ IsFiniteSet(Jobs)
  /\ NoJob \notin Jobs
  /\ {SerialImport, StrictValidation, RollbackOnFailure, DeleteAfterImport,
      CheckMayFail, UnlinkMayFail} \subseteq BOOLEAN
  /\ {RetryCount, MaxFaults, MaxRuns, MaxCrashes} \subseteq Nat
  /\ InsertFaults \subseteq Failure
  /\ MarkFaults \subseteq Failure
  /\ DeleteFaults \subseteq Failure \ {"late"}
  /\ UnmarkFaults \subseteq Failure \ {"late"}
  /\ SerialImport => \A v, w \in Workers : v = w

VARIABLES
  disk,           \* the ZIPs in the download directory
  klines,         \* month of a ZIP -> the batches whose rows are in the table
  import_state,   \* the ZIPs recorded as imported
  late,           \* timed-out statements the server may still execute
  up,             \* is the importer process alive?
  exit,           \* how the last process ended
  runs, crashes, faults,
  queue,          \* jobs of this run no thread has taken
  stats,          \* ImportStats
  shutdown,       \* ImportWorker._shutdown
  collecting,     \* is run() still reading futures?
  completed,      \* finished futures run() has not read
  raised,         \* those of them that hold an exception
  pc, job, attempt, sent   \* of each worker thread

dbVars     == <<klines, import_state, late>>
workerVars == <<pc, job, attempt, sent>>
futureVars == <<collecting, completed, raised>>
lifeVars   == <<up, exit, runs, crashes>>
vars == <<disk, dbVars, lifeVars, faults, queue, stats, shutdown, futureVars,
          workerVars>>

Steps == {"idle", "check", "begin", "insert", "commit", "inner", "rollback",
          "unmark", "failed"}

Rows(z) == 1 .. Batches[z]
Late == [stmt : {"insert"}, zip : Zips, batch : Nat]
          \cup [stmt : {"mark"}, zip : Zips]

ImportStats ==
  [total : Nat, imported : Nat, skipped : Nat, failed : Nat, rows : Nat]

TypeOK ==
  /\ disk \subseteq Zips
  /\ klines \in [Zips -> SUBSET Nat]
  /\ import_state \subseteq Zips
  /\ late \subseteq Late
  /\ up \in BOOLEAN
  /\ exit \in {"none", "ok", "errors", "killed"}
  /\ runs \in 0 .. MaxRuns /\ crashes \in 0 .. MaxCrashes
  /\ faults \in 0 .. MaxFaults
  /\ queue \subseteq Jobs
  /\ stats \in ImportStats
  /\ shutdown \in BOOLEAN
  /\ collecting \in BOOLEAN
  /\ completed \subseteq Jobs /\ raised \subseteq completed
  /\ pc \in [Workers -> Steps]
  /\ job \in [Workers -> Jobs \cup {NoJob}]
  /\ attempt \in [Workers -> 0 .. RetryCount + 1]
  /\ sent \in [Workers -> Nat]
  /\ \A w \in Workers : pc[w] # "idle" => job[w] \in Jobs /\ up
  /\ \A w \in Workers :
       pc[w] \notin {"idle", "check"} => attempt[w] \in 1 .. RetryCount + 1

NoStats == [total |-> 0, imported |-> 0, skipped |-> 0, failed |-> 0,
            rows |-> 0]

IdleWorkers ==
  /\ pc = [w \in Workers |-> "idle"]
  /\ job = [w \in Workers |-> NoJob]
  /\ attempt = [w \in Workers |-> 0]
  /\ sent = [w \in Workers |-> 0]

Init ==
  /\ disk = Zips
  /\ klines = [z \in Zips |-> {}]
  /\ import_state = {} /\ late = {}
  /\ up = FALSE /\ exit = "none" /\ runs = 0 /\ crashes = 0 /\ faults = 0
  /\ queue = {} /\ stats = NoStats /\ shutdown = FALSE
  /\ collecting = FALSE /\ completed = {} /\ raised = {}
  /\ IdleWorkers

-----------------------------------------------------------------------------
(* A call to ClickHouse succeeds, or raises in the client while the server *)
(* ignored it ("refused"), executed it ("lost") or is still going to       *)
(* ("late": the client timed out).  A late ALTER DELETE is not modelled: a *)
(* mutation only reaches parts older than itself.                          *)

Outcome(failures) ==
  {"ok"} \cup (IF faults < MaxFaults THEN failures ELSE {})

Charge(o) == faults' = IF o = "ok" THEN faults ELSE faults + 1

Executed(o) == o \in {"ok", "lost"}

\* delete_month_klines
DeleteMonth(z, o) ==
  /\ klines' = IF Executed(o) THEN [klines EXCEPT ![z] = {}] ELSE klines
  /\ Charge(o)
  /\ UNCHANGED <<import_state, late>>

\* insert_klines
InsertRows(z, b, o) ==
  /\ klines' = IF Executed(o) THEN [klines EXCEPT ![z] = @ \cup {b}]
                              ELSE klines
  /\ late' = IF o = "late"
               THEN late \cup {[stmt |-> "insert", zip |-> z, batch |-> b]}
               ELSE late
  /\ Charge(o)
  /\ UNCHANGED import_state

\* mark_file_imported
InsertState(z, o) ==
  /\ import_state' = IF Executed(o) THEN import_state \cup {z}
                                    ELSE import_state
  /\ late' = IF o = "late" THEN late \cup {[stmt |-> "mark", zip |-> z]}
                           ELSE late
  /\ Charge(o)
  /\ UNCHANGED klines

\* remove_file_import_state
RemoveState(z, o) ==
  /\ import_state' = IF Executed(o) THEN import_state \ {z} ELSE import_state
  /\ Charge(o)
  /\ UNCHANGED <<klines, late>>

-----------------------------------------------------------------------------
(* Steps of a worker thread.                                               *)

Zip(w) == ZipOf[job[w]]

At(w, step) == up /\ pc[w] = step

Goto(w, step) ==
  /\ pc' = [pc EXCEPT ![w] = step]
  /\ UNCHANGED <<job, attempt, sent>>

Release(w) ==
  /\ pc' = [pc EXCEPT ![w] = "idle"]
  /\ job' = [job EXCEPT ![w] = NoJob]
  /\ attempt' = [attempt EXCEPT ![w] = 0]
  /\ sent' = [sent EXCEPT ![w] = 0]

\* _import_file returns: in parallel mode its future completes.
Return(w) ==
  /\ Release(w)
  /\ completed' = IF SerialImport THEN completed ELSE completed \cup {job[w]}
  /\ UNCHANGED <<collecting, raised>>

Count(field) == stats' = [stats EXCEPT ![field] = @ + 1]

processVars == <<lifeVars, queue, shutdown>>

\* The serial loop looks at the shutdown flag before each file; a pool
\* thread takes the next submitted file whatever the flag says.
Take(w) ==
  /\ At(w, "idle")
  /\ SerialImport => ~shutdown
  /\ \E j \in queue :
       /\ \A i \in queue : Rank[j] <= Rank[i]
       /\ queue' = queue \ {j}
       /\ job' = [job EXCEPT ![w] = j]
       /\ pc' = [pc EXCEPT ![w] = "check"]
  /\ UNCHANGED <<disk, dbVars, lifeVars, faults, stats, shutdown, futureVars,
                 attempt, sent>>

SkipImported(w) ==
  /\ At(w, "check")
  /\ Zip(w) \in import_state
  /\ Count("skipped")
  /\ Return(w)
  /\ UNCHANGED <<disk, dbVars, processVars, faults>>

\* Mutant: the file is imported without consulting import_state.
NotImportedUnchecked(w) ==
  /\ At(w, "check")
  /\ pc' = [pc EXCEPT ![w] = "begin"]
  /\ attempt' = [attempt EXCEPT ![w] = 1]
  /\ UNCHANGED <<disk, dbVars, processVars, faults, stats, futureVars, job,
                 sent>>

NotImported(w) ==
  /\ At(w, "check")
  /\ Zip(w) \notin import_state
  /\ pc' = [pc EXCEPT ![w] = "begin"]
  /\ attempt' = [attempt EXCEPT ![w] = 1]
  /\ UNCHANGED <<disk, dbVars, processVars, faults, stats, futureVars, job,
                 sent>>

\* Mutant: the serial loop swallows the exception and goes on.
CheckRaisesSwallowed(w) ==
  /\ At(w, "check")
  /\ CheckMayFail /\ faults < MaxFaults
  /\ faults' = faults + 1
  /\ Return(w)
  /\ UNCHANGED <<disk, dbVars, processVars, stats>>

\* is_file_imported raises.  Nothing catches it in serial mode: run() and
\* the process end; a pool thread leaves it in its future.
CheckRaises(w) ==
  /\ At(w, "check")
  /\ CheckMayFail /\ faults < MaxFaults
  /\ faults' = faults + 1
  /\ Release(w)
  /\ IF SerialImport
       THEN /\ up' = FALSE /\ exit' = "errors" /\ queue' = {}
            /\ UNCHANGED futureVars
       ELSE /\ completed' = completed \cup {job[w]}
            /\ raised' = raised \cup {job[w]}
            /\ UNCHANGED <<up, exit, queue, collecting>>
  /\ UNCHANGED <<disk, dbVars, runs, crashes, stats, shutdown>>

\* The top of the retry loop sees the shutdown flag.
StopAttempts(w) ==
  /\ At(w, "begin")
  /\ shutdown
  /\ Return(w)
  /\ UNCHANGED <<disk, dbVars, processVars, faults, stats>>

\* _process_zip: the first delete is outside its try block.
BeginAttempt(w) ==
  /\ At(w, "begin")
  /\ ~shutdown
  /\ \E o \in Outcome(DeleteFaults) :
       /\ DeleteMonth(Zip(w), o)
       /\ pc' = [pc EXCEPT ![w] = IF o = "ok" THEN "insert" ELSE "rollback"]
  /\ sent' = [sent EXCEPT ![w] = 0]
  /\ UNCHANGED <<disk, processVars, stats, futureVars, job, attempt>>

\* The ZIP is opened before the first batch; rows are parsed between batches.
Readable(w) == sent[w] > 0 \/ Zip(w) \in disk

InsertBatch(w) ==
  /\ At(w, "insert")
  /\ Readable(w)
  /\ sent[w] < Batches[Zip(w)]
  /\ \E o \in Outcome(InsertFaults) :
       /\ InsertRows(Zip(w), sent[w] + 1, o)
       /\ IF o = "ok"
            THEN sent' = [sent EXCEPT ![w] = @ + 1] /\ UNCHANGED pc
            ELSE pc' = [pc EXCEPT ![w] = "inner"] /\ UNCHANGED sent
  /\ UNCHANGED <<disk, processVars, stats, futureVars, job, attempt>>

\* open_csv_reader or the CSV reader raises, at the start or midway.
ReadRaises(w) ==
  /\ At(w, "insert")
  /\ Quality[Zip(w)] = "unreadable" \/ ~Readable(w)
  /\ Goto(w, "inner")
  /\ UNCHANGED <<disk, dbVars, processVars, faults, stats, futureVars>>

\* Mutant: the last, incomplete batch is never sent.
EndOfFullBatches(w) ==
  /\ At(w, "insert")
  /\ Readable(w)
  /\ sent[w] + 1 >= Batches[Zip(w)]
  /\ Quality[Zip(w)] # "unreadable"

EndOfRows(w) ==
  /\ At(w, "insert")
  /\ Readable(w)
  /\ sent[w] = Batches[Zip(w)]
  /\ Quality[Zip(w)] # "unreadable"

\* _validate_result
Accepted(z, inserted) ==
  /\ inserted > 0
  /\ StrictValidation => Quality[z] # "dirty"

RejectRows(w) ==
  /\ EndOfRows(w)
  /\ ~Accepted(Zip(w), sent[w])
  /\ Goto(w, "inner")
  /\ UNCHANGED <<disk, dbVars, processVars, faults, stats, futureVars>>

\* Mutant: the ZIP is removed before the file is recorded.
UnlinkThenMark(w) ==
  /\ EndOfRows(w)
  /\ Accepted(Zip(w), sent[w])
  /\ disk' = IF DeleteAfterImport THEN disk \ {Zip(w)} ELSE disk
  /\ \E o \in Outcome(MarkFaults) :
       /\ InsertState(Zip(w), o)
       /\ Goto(w, IF o = "ok" THEN "commit" ELSE "inner")
  /\ UNCHANGED <<processVars, stats, futureVars>>

MarkImported(w) ==
  /\ EndOfRows(w)
  /\ Accepted(Zip(w), sent[w])
  /\ \E o \in Outcome(MarkFaults) :
       /\ InsertState(Zip(w), o)
       /\ Goto(w, IF o = "ok" THEN "commit" ELSE "inner")
  /\ UNCHANGED <<disk, processVars, stats, futureVars>>

CountImport(w) ==
  stats' = [stats EXCEPT !.imported = @ + 1, !.rows = @ + sent[w]]

\* Back in _import_file after a successful _process_zip.
Commit(w) ==
  /\ At(w, "commit")
  /\ CountImport(w)
  /\ disk' = IF DeleteAfterImport THEN disk \ {Zip(w)} ELSE disk
  /\ Return(w)
  /\ UNCHANGED <<dbVars, processVars, faults>>

\* The unlink is inside the try block of the retry loop.
UnlinkRaises(w) ==
  /\ At(w, "commit")
  /\ DeleteAfterImport /\ UnlinkMayFail /\ faults < MaxFaults
  /\ faults' = faults + 1
  /\ CountImport(w)
  /\ Goto(w, "rollback")
  /\ UNCHANGED <<disk, dbVars, processVars, futureVars>>

\* Mutant: the rollback is left to the caller.
InnerRollbackSkipped(w) ==
  /\ At(w, "inner")
  /\ Goto(w, "rollback")
  /\ UNCHANGED <<disk, dbVars, faults, processVars, stats, futureVars>>

\* The except block of _process_zip: an error of its delete replaces the
\* first one and reaches the same handler.
InnerRollback(w) ==
  /\ At(w, "inner")
  /\ IF RollbackOnFailure
       THEN \E o \in Outcome(DeleteFaults) : DeleteMonth(Zip(w), o)
       ELSE UNCHANGED <<dbVars, faults>>
  /\ Goto(w, "rollback")
  /\ UNCHANGED <<disk, processVars, stats, futureVars>>

\* _rollback_month: an error of the delete skips the removal of the state.
RollbackMonth(w) ==
  /\ At(w, "rollback")
  /\ IF RollbackOnFailure
       THEN \E o \in Outcome(DeleteFaults) :
              /\ DeleteMonth(Zip(w), o)
              /\ Goto(w, IF o = "ok" THEN "unmark" ELSE "failed")
       ELSE Goto(w, "failed") /\ UNCHANGED <<dbVars, faults>>
  /\ UNCHANGED <<disk, processVars, stats, futureVars>>

RollbackState(w) ==
  /\ At(w, "unmark")
  /\ \E o \in Outcome(UnmarkFaults) : RemoveState(Zip(w), o)
  /\ Goto(w, "failed")
  /\ UNCHANGED <<disk, processVars, stats, futureVars>>

\* Mutant: one retry too many.
RetryOnceMore(w) ==
  /\ At(w, "failed")
  /\ attempt[w] <= RetryCount + 1
  /\ pc' = [pc EXCEPT ![w] = "begin"]
  /\ attempt' = [attempt EXCEPT ![w] = @ + 1]
  /\ UNCHANGED <<disk, dbVars, processVars, faults, stats, futureVars, job,
                 sent>>

\* Mutant: the retries are not counted.
RetryUncounted(w) ==
  /\ At(w, "failed")
  /\ Goto(w, "begin")
  /\ UNCHANGED <<disk, dbVars, processVars, faults, stats, futureVars>>

Retry(w) ==
  /\ At(w, "failed")
  /\ attempt[w] <= RetryCount
  /\ pc' = [pc EXCEPT ![w] = "begin"]
  /\ attempt' = [attempt EXCEPT ![w] = @ + 1]
  /\ UNCHANGED <<disk, dbVars, processVars, faults, stats, futureVars, job,
                 sent>>

\* Mutant: an exhausted file is not counted as failed.
GiveUpUncounted(w) ==
  /\ At(w, "failed")
  /\ attempt[w] > RetryCount
  /\ Return(w)
  /\ UNCHANGED <<disk, dbVars, processVars, faults, stats>>

GiveUp(w) ==
  /\ At(w, "failed")
  /\ attempt[w] > RetryCount
  /\ Count("failed")
  /\ Return(w)
  /\ UNCHANGED <<disk, dbVars, processVars, faults>>

WorkerStep(w) ==
  \/ Take(w) \/ SkipImported(w) \/ NotImported(w) \/ CheckRaises(w)
  \/ StopAttempts(w) \/ BeginAttempt(w) \/ InsertBatch(w) \/ ReadRaises(w)
  \/ RejectRows(w) \/ MarkImported(w) \/ Commit(w) \/ UnlinkRaises(w)
  \/ InnerRollback(w) \/ RollbackMonth(w) \/ RollbackState(w)
  \/ Retry(w) \/ GiveUp(w)

-----------------------------------------------------------------------------
(* The main thread: run_importer and ImportWorker.run.                     *)

Start ==
  /\ ~up /\ runs < MaxRuns
  /\ up' = TRUE /\ runs' = runs + 1
  /\ queue' = {j \in Jobs : ZipOf[j] \in disk}
  /\ stats' = [NoStats EXCEPT !.total = Cardinality(queue')]
  /\ shutdown' = FALSE
  /\ collecting' = TRUE /\ completed' = {} /\ raised' = {}
  /\ UNCHANGED <<disk, dbVars, exit, crashes, faults, workerVars>>

\* ClickHouse cannot be reached: _wait_for_database, the pool's connect or
\* the serial loop's own connection raises before the first file.
StartFails ==
  /\ ~up /\ runs < MaxRuns
  /\ CheckMayFail /\ faults < MaxFaults
  /\ faults' = faults + 1 /\ runs' = runs + 1
  /\ exit' = "errors"
  /\ UNCHANGED <<disk, dbVars, up, crashes, queue, stats, shutdown, futureVars,
                 workerVars>>

\* Mutant: exceptions are logged but not counted.
CollectFutureQuietly(j) ==
  /\ up /\ collecting /\ j \in completed
  /\ IF shutdown
       THEN collecting' = FALSE /\ UNCHANGED <<completed, raised>>
       ELSE /\ completed' = completed \ {j}
            /\ raised' = raised \ {j}
            /\ UNCHANGED collecting
  /\ UNCHANGED <<disk, dbVars, lifeVars, faults, queue, stats, shutdown,
                 workerVars>>

\* One turn of the as_completed loop.
CollectFuture(j) ==
  /\ up /\ collecting /\ j \in completed
  /\ IF shutdown
       THEN collecting' = FALSE /\ UNCHANGED <<completed, raised, stats>>
       ELSE /\ completed' = completed \ {j}
            /\ raised' = raised \ {j}
            /\ IF j \in raised THEN Count("failed") ELSE UNCHANGED stats
            /\ UNCHANGED collecting
  /\ UNCHANGED <<disk, dbVars, lifeVars, faults, queue, shutdown, workerVars>>

\* All files are done, or the serial loop broke on shutdown.
Finish ==
  /\ up
  /\ \A w \in Workers : pc[w] = "idle"
  /\ queue = {} \/ (SerialImport /\ shutdown)
  /\ completed = {} \/ ~collecting
  /\ up' = FALSE /\ queue' = {}
  /\ exit' = IF stats.failed > 0 THEN "errors" ELSE "ok"
  /\ UNCHANGED <<disk, dbVars, runs, crashes, faults, stats, shutdown,
                 futureVars, workerVars>>

\* SIGINT or SIGTERM
RequestShutdown ==
  /\ up /\ ~shutdown
  /\ shutdown' = TRUE
  /\ UNCHANGED <<disk, dbVars, lifeVars, faults, queue, stats, futureVars,
                 workerVars>>

-----------------------------------------------------------------------------
(* The environment.                                                        *)

\* SIGKILL, out of memory, power loss: the tables and the disk survive.
Crash ==
  /\ up /\ crashes < MaxCrashes
  /\ up' = FALSE /\ exit' = "killed" /\ crashes' = crashes + 1
  /\ queue' = {}
  /\ pc' = [w \in Workers |-> "idle"]
  /\ job' = [w \in Workers |-> NoJob]
  /\ attempt' = [w \in Workers |-> 0]
  /\ sent' = [w \in Workers |-> 0]
  /\ UNCHANGED <<disk, dbVars, runs, faults, stats, shutdown, futureVars>>

\* ClickHouse executes a statement whose client has given up.
ExecuteLate(s) ==
  /\ s \in late
  /\ late' = late \ {s}
  /\ IF s.stmt = "insert"
       THEN /\ klines' = [klines EXCEPT ![s.zip] = @ \cup {s.batch}]
            /\ UNCHANGED import_state
       ELSE /\ import_state' = import_state \cup {s.zip}
            /\ UNCHANGED klines
  /\ UNCHANGED <<disk, lifeVars, faults, queue, stats, shutdown, futureVars,
                 workerVars>>

\* A run of the downloader between two imports restores a removed ZIP.
Redownload(z) ==
  /\ ~up /\ runs < MaxRuns
  /\ z \notin disk
  /\ disk' = disk \cup {z}
  /\ UNCHANGED <<dbVars, lifeVars, faults, queue, stats, shutdown, futureVars,
                 workerVars>>

Next ==
  \/ \E w \in Workers : WorkerStep(w)
  \/ Start
  \/ StartFails
  \/ \E j \in Jobs : CollectFuture(j)
  \/ Finish
  \/ RequestShutdown
  \/ Crash
  \/ \E s \in late : ExecuteLate(s)
  \/ \E z \in Zips : Redownload(z)

Spec == Init /\ [][Next]_vars

\* Threads are scheduled and their calls return (the HTTP client has a
\* timeout); the main thread waits for them.  Nobody owes a signal, a kill,
\* a failure or a new run.
Fairness ==
  /\ \A w \in Workers : WF_vars(WorkerStep(w))
  /\ WF_vars(\E j \in Jobs : CollectFuture(j))
  /\ WF_vars(Finish)

FairSpec == Spec /\ Fairness

\* The operator (or the pipeline's schedule) runs the importer again.
RerunSpec == FairSpec /\ WF_vars(Start \/ StartFails)

-----------------------------------------------------------------------------
(* Properties.                                                             *)

\* The circumstances in which a failed call leaves the ledger alone: the
\* insert into import_state is atomic for its client, a removed ZIP cannot
\* fail an import that is already recorded, and no month is listed twice.
CleanFailures ==
  /\ MarkFaults \subseteq {"refused"}
  /\ ~(DeleteAfterImport /\ UnlinkMayFail)
  /\ \A i, j \in Jobs : ZipOf[i] = ZipOf[j] => i = j

\* Every month recorded in import_state has all its rows in klines, at every
\* moment and after any kill: "only fully successful imports are marked
\* complete" (ImportWorker).  A month that breaks it is skipped for ever.
MarkedIsComplete == \A z \in import_state : klines[z] = Rows(z)

\* The same claim, asked only while no importer runs.
MarkedIsCompleteAtRest == ~up => MarkedIsComplete

\* A run that ends by itself leaves each month it had a ZIP for either
\* recorded or empty, whatever an earlier, killed run had left behind:
\* "Failed import: month rolled back" (README, Resumability).
FinishedRunIsClean ==
  [][Finish /\ ~shutdown =>
       \A j \in Jobs : \/ ZipOf[j] \notin disk
                       \/ ZipOf[j] \in import_state
                       \/ klines[ZipOf[j]] = {}]_vars

\* Exit status 0 of an uninterrupted run, which the rl-train container waits
\* for, means that every ZIP on disk is recorded with all its rows.
ExitOkMeansImported ==
  [][Finish /\ ~shutdown /\ exit' = "ok" =>
       \A j \in Jobs : ZipOf[j] \in disk =>
         ZipOf[j] \in import_state /\ klines[ZipOf[j]] = Rows(ZipOf[j])]_vars

\* An uninterrupted run counts each listed file exactly once, as imported,
\* skipped or failed, futures that raised included.
EveryFileIsCounted ==
  [][Finish /\ ~shutdown =>
       stats.imported + stats.skipped + stats.failed = stats.total]_vars

\* The same at least: a file of an uninterrupted run is never left out of the
\* summary (a ZIP that cannot be removed is counted more than once).
NoFileIsForgotten ==
  [][Finish /\ ~shutdown =>
       stats.imported + stats.skipped + stats.failed >= stats.total]_vars

\* A run ends: retries are bounded, a shutdown does not wait for a future
\* nobody reads.
RunEnds == up ~> ~up

\* Unless somebody interrupts it, rerunning the importer gets every clean ZIP
\* recorded, although calls fail (at most RetryCount of them in these runs)
\* and the process is killed.
CleanZipsGetImported ==
  [](~shutdown) =>
    \A z \in Zips : Quality[z] = "clean" /\ Batches[z] > 0
                      => <>(z \in import_state)

Ledger == INSTANCE ImportLedger WITH
  ledger <- import_state,
  data <- [z \in Zips |-> IF z \in import_state THEN klines[z] ELSE {}]

\* The importer implements the ledger: delete, batches, validation, mark and
\* rollback of concurrent workers look like atomic publications of months.
ImplementsLedger == Ledger!Spec

-----------------------------------------------------------------------------
(* The inductive invariant behind MarkedIsComplete.                        *)

Busy(w) == pc[w] # "idle"

\* Only rows of the month's own CSV are in the table or on their way to it,
\* and no record of import_state is on its way.
RowsAreGenuine ==
  /\ \A z \in Zips : klines[z] \subseteq Rows(z)
  /\ \A s \in late : s.stmt = "insert" /\ s.batch \in Rows(s.zip)

\* A job is in the queue or with one worker.
JobsAreOwned ==
  /\ \A w \in Workers : Busy(w) => job[w] \notin queue
  /\ \A v, w \in Workers : Busy(v) /\ Busy(w) /\ job[v] = job[w] => v = w

Attempting ==
  {"begin", "insert", "inner", "rollback", "unmark", "failed"}

\* A worker deletes or inserts rows only of a month that is not recorded.
AttemptIsUnrecorded ==
  \A w \in Workers : pc[w] \in Attempting => Zip(w) \notin import_state

\* The batches a worker has sent in this attempt are in the table.
SentIsStored ==
  \A w \in Workers :
    pc[w] = "insert" =>
      sent[w] \in 0 .. Batches[Zip(w)] /\ 1 .. sent[w] \subseteq klines[Zip(w)]

Safe ==
  /\ RowsAreGenuine
  /\ JobsAreOwned
  /\ AttemptIsUnrecorded
  /\ SentIsStored
  /\ MarkedIsComplete

IInv == TypeOK /\ Safe

-----------------------------------------------------------------------------
(* The inductive invariants behind the properties of a finished run.       *)

\* What run() still owes an answer for: files no thread has taken, files in
\* work, and futures whose exception it has not read.
Pending ==
  queue \cup {job[w] : w \in {v \in Workers : Busy(v)}} \cup raised

Counted == stats.imported + stats.skipped + stats.failed

\* No file is owed twice.
PendingIsDisjoint ==
  /\ JobsAreOwned
  /\ \A w \in Workers : Busy(w) => job[w] \notin raised
  /\ queue \cap raised = {}

Uninterrupted == up /\ ~shutdown

\* Until somebody interrupts the run, the files counted and the files owed
\* make up the list it started with, or more when a ZIP cannot be removed.
CountsAreKept ==
  Uninterrupted =>
    /\ collecting
    /\ Counted + Cardinality(Pending) >= stats.total
    /\ ~(DeleteAfterImport /\ UnlinkMayFail) =>
         Counted + Cardinality(Pending) = stats.total

CountInv == TypeOK /\ PendingIsDisjoint /\ CountsAreKept

\* A file still on disk that is no longer owed was recorded, or some file of
\* the run is counted as failed.
SettledIsRecorded ==
  Uninterrupted =>
    \A j \in Jobs :
      ZipOf[j] \in disk =>
        j \in Pending \/ ZipOf[j] \in import_state \/ stats.failed > 0

CommitIsRecorded ==
  \A w \in Workers : pc[w] = "commit" => Zip(w) \in import_state

ExitInv == IInv /\ CountInv /\ SettledIsRecorded /\ CommitIsRecorded

\* The circumstances in which rollbacks are effective: they are enabled, no
\* insert arrives late, import_state can be read, and a delete is executed
\* by the server whatever the client hears of it, unless it is the only call
\* that ever fails.
EffectiveRollbacks ==
  /\ CleanFailures
  /\ RollbackOnFailure
  /\ InsertFaults \subseteq {"refused", "lost"}
  /\ ~CheckMayFail
  /\ MaxFaults <= 1 \/ DeleteFaults \subseteq {"lost"}

CleanOf(z) == z \in import_state \/ klines[z] = {}

\* An attempt that has failed has emptied its month, or is about to and no
\* further call can fail.
FailedIsEmpty ==
  \A w \in Workers :
    /\ pc[w] \in {"unmark", "failed"} => klines[Zip(w)] = {}
    /\ pc[w] = "rollback" =>
         \/ klines[Zip(w)] = {}
         \/ faults = MaxFaults
         \/ DeleteFaults \subseteq {"lost"}

SettledIsClean ==
  Uninterrupted =>
    \A j \in Jobs :
      ZipOf[j] \in disk => j \in Pending \/ CleanOf(ZipOf[j])

TidyInv ==
  ExitInv /\ late = {} /\ raised = {} /\ FailedIsEmpty /\ SettledIsClean
=============================================================================
