----------------------------- MODULE Downloader -----------------------------
(***************************************************************************)
(* The downloader service: run_downloader (services/downloader/main.py)    *)
(* and DownloadWorker (services/downloader/worker.py).  A run discovers    *)
(* the monthly ZIPs of each configured (symbol, timeframe), then downloads *)
(* all of them in coroutines that share a semaphore.  An action is the     *)
(* code a coroutine runs between two awaits.  The process may be killed at *)
(* any await and be run again over the files it left.                      *)
(***************************************************************************)
EXTENDS Integers, FiniteSets

CONSTANTS
  Groups,             \* the configured (symbol, timeframe) pairs
  Files,              \* the monthly ZIPs of their listings
  GroupOf,            \* Files -> Groups
  MaxConcurrent, RetryCount, VerifyChecksum,
  ChecksumAnswers,    \* how the CHECKSUM request can end (see Answer)
  TransferFaults,     \* how a transfer can fail (see Transfer)
  DiscoveryMayFail,   \* may discover_files raise?
  FsMayFail,          \* may mkdir, unlink or the read of a ZIP raise?
  MaxFaults,          \* bound on failures in a behaviour
  MaxRuns, MaxCrashes \* bounds on runs and on kills of the process

Answer == {"listed", "absent", "error"}
Transfer == {"refused", "broken", "garbled"}

ASSUME DownloaderAssumption ==
  /\ GroupOf \in [Files -> Groups]
  /\ IsFiniteSet(Files)
  /\ MaxConcurrent \in Nat \ {0}
  /\ {RetryCount, MaxFaults, MaxRuns, MaxCrashes} \subseteq Nat
  /\ {VerifyChecksum, DiscoveryMayFail, FsMayFail} \subseteq BOOLEAN
  /\ ChecksumAnswers \subseteq Answer /\ ChecksumAnswers # {}
  /\ TransferFaults \subseteq Transfer

VARIABLES
  disk,       \* what is at local_path of each file
  phase,      \* what run_downloader is doing; "off" when no process runs
  remaining,  \* the groups not yet discovered
  pc,         \* where the coroutine of each file is
  attempt,    \* its attempt number
  shutdown,   \* DownloadWorker._shutdown
  exit,       \* how the last process ended
  runs, crashes, faults

runVars == <<runs, crashes>>
mainVars == <<phase, remaining, exit, runVars>>
vars == <<disk, pc, attempt, shutdown, faults, mainVars>>

\* "corrupt" has the right length and the wrong bytes.
Contents == {"none", "empty", "partial", "corrupt", "whole"}

\* DownloadStats counts the coroutines that ended in one of these.
Counted == {"downloaded", "skipped", "failed"}
Ended == Counted \cup {"stopped", "raised"}
Holding == {"verify", "request", "stream", "check", "backoff"}

TypeOK ==
  /\ disk \in [Files -> Contents]
  /\ phase \in {"off", "discover", "download"}
  /\ remaining \subseteq Groups
  /\ pc \in [Files -> {"none", "found", "waiting"} \cup Holding \cup Ended]
  /\ attempt \in [Files -> 0 .. RetryCount + 1]
  /\ shutdown \in BOOLEAN
  /\ exit \in {"none", "ok", "errors", "killed"}
  /\ runs \in 0 .. MaxRuns /\ crashes \in 0 .. MaxCrashes
  /\ faults \in 0 .. MaxFaults
  /\ \A f \in Files : pc[f] \in Holding => phase = "download"
  /\ \A f \in Files :
       pc[f] \in Holding \ {"verify"} => attempt[f] \in 1 .. RetryCount + 1

Init ==
  /\ disk = [f \in Files |-> "none"]
  /\ phase = "off" /\ remaining = {}
  /\ pc = [f \in Files |-> "none"] /\ attempt = [f \in Files |-> 0]
  /\ shutdown = FALSE /\ exit = "none"
  /\ runs = 0 /\ crashes = 0 /\ faults = 0

Fault == faults < MaxFaults /\ faults' = faults + 1

-----------------------------------------------------------------------------
(* The coroutine of file f.                                                *)

At(f, step) == phase = "download" /\ pc[f] = step

Goto(f, step) == pc' = [pc EXCEPT ![f] = step] /\ UNCHANGED attempt

Put(f, content) == disk' = [disk EXCEPT ![f] = content]

\* The top of the retry loop.
NextAttempt(f) ==
  IF shutdown
    THEN Goto(f, "stopped")
    ELSE /\ pc' = [pc EXCEPT ![f] = "request"]
         /\ attempt' = [attempt EXCEPT ![f] = @ + 1]

\* Mutant: a failed attempt leaves what it wrote.
FailKeepingFile(f) ==
  /\ Goto(f, IF attempt[f] > RetryCount THEN "failed" ELSE "backoff")
  /\ UNCHANGED disk

\* Mutant: the last attempt is retried as well.
FailOnceMore(f) ==
  /\ Put(f, "none")
  /\ Goto(f, IF attempt[f] > RetryCount + 1 THEN "failed" ELSE "backoff")

\* The except block of download_file: the file is removed, whatever it holds.
Fail(f) ==
  /\ Put(f, "none")
  /\ Goto(f, IF attempt[f] > RetryCount THEN "failed" ELSE "backoff")

\* Mutant: a coroutine that raises does not give its slot back.
FreeSlotLeaking ==
  Cardinality({f \in Files : pc[f] \in Holding \cup {"raised"}})
    < MaxConcurrent

FreeSlot == Cardinality({f \in Files : pc[f] \in Holding}) < MaxConcurrent

Exists(f) == disk[f] \notin {"none", "empty"}

\* _download_with_semaphore up to the first await of download_file.
Acquire(f) ==
  /\ At(f, "waiting") /\ FreeSlot
  /\ IF ~shutdown /\ Exists(f)
       THEN Goto(f, IF VerifyChecksum THEN "verify" ELSE "skipped")
       ELSE NextAttempt(f)
  /\ UNCHANGED <<disk, shutdown, faults, mainVars>>

\* mkdir or stat raises: the exception ends the coroutine and gather keeps it.
AcquireRaises(f) ==
  /\ At(f, "waiting") /\ FreeSlot
  /\ ~shutdown
  /\ FsMayFail /\ Fault
  /\ Goto(f, "raised")
  /\ UNCHANGED <<disk, shutdown, mainVars>>

\* Mutant: a CHECKSUM that cannot be fetched counts as a mismatch.
AcceptedOnlyIfListed(f, answer) == answer = "listed" /\ disk[f] = "whole"

\* Mutant: the digest is not compared.
AcceptedUnread(f, answer) == TRUE

\* _verify_existing: a CHECKSUM that is not there, does not name the file or
\* cannot be fetched accepts any file.
Accepted(f, answer) == answer = "listed" => disk[f] = "whole"

\* Mutant: a file whose checksum does not match is downloaded beside the old.
VerifyOldKeeping(f) ==
  /\ At(f, "verify")
  /\ Goto(f, "skipped")
  /\ UNCHANGED <<disk, shutdown, faults, mainVars>>

\* Mutant: a file that is on disk is downloaded again, whatever it holds.
VerifyOldForcing(f) ==
  /\ At(f, "verify")
  /\ NextAttempt(f) /\ Put(f, "none")
  /\ UNCHANGED <<shutdown, faults, mainVars>>

\* The CHECKSUM of a file that was on disk before this run is answered.
VerifyOld(f) ==
  /\ At(f, "verify")
  /\ \E answer \in ChecksumAnswers :
       IF Accepted(f, answer)
         THEN Goto(f, "skipped") /\ UNCHANGED disk
         ELSE NextAttempt(f) /\ Put(f, "none")
  /\ UNCHANGED <<shutdown, faults, mainVars>>

\* Reading the file, or its unlink, raises outside the try block.
VerifyOldRaises(f) ==
  /\ At(f, "verify")
  /\ FsMayFail /\ Fault
  /\ Goto(f, "raised")
  /\ UNCHANGED <<disk, shutdown, mainVars>>

\* The response of the ZIP request: an error, or open(dest, "wb").
StreamOpen(f) ==
  /\ At(f, "request")
  /\ Put(f, "empty") /\ Goto(f, "stream")
  /\ UNCHANGED <<shutdown, faults, mainVars>>

RequestFails(f) ==
  /\ At(f, "request")
  /\ "refused" \in TransferFaults /\ Fault
  /\ Fail(f)
  /\ UNCHANGED <<shutdown, mainVars>>

StreamChunk(f) ==
  /\ At(f, "stream") /\ disk[f] = "empty"
  /\ Put(f, "partial")
  /\ UNCHANGED <<pc, attempt, shutdown, faults, mainVars>>

\* The last chunk; with verify_checksum off the file counts at once.
StreamEnd(f) ==
  /\ At(f, "stream") /\ disk[f] = "partial"
  /\ \/ Put(f, "whole") /\ UNCHANGED faults
     \/ "garbled" \in TransferFaults /\ Fault /\ Put(f, "corrupt")
  /\ Goto(f, IF VerifyChecksum THEN "check" ELSE "downloaded")
  /\ UNCHANGED <<shutdown, mainVars>>

StreamBreaks(f) ==
  /\ At(f, "stream")
  /\ "broken" \in TransferFaults /\ Fault
  /\ Fail(f)
  /\ UNCHANGED <<shutdown, mainVars>>

\* The CHECKSUM of the new file is answered; a mismatch raises into the
\* except block of the same attempt.
VerifyNew(f) ==
  /\ At(f, "check")
  /\ \E answer \in ChecksumAnswers :
       IF Accepted(f, answer)
         THEN Goto(f, "downloaded") /\ UNCHANGED disk
         ELSE Fail(f)
  /\ UNCHANGED <<shutdown, faults, mainVars>>

\* Reading the new file raises: the attempt failed.
VerifyNewRaises(f) ==
  /\ At(f, "check")
  /\ FsMayFail /\ Fault
  /\ Fail(f)
  /\ UNCHANGED <<shutdown, mainVars>>

\* An attempt fails and so does the unlink of the except block: the file
\* stays as it is and gather keeps the exception.
FailRaises(f) ==
  /\ phase = "download" /\ pc[f] \in {"request", "stream", "check"}
  /\ FsMayFail /\ Fault
  /\ Goto(f, "raised")
  /\ UNCHANGED <<disk, shutdown, mainVars>>

\* asyncio.sleep(backoff) is over.
Wake(f) ==
  /\ At(f, "backoff")
  /\ NextAttempt(f)
  /\ UNCHANGED <<disk, shutdown, faults, mainVars>>

FileStep(f) ==
  \/ AcquireRaises(f) \/ VerifyOld(f) \/ VerifyOldRaises(f)
  \/ StreamOpen(f) \/ RequestFails(f) \/ StreamChunk(f) \/ StreamEnd(f)
  \/ StreamBreaks(f) \/ VerifyNew(f) \/ VerifyNewRaises(f) \/ FailRaises(f)
  \/ Wake(f)

-----------------------------------------------------------------------------
(* run_downloader.                                                         *)

Start ==
  /\ phase = "off" /\ runs < MaxRuns
  /\ phase' = "discover" /\ remaining' = Groups /\ runs' = runs + 1
  /\ pc' = [f \in Files |-> "none"] /\ attempt' = [f \in Files |-> 0]
  /\ shutdown' = FALSE
  /\ UNCHANGED <<disk, exit, crashes, faults>>

Discover(g) ==
  /\ phase = "discover" /\ g \in remaining
  /\ remaining' = remaining \ {g}
  /\ pc' = [f \in Files |-> IF GroupOf[f] = g THEN "found" ELSE pc[f]]
  /\ UNCHANGED <<disk, phase, attempt, shutdown, exit, runVars, faults>>

\* An error of the listing is logged and the group is left out of the run.
DiscoveryFails(g) ==
  /\ phase = "discover" /\ g \in remaining
  /\ DiscoveryMayFail /\ Fault
  /\ remaining' = remaining \ {g}
  /\ UNCHANGED <<disk, phase, pc, attempt, shutdown, exit, runVars>>

\* download_all creates a coroutine per discovered file; a shutdown has cut
\* the discovery short.
BeginDownloads ==
  /\ phase = "discover"
  /\ remaining = {} \/ shutdown
  /\ phase' = "download" /\ remaining' = {}
  /\ pc' = [f \in Files |-> IF pc[f] = "found" THEN "waiting" ELSE pc[f]]
  /\ UNCHANGED <<disk, attempt, shutdown, exit, runVars, faults>>

\* Mutant: the exit status is looked at before the last coroutines end.
FinishOnFirst ==
  /\ phase = "download"
  /\ \E f \in Files : pc[f] \in Counted
  /\ phase' = "off"
  /\ pc' = [f \in Files |-> IF pc[f] \in Holding THEN "stopped" ELSE pc[f]]
  /\ exit' = IF \E f \in Files : pc[f] = "failed" THEN "errors" ELSE "ok"
  /\ UNCHANGED <<disk, remaining, attempt, shutdown, runVars, faults>>

\* gather returns: exceptions are dropped, only stats.failed counts.
Finish ==
  /\ phase = "download"
  /\ \A f \in Files : pc[f] \in {"none"} \cup Ended
  /\ phase' = "off"
  /\ exit' = IF \E f \in Files : pc[f] = "failed" THEN "errors" ELSE "ok"
  /\ UNCHANGED <<disk, remaining, pc, attempt, shutdown, runVars, faults>>

\* SIGINT or SIGTERM, delivered by the event loop.
RequestShutdown ==
  /\ phase # "off" /\ ~shutdown
  /\ shutdown' = TRUE
  /\ UNCHANGED <<disk, pc, attempt, faults, mainVars>>

\* The process is killed: the files stay as they are.
Crash ==
  /\ phase # "off" /\ crashes < MaxCrashes
  /\ phase' = "off" /\ exit' = "killed" /\ crashes' = crashes + 1
  /\ remaining' = {}
  /\ pc' = [f \in Files |-> "none"] /\ attempt' = [f \in Files |-> 0]
  /\ UNCHANGED <<disk, shutdown, runs, faults>>

Next ==
  \/ Start \/ BeginDownloads \/ Finish \/ RequestShutdown \/ Crash
  \/ \E g \in Groups : Discover(g) \/ DiscoveryFails(g)
  \/ \E f \in Files : Acquire(f) \/ FileStep(f)

Spec == Init /\ [][Next]_vars

\* The event loop runs every ready coroutine, requests end (they have a
\* timeout), the semaphore wakes a waiter; nobody owes a signal, a kill, a
\* failure or a new run.
Fairness ==
  /\ WF_vars(\E g \in Groups : Discover(g) \/ DiscoveryFails(g))
  /\ WF_vars(BeginDownloads)
  /\ WF_vars(\E f \in Files : Acquire(f))
  /\ \A f \in Files : WF_vars(FileStep(f))
  /\ WF_vars(Finish)

FairSpec == Spec /\ Fairness

\* The operator runs the downloader again.
RerunSpec == FairSpec /\ WF_vars(Start)

-----------------------------------------------------------------------------
(* Properties.                                                             *)

\* Every file has a published checksum that can be fetched and is checked.
Checked == VerifyChecksum /\ ChecksumAnswers = {"listed"}

\* A file counted as downloaded or skipped is whole, although the run before
\* was killed in mid-write, transfers break and other coroutines fail: the
\* importer reads what is on disk and does not check it again.
VerifiedIsWhole ==
  Checked =>
    \A f \in Files : pc[f] \in {"downloaded", "skipped"} => disk[f] = "whole"

\* Whatever the CHECKSUM requests answer, a file counted as downloaded is not
\* a fragment, and one counted as failed leaves nothing a later run could
\* take for a valid ZIP.
CountedIsSettled ==
  \A f \in Files :
    /\ pc[f] = "downloaded" => disk[f] \in {"whole", "corrupt"}
    /\ pc[f] = "failed" => disk[f] = "none"

\* A file is skipped only when its bytes match the published checksum: "Skips
\* if file exists and passes checksum verification" (download_file).
SkippedIsValid == \A f \in Files : pc[f] = "skipped" => disk[f] = "whole"

\* "Download resume: skip existing valid ZIPs on disk" (README): no step
\* damages a whole ZIP, except the attempt that has just downloaded it and
\* cannot verify it.
WholeFilesAreKept ==
  [][\A f \in Files :
       disk[f] = "whole" /\ pc[f] # "check" => disk'[f] = "whole"]_vars

\* Exit status 0 of an uninterrupted run, which the importer container waits
\* for, means that every discovered ZIP is on disk and whole (with published
\* checksums and a file system that does not fail: an exception that gather
\* keeps does not reach the exit status).
ExitOkMeansDownloaded ==
  [][Finish /\ ~shutdown /\ exit' = "ok" =>
       \A f \in Files : pc[f] # "none" => disk[f] = "whole"]_vars

\* A run ends: coroutines do not wait for a slot for ever, retries are
\* bounded, and a shutdown does not strand those that have not begun.
RunEnds == phase # "off" ~> phase = "off"

\* Unless somebody interrupts it, rerunning the downloader gets every ZIP on
\* disk and whole, although requests fail and the process is killed.
EveryFileArrives ==
  [](~shutdown) => \A f \in Files : <>[](disk[f] = "whole")

In(steps) == {f \in Files : pc[f] \in steps}

Store == INSTANCE ZipStore WITH
  Zips <- Files,
  store <- {f \in Files : disk[f] = "whole"},
  asked <- {f \in Files : pc[f] # "none"},
  vouched <- In({"downloaded", "skipped"}),
  missed <- In({"failed"}),
  status <- IF phase = "off" THEN exit ELSE "open",
  interrupted <- shutdown

\* With published checksums and a file system that does not fail, the
\* downloader implements the store: slots, attempts, verifications, fragments
\* of killed runs and their removal look like whole files that arrive one by
\* one and stay, and a run that vouches for nothing else.
ImplementsStore == Store!Spec

-----------------------------------------------------------------------------
(* The inductive invariant behind VerifiedIsWhole, CountedIsSettled and    *)
(* ExitOkMeansDownloaded.                                                  *)

\* What is on disk where a coroutine stands in its attempt.
AttemptMatchesDisk ==
  \A f \in Files :
    /\ pc[f] = "request" => disk[f] \in {"none", "empty"}
    /\ pc[f] = "stream" => disk[f] \in {"empty", "partial"}
    /\ pc[f] = "check" => disk[f] \in {"whole", "corrupt"}
    /\ pc[f] = "backoff" => disk[f] = "none"

\* A coroutine that has not requested its file has used no attempt, and one
\* that waits for another attempt has one left.
AttemptsAreCounted ==
  \A f \in Files :
    /\ pc[f] \in {"none", "found", "waiting", "verify"} => attempt[f] = 0
    /\ pc[f] = "backoff" => attempt[f] <= RetryCount
    /\ phase = "discover" => pc[f] \in {"none", "found"}

\* Only a signal leaves a coroutine without a count, or an exception.
EndsAreExplained ==
  \A f \in Files :
    /\ pc[f] = "stopped" => shutdown
    /\ pc[f] = "raised" => FsMayFail

DInv ==
  /\ TypeOK
  /\ VerifiedIsWhole
  /\ CountedIsSettled
  /\ AttemptMatchesDisk
  /\ AttemptsAreCounted
  /\ EndsAreExplained
=============================================================================
