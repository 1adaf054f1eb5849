------------------------- MODULE Downloader_proofs -------------------------
(***************************************************************************)
(* Proofs about Downloader for any set of files, any retry count and       *)
(* concurrency, and any answers and failures.                              *)
(***************************************************************************)
EXTENDS Downloader, FiniteSetTheorems, TLAPS

\* The conjuncts of the invariant that speak of one file, gathered by file.
FileInv(f) ==
  /\ Checked /\ pc[f] \in {"downloaded", "skipped"} => disk[f] = "whole"
  /\ pc[f] = "downloaded" => disk[f] \in {"whole", "corrupt"}
  /\ pc[f] = "failed" => disk[f] = "none"
  /\ pc[f] = "request" => disk[f] \in {"none", "empty"}
  /\ pc[f] = "stream" => disk[f] \in {"empty", "partial"}
  /\ pc[f] = "check" => disk[f] \in {"whole", "corrupt"}
  /\ pc[f] = "backoff" => disk[f] = "none"
  /\ pc[f] \in {"none", "found", "waiting", "verify"} => attempt[f] = 0
  /\ pc[f] = "backoff" => attempt[f] <= RetryCount
  /\ phase = "discover" => pc[f] \in {"none", "found"}
  /\ pc[f] = "stopped" => shutdown
  /\ pc[f] = "raised" => FsMayFail

\* The invariant is type correctness plus FileInv of every file.
LEMMA DInvByFile == DInv <=> TypeOK /\ \A f \in Files : FileInv(f)
BY DEF DInv, FileInv, VerifiedIsWhole, CountedIsSettled, AttemptMatchesDisk,
       AttemptsAreCounted, EndsAreExplained

\* The same in the next state.
LEMMA DInvByFileNext == (TypeOK /\ \A f \in Files : FileInv(f))' => DInv'
BY DEF DInv, FileInv, VerifiedIsWhole, CountedIsSettled, AttemptMatchesDisk,
       AttemptsAreCounted, EndsAreExplained, Checked

\* The initial state satisfies the inductive invariant.
LEMMA DInvInit == Init => DInv
<1> SUFFICES ASSUME Init PROVE DInv
  OBVIOUS
<1>1. TypeOK
  <2>1. {RetryCount, MaxFaults, MaxRuns, MaxCrashes} \subseteq Nat
    BY DownloaderAssumption DEF DownloaderAssumption
  <2>2. /\ attempt \in [Files -> 0 .. RetryCount + 1]
        /\ runs \in 0 .. MaxRuns /\ crashes \in 0 .. MaxCrashes
        /\ faults \in 0 .. MaxFaults
    BY <2>1 DEF Init
  <2>3. shutdown \in BOOLEAN
    BY DEF Init
  <2> QED
    BY <2>2, <2>3 DEF Init, TypeOK, Contents, Holding, Ended, Counted
<1>2. \A f \in Files : FileInv(f)
  BY DEF Init, FileInv
<1> QED BY <1>1, <1>2, DInvByFile

\* A step of a coroutine touches the file and the counters of no other.
LEMMA OtherFiles ==
  ASSUME NEW f \in Files, TypeOK, Acquire(f) \/ FileStep(f)
  PROVE  /\ \A g \in Files \ {f} :
              pc'[g] = pc[g] /\ disk'[g] = disk[g] /\ attempt'[g] = attempt[g]
         /\ UNCHANGED <<shutdown, mainVars>>
BY DEF TypeOK, Acquire, FileStep, AcquireRaises, VerifyOld, VerifyOldRaises,
       StreamOpen, RequestFails, StreamChunk, StreamEnd, StreamBreaks,
       VerifyNew, VerifyNewRaises, FailRaises, Wake, NextAttempt, Fail, Put,
       Goto

\* The effect of a step of a coroutine on its own file keeps the invariant.
LEMMA OwnFile ==
  ASSUME NEW f \in Files, DInv, Acquire(f) \/ FileStep(f)
  PROVE  TypeOK' /\ FileInv(f)'
<1> USE DownloaderAssumption DEF DownloaderAssumption
<1>1. TypeOK /\ FileInv(f)
  BY DInvByFile
<1> USE <1>1 DEF TypeOK, FileInv, At, Goto, Put, Holding, Ended, Counted, Contents,
      mainVars, runVars
<1>2. CASE Acquire(f)
  BY <1>2 DEF Acquire, NextAttempt, Exists, Checked
<1>3. CASE AcquireRaises(f)
  BY <1>3 DEF AcquireRaises, Fault
<1>4. CASE VerifyOld(f)
  BY <1>4 DEF VerifyOld, Accepted, NextAttempt, Checked
<1>5. CASE VerifyOldRaises(f)
  BY <1>5 DEF VerifyOldRaises, Fault
<1>6. CASE StreamOpen(f)
  BY <1>6 DEF StreamOpen
<1>7. CASE RequestFails(f)
  BY <1>7 DEF RequestFails, Fail, Fault
<1>8. CASE StreamChunk(f)
  BY <1>8 DEF StreamChunk
<1>9. CASE StreamEnd(f)
  BY <1>9 DEF StreamEnd, Fault, Checked
<1>10. CASE StreamBreaks(f)
  BY <1>10 DEF StreamBreaks, Fail, Fault
<1>11. CASE VerifyNew(f)
  BY <1>11 DEF VerifyNew, Accepted, Fail, Checked
<1>12. CASE VerifyNewRaises(f)
  BY <1>12 DEF VerifyNewRaises, Fail, Fault
<1>13. CASE FailRaises(f)
  BY <1>13 DEF FailRaises, Fault
<1>14. CASE Wake(f)
  BY <1>14 DEF Wake, NextAttempt
<1> QED
  BY <1>2, <1>3, <1>4, <1>5, <1>6, <1>7, <1>8, <1>9, <1>10, <1>11, <1>12,
     <1>13, <1>14 DEF FileStep

\* Every step of the program and of its environment keeps the invariant.
LEMMA DInvStep == DInv /\ [Next]_vars => DInv'
<1> SUFFICES ASSUME DInv, [Next]_vars PROVE DInv'
  OBVIOUS
<1> USE DownloaderAssumption DEF DownloaderAssumption
<1>1. TypeOK /\ \A f \in Files : FileInv(f)
  BY DInvByFile
<1>2. ASSUME NEW f \in Files, Acquire(f) \/ FileStep(f) PROVE DInv'
  <2>1. TypeOK' /\ FileInv(f)'
    BY <1>2, OwnFile
  <2>2. ASSUME NEW g \in Files \ {f} PROVE FileInv(g)'
    BY <1>1, <1>2, <2>2, OtherFiles DEF FileInv, Checked, mainVars
  <2> QED
    BY <2>1, <2>2, DInvByFileNext
<1>3. CASE Start
  <2>1. (\A f \in Files : FileInv(f))'
    BY <1>3 DEF Start, FileInv
  <2>2. TypeOK'
    <3>1. runs' \in 0 .. MaxRuns
      BY <1>1, <1>3 DEF Start, TypeOK
    <3>2. /\ attempt' \in [Files -> 0 .. RetryCount + 1]
          /\ pc' \in [Files -> {"none"}]
      BY <1>3 DEF Start
    <3>3. shutdown' \in BOOLEAN /\ phase' = "discover" /\ remaining' = Groups
      BY <1>3 DEF Start
    <3> QED
      BY <1>1, <1>3, <3>1, <3>2, <3>3 DEF Start, TypeOK, Holding
  <2> QED
    BY <2>1, <2>2, DInvByFileNext
<1>4. CASE \E g \in Groups : Discover(g)
  <2>1. PICK g \in Groups : Discover(g)
    BY <1>4
  <2>2. ASSUME NEW f \in Files PROVE FileInv(f)'
    <3>1. CASE pc'[f] = "found"
      <4>1. attempt[f] = 0
        BY <1>1, <2>1, <2>2, <3>1
           DEF Discover, FileInv
      <4> QED
        BY <2>1, <3>1, <4>1 DEF Discover, FileInv
    <3>2. CASE pc'[f] = pc[f]
      BY <1>1, <2>1, <3>2 DEF Discover, FileInv, Checked
    <3> QED
      BY <2>1, <3>1, <3>2 DEF Discover
  <2>3. TypeOK'
    BY <1>1, <2>1 DEF Discover, TypeOK, Holding, Ended, Counted, runVars
  <2> QED
    BY <2>2, <2>3, DInvByFileNext
<1>5. CASE \E g \in Groups : DiscoveryFails(g)
  BY <1>1, <1>5, DInvByFileNext
     DEF DiscoveryFails, Fault, TypeOK, FileInv, Checked, Holding, runVars
<1>6. CASE BeginDownloads
  BY <1>1, <1>6, DInvByFileNext
     DEF BeginDownloads, TypeOK, FileInv, Holding, Ended, Counted, Checked,
         runVars
<1>7. CASE Finish
  BY <1>1, <1>7, DInvByFileNext
     DEF Finish, TypeOK, FileInv, Holding, Ended, Counted, Checked, runVars
<1>8. CASE RequestShutdown
  BY <1>1, <1>8, DInvByFileNext
     DEF RequestShutdown, TypeOK, FileInv, Checked, Holding, mainVars, runVars
<1>9. CASE Crash
  BY <1>1, <1>9, DInvByFileNext
     DEF Crash, TypeOK, FileInv, Holding, Ended, Counted
<1>10. CASE UNCHANGED vars
  BY <1>1, <1>10, DInvByFileNext
     DEF TypeOK, FileInv, Holding, Checked, vars, mainVars, runVars
<1> QED
  BY <1>2, <1>3, <1>4, <1>5, <1>6, <1>7, <1>8, <1>9, <1>10 DEF Next

\* The inductive invariant holds in every reachable state, whatever is killed,
\* interrupted or refused.
THEOREM DownloaderInvariant == Spec => []DInv
BY DInvInit, DInvStep, PTL DEF Spec

\* The variables keep their types, a coroutine that holds a slot belongs to a
\* process that is downloading, and its attempt number is within the bound.
THEOREM DownloaderTypeCorrect == Spec => []TypeOK
<1>1. DInv => TypeOK
  BY DEF DInv
<1> QED
  BY <1>1, DownloaderInvariant, PTL

\* What the downloader counts as downloaded or skipped is whole, if every
\* file has a published checksum and it is checked.
THEOREM VerifiedIsAlwaysWhole == Spec => []VerifiedIsWhole
<1>1. DInv => VerifiedIsWhole
  BY DEF DInv
<1> QED
  BY <1>1, DownloaderInvariant, PTL

\* A downloaded file is no fragment and a failed one leaves nothing behind,
\* whatever the CHECKSUM requests answer.
THEOREM CountedIsAlwaysSettled == Spec => []CountedIsSettled
<1>1. DInv => CountedIsSettled
  BY DEF DInv
<1> QED
  BY <1>1, DownloaderInvariant, PTL

\* Exit status 0 of an uninterrupted run means that every discovered ZIP is
\* on disk and whole.
THEOREM ExitOkIsTrue ==
  ASSUME Checked, ~FsMayFail
  PROVE  Spec => ExitOkMeansDownloaded
<1>1. ASSUME DInv, Finish, ~shutdown, exit' = "ok", NEW f \in Files,
             pc[f] # "none"
      PROVE  disk[f] = "whole"
  <2>1. pc[f] \in Ended /\ pc[f] # "failed"
    BY <1>1 DEF Finish
  <2>2. pc[f] \notin {"stopped", "raised"}
    BY <1>1 DEF DInv, EndsAreExplained
  <2> QED
    BY <1>1, <2>1, <2>2 DEF DInv, VerifiedIsWhole, Ended, Counted
<1>2. DInv => (Finish /\ ~shutdown /\ exit' = "ok" =>
                 \A f \in Files : pc[f] # "none" => disk[f] = "whole")
  BY <1>1
<1> QED
  BY <1>2, DownloaderInvariant, PTL DEF ExitOkMeansDownloaded

\* No step damages a whole ZIP but the verification of a fresh download.
THEOREM WholeFilesAreAlwaysKept == Spec => WholeFilesAreKept
<1>1. ASSUME DInv, [Next]_vars, NEW f \in Files, disk[f] = "whole",
             pc[f] # "check"
      PROVE  disk'[f] = "whole"
  <2>1. /\ disk \in [Files -> Contents]
        /\ pc[f] \notin {"request", "stream"}
    BY <1>1 DEF DInv, TypeOK, AttemptMatchesDisk
  <2>2. CASE \E g \in Files : Acquire(g) \/ FileStep(g)
    <3>1. PICK g \in Files : Acquire(g) \/ FileStep(g)
      BY <2>2
    <3>2. CASE g # f
      BY <1>1, <3>1, <3>2, OtherFiles DEF DInv
    <3>3. CASE g = f
      BY <1>1, <2>1, <3>1, <3>3
         DEF Acquire, FileStep, AcquireRaises, VerifyOld, VerifyOldRaises,
             Accepted, StreamOpen, RequestFails, StreamChunk, StreamEnd,
             StreamBreaks, VerifyNew, VerifyNewRaises, FailRaises, Wake, At
    <3> QED
      BY <3>2, <3>3
  <2>3. CASE ~\E g \in Files : Acquire(g) \/ FileStep(g)
    BY <1>1, <2>3
       DEF Next, Start, BeginDownloads, Finish, RequestShutdown, Crash,
           Discover, DiscoveryFails, vars
  <2> QED
    BY <2>2, <2>3
<1>2. DInv /\ [Next]_vars =>
        [\A f \in Files :
           disk[f] = "whole" /\ pc[f] # "check" => disk'[f] = "whole"]_vars
  BY <1>1
<1> QED
  BY <1>2, DownloaderInvariant, PTL DEF Spec, WholeFilesAreKept

-----------------------------------------------------------------------------
(* The downloader implements the store.  A step of a coroutine maps to what *)
(* it does to its own file: a whole file arrives, the file is vouched for   *)
(* or missed, or nothing the store knows of happens.                        *)

Uncounted(step) == step \notin {"none", "downloaded", "skipped", "failed"}

\* What a coroutine does to its file, as the store sees it: a whole file is
\* never lost, a whole file is counted as such and any other one as failed.
LEMMA OwnEffect ==
  ASSUME Checked, ~FsMayFail, NEW f \in Files, DInv, Acquire(f) \/ FileStep(f)
  PROVE  /\ phase = "download" /\ Uncounted(pc[f])
         /\ \/ Uncounted(pc'[f]) /\ (disk[f] = "whole" => disk'[f] = "whole")
            \/ /\ pc'[f] \in {"downloaded", "skipped"}
               /\ disk[f] = "whole" /\ disk'[f] = "whole"
            \/ /\ pc'[f] = "failed"
               /\ disk[f] # "whole" /\ disk'[f] # "whole"
<1>1. TypeOK /\ FileInv(f) /\ VerifyChecksum /\ ChecksumAnswers = {"listed"}
  BY DInvByFile DEF Checked
<1> USE <1>1 DEF TypeOK, FileInv, At, Goto, Put, Uncounted
<1>2. CASE Acquire(f)
  BY <1>2 DEF Acquire, NextAttempt
<1>3. CASE VerifyOld(f)
  BY <1>3 DEF VerifyOld, Accepted, NextAttempt
<1>4. CASE StreamOpen(f) \/ StreamChunk(f) \/ StreamEnd(f)
  BY <1>4 DEF StreamOpen, StreamChunk, StreamEnd
<1>5. CASE RequestFails(f) \/ StreamBreaks(f)
  BY <1>5 DEF RequestFails, StreamBreaks, Fail
<1>6. CASE VerifyNew(f)
  BY <1>6 DEF VerifyNew, Accepted, Fail
<1>7. CASE Wake(f)
  BY <1>7 DEF Wake, NextAttempt
<1>8. CASE AcquireRaises(f) \/ VerifyOldRaises(f) \/ VerifyNewRaises(f) \/ FailRaises(f)
  BY <1>8 DEF AcquireRaises, VerifyOldRaises, VerifyNewRaises, FailRaises
<1> QED
  BY <1>2, <1>3, <1>4, <1>5, <1>6, <1>7, <1>8 DEF FileStep

\* A step of a coroutine is a step of the store, or none.
LEMMA CoroutineMaps ==
  ASSUME Checked, ~FsMayFail, NEW f \in Files, DInv, Acquire(f) \/ FileStep(f)
  PROVE  [Store!Next]_(Store!storeVars)
<1> DEFINE whole == {g \in Files : disk[g] = "whole"}
           asked == {g \in Files : pc[g] # "none"}
           vouched == In({"downloaded", "skipped"})
           missed == In({"failed"})
           status == IF phase = "off" THEN exit ELSE "open"
<1>1. /\ phase = "download" /\ Uncounted(pc[f])
      /\ \/ Uncounted(pc'[f]) /\ (disk[f] = "whole" => disk'[f] = "whole")
         \/ /\ pc'[f] \in {"downloaded", "skipped"}
            /\ disk[f] = "whole" /\ disk'[f] = "whole"
         \/ /\ pc'[f] = "failed"
            /\ disk[f] # "whole" /\ disk'[f] # "whole"
  BY OwnEffect
<1>2. /\ \A g \in Files \ {f} : pc'[g] = pc[g] /\ disk'[g] = disk[g]
      /\ status' = status /\ shutdown' = shutdown
  BY OtherFiles DEF DInv, mainVars
<1>3. status = "open" /\ asked' = asked
  BY <1>1, <1>2 DEF Uncounted
<1>4. f \in asked \ (vouched \cup missed)
  BY <1>1 DEF Uncounted, In
<1> USE DEF Store!Next, Store!storeVars, Store!runVars, Store!Due
<1>5. CASE Uncounted(pc'[f]) /\ (disk[f] = "whole" => disk'[f] = "whole")
  <2>1. vouched' = vouched /\ missed' = missed
    BY <1>1, <1>2, <1>5 DEF In, Uncounted
  <2>2. whole' \in {whole, whole \cup {f}}
    BY <1>2, <1>5
  <2> HIDE DEF whole, asked, vouched, missed, status
  <2>3. CASE whole' = whole
    BY <1>2, <1>3, <2>1, <2>3 DEF whole, asked, vouched, missed, status
  <2>4. CASE whole' = whole \cup {f}
    <3>1. Store!Receive(f)
      BY <1>2, <1>3, <1>4, <2>1, <2>4
         DEF Store!Receive, whole, asked, vouched, missed, status
    <3> QED
      BY <3>1
  <2> QED
    BY <2>2, <2>3, <2>4
<1>6. CASE /\ pc'[f] \in {"downloaded", "skipped"}
           /\ disk[f] = "whole" /\ disk'[f] = "whole"
  <2>1. /\ vouched' = vouched \cup {f} /\ missed' = missed
        /\ whole' = whole /\ f \in whole
    BY <1>1, <1>2, <1>6 DEF In, Uncounted
  <2>2. Store!Vouch(f)
    BY <1>2, <1>3, <1>4, <2>1 DEF Store!Vouch
  <2> QED
    BY <2>2
<1>7. CASE pc'[f] = "failed" /\ disk[f] # "whole" /\ disk'[f] # "whole"
  <2>1. /\ vouched' = vouched /\ missed' = missed \cup {f}
        /\ whole' = whole /\ f \notin whole
    BY <1>1, <1>2, <1>7 DEF In, Uncounted
  <2>2. Store!Miss(f)
    BY <1>2, <1>3, <1>4, <2>1 DEF Store!Miss
  <2> QED
    BY <2>2
<1> QED
  BY <1>1, <1>5, <1>6, <1>7

\* So is every step of a run as a whole, of its operator, and a kill.
LEMMA RunMaps ==
  ASSUME ~FsMayFail, DInv, [Next]_vars,
         ~\E f \in Files : Acquire(f) \/ FileStep(f)
  PROVE  [Store!Next]_(Store!storeVars)
<1> USE DEF Store!Next, Store!storeVars, Store!runVars, In
<1>1. CASE Start
  <2>1. Store!Open
    BY <1>1 DEF Start, Store!Open, DInv, TypeOK
  <2> QED
    BY <2>1
<1>2. CASE \E g \in Groups : Discover(g)
  <2>1. Store!Ask
    BY <1>2 DEF Discover, Store!Ask, DInv, AttemptsAreCounted
  <2> QED
    BY <2>1
<1>3. CASE BeginDownloads
  BY <1>3 DEF BeginDownloads, DInv, TypeOK
<1>4. CASE Finish
  <2>1. Store!Close
    BY <1>4 DEF Finish, Store!Close, Store!Due, DInv, EndsAreExplained, Ended, Counted
  <2> QED
    BY <2>1
<1>5. CASE RequestShutdown
  <2>1. Store!Interrupt
    BY <1>5 DEF RequestShutdown, Store!Interrupt, mainVars
  <2> QED
    BY <2>1
<1>6. CASE Crash
  <2>1. Store!Kill
    BY <1>6 DEF Crash, Store!Kill
  <2> QED
    BY <2>1
<1>7. CASE (\E g \in Groups : DiscoveryFails(g)) \/ UNCHANGED vars
  BY <1>7 DEF DiscoveryFails, vars, mainVars
<1> QED
  BY <1>1, <1>2, <1>3, <1>4, <1>5, <1>6, <1>7 DEF Next

\* With published checksums and a sound file system the downloader implements
\* ZipStore: through kills, failed requests and reruns, whole files arrive and
\* stay, and a run vouches for nothing else.
THEOREM DownloaderImplementsStore ==
  ASSUME Checked, ~FsMayFail PROVE Spec => ImplementsStore
<1>1. Init => Store!Init
  BY DEF Init, Store!Init, In
<1>2. DInv /\ [Next]_vars => [Store!Next]_(Store!storeVars)
  BY CoroutineMaps, RunMaps
<1> QED
  BY <1>1, <1>2, DownloaderInvariant, PTL DEF Spec, ImplementsStore, Store!Spec

\* What the store promises of a run that has ended, whoever implements it.
LEMMA StoreIsSound == Store!Spec => []Store!Sound
<1>1. Store!Init => Store!Sound
  BY DEF Store!Init, Store!Sound
<1>2. Store!Sound /\ [Store!Next]_(Store!storeVars) => Store!Sound'
  BY DEF Store!Sound, Store!Next, Store!storeVars, Store!runVars, Store!Open,
         Store!Ask, Store!Receive, Store!Vouch, Store!Miss, Store!Interrupt,
         Store!Close, Store!Kill, Store!Due
<1> QED
  BY <1>1, <1>2, PTL DEF Store!Spec

\* As long as no new run has begun, exit status 0 of a run that was not
\* interrupted still means that every ZIP it discovered is whole: the importer
\* may start at any later time.
THEOREM ExitOkStaysTrue ==
  ASSUME Checked, ~FsMayFail
  PROVE  Spec => [](phase = "off" /\ exit = "ok" /\ ~shutdown =>
                      \A f \in Files : pc[f] # "none" => disk[f] = "whole")
<1>1. Store!Sound =>
        (phase = "off" /\ exit = "ok" /\ ~shutdown =>
           \A f \in Files : pc[f] # "none" => disk[f] = "whole")
  BY DEF Store!Sound
<1> QED
  BY <1>1, DownloaderImplementsStore, StoreIsSound, PTL DEF ImplementsStore

-----------------------------------------------------------------------------
(* Why a run ends, but for the scheduling: every coroutine has a bounded    *)
(* number of steps before it, each step uses one up, and as long as one has *)
(* not ended, one holds a slot or there is a free slot for one that waits.  *)

\* The steps a coroutine may still take in this run: six per attempt it has
\* left, and those of the attempt it is in.
Work(f) ==
  6 * (RetryCount + 1 - attempt[f])
    + CASE pc[f] = "found"   -> 3
        [] pc[f] = "waiting" -> 2
        [] pc[f] = "verify"  -> 1
        [] pc[f] = "request" -> 5
        [] pc[f] = "stream"  -> IF disk[f] = "empty" THEN 4 ELSE 3
        [] pc[f] = "check"   -> 2
        [] pc[f] = "backoff" -> 1
        [] OTHER             -> 0

\* It is a number, and no more than the retry count allows.
LEMMA WorkBounds ==
  ASSUME DInv, NEW f \in Files
  PROVE  Work(f) \in 0 .. 6 * RetryCount + 9
<1> USE DownloaderAssumption DEF DownloaderAssumption
<1>1. TypeOK /\ FileInv(f)
  BY DInvByFile
<1>2. RetryCount \in Nat /\ attempt[f] \in 0 .. RetryCount + 1
  BY <1>1 DEF TypeOK
<1>3. CASE pc[f] \in {"found", "waiting", "verify"}
  BY <1>1, <1>2, <1>3 DEF FileInv, Work
<1>4. CASE pc[f] \in {"request", "stream", "check", "backoff"}
  <2>1. attempt[f] \in 1 .. RetryCount + 1
    BY <1>1, <1>4 DEF TypeOK, Holding
  <2> QED
    BY <1>2, <1>4, <2>1 DEF Work
<1>5. CASE pc[f] \notin {"found", "waiting", "verify", "request", "stream",
                         "check", "backoff"}
  BY <1>2, <1>5 DEF Work
<1> QED
  BY <1>3, <1>4, <1>5

\* The same in the next state.
LEMMA WorkBoundsNext ==
  DInv' => (\A f \in Files : Work(f) \in 0 .. 6 * RetryCount + 9)'
<1>1. DInv => \A f \in Files : Work(f) \in 0 .. 6 * RetryCount + 9
  BY WorkBounds
<1> QED
  BY <1>1, PTL

\* A step of a coroutine uses one up.
LEMMA WorkIsDone ==
  ASSUME DInv, NEW f \in Files, Acquire(f) \/ FileStep(f)
  PROVE  Work(f)' < Work(f)
<1> USE DownloaderAssumption DEF DownloaderAssumption
<1>1. TypeOK /\ FileInv(f)
  BY DInvByFile
<1>2. RetryCount \in Nat /\ attempt[f] \in 0 .. RetryCount + 1
  BY <1>1 DEF TypeOK
<1> USE <1>1, <1>2 DEF TypeOK, FileInv, Work, At, Goto, Put
<1>3. CASE Acquire(f)
  BY <1>3 DEF Acquire, NextAttempt
<1>4. CASE VerifyOld(f)
  BY <1>4 DEF VerifyOld, NextAttempt
<1>5. CASE StreamOpen(f) \/ StreamChunk(f)
  BY <1>5 DEF StreamOpen, StreamChunk
<1>6. CASE StreamEnd(f)
  BY <1>6 DEF StreamEnd
<1>7. CASE RequestFails(f) \/ StreamBreaks(f) \/ VerifyNewRaises(f)
  BY <1>7 DEF RequestFails, StreamBreaks, VerifyNewRaises, Fail
<1>8. CASE VerifyNew(f)
  BY <1>8 DEF VerifyNew, Fail
<1>9. CASE Wake(f)
  BY <1>9 DEF Wake, NextAttempt
<1>10. CASE AcquireRaises(f) \/ VerifyOldRaises(f) \/ FailRaises(f)
  BY <1>10 DEF AcquireRaises, VerifyOldRaises, FailRaises
<1> QED
  BY <1>3, <1>4, <1>5, <1>6, <1>7, <1>8, <1>9, <1>10 DEF FileStep

\* Once the files are discovered, a step of a coroutine leaves less work to
\* it, and no step more work to any: at most 6 * RetryCount + 9 steps per file,
\* whatever fails and whoever interrupts.
THEOREM WorkIsBounded ==
  Spec => /\ [](\A f \in Files : Work(f) \in 0 .. 6 * RetryCount + 9)
          /\ [][\A f \in Files :
                  /\ phase = "download" /\ phase' = "download"
                       => Work(f)' <= Work(f)
                  /\ Acquire(f) \/ FileStep(f) => Work(f)' < Work(f)]_vars
<1>1. DInv => \A f \in Files : Work(f) \in 0 .. 6 * RetryCount + 9
  BY WorkBounds
<1>2. ASSUME DInv, DInv', [Next]_vars, phase = "download", phase' = "download",
             NEW f \in Files
      PROVE  Work(f)' <= Work(f)
  <2>1. Work(f) \in Int
    BY <1>2, WorkBounds
  <2>2. CASE \E g \in Files : Acquire(g) \/ FileStep(g)
    <3>1. PICK g \in Files : Acquire(g) \/ FileStep(g)
      BY <2>2
    <3>2. CASE g = f
      <4>1. Work(f)' < Work(f)
        BY <1>2, <3>1, <3>2, WorkIsDone
      <4>2. Work(f)' \in Int
        BY <1>2, WorkBoundsNext
      <4> QED
        BY <2>1, <4>1, <4>2
    <3>3. CASE g # f
      <4>1. pc'[f] = pc[f] /\ disk'[f] = disk[f] /\ attempt'[f] = attempt[f]
        BY <1>2, <3>1, <3>3, OtherFiles DEF DInv
      <4> QED
        BY <2>1, <4>1 DEF Work
    <3> QED
      BY <3>2, <3>3
  <2>3. CASE ~\E g \in Files : Acquire(g) \/ FileStep(g)
    <3>1. UNCHANGED <<pc, disk, attempt>>
      BY <1>2, <2>3
         DEF Next, Start, Discover, DiscoveryFails, BeginDownloads, Finish,
             RequestShutdown, Crash, vars
    <3> QED
      BY <2>1, <3>1 DEF Work
  <2> QED
    BY <2>2, <2>3
<1>3. DInv /\ DInv' /\ [Next]_vars =>
        [\A f \in Files :
           /\ phase = "download" /\ phase' = "download" => Work(f)' <= Work(f)
           /\ Acquire(f) \/ FileStep(f) => Work(f)' < Work(f)]_vars
  BY <1>2, WorkIsDone
<1> QED
  BY <1>1, <1>3, DownloaderInvariant, PTL DEF Spec

\* No coroutine is left in the list once the downloads have begun.
AllAreHandedOut == phase = "download" => \A f \in Files : pc[f] # "found"

LEMMA HandedOutStep == DInv /\ AllAreHandedOut /\ [Next]_vars => AllAreHandedOut'
<1> SUFFICES ASSUME DInv, AllAreHandedOut, [Next]_vars, phase' = "download",
                    NEW f \in Files
             PROVE  pc'[f] # "found"
  BY DEF AllAreHandedOut
<1>1. CASE \E g \in Files : Acquire(g) \/ FileStep(g)
  <2>1. PICK g \in Files : Acquire(g) \/ FileStep(g)
    BY <1>1
  <2>2. TypeOK' /\ FileInv(g)' /\ TypeOK
    BY <2>1, OwnFile DEF DInv
  <2>3. CASE g = f
    BY <2>1, <2>2, <2>3
       DEF TypeOK, Acquire, FileStep, AcquireRaises, VerifyOld,
           VerifyOldRaises, StreamOpen, RequestFails, StreamChunk, StreamEnd,
           StreamBreaks, VerifyNew, VerifyNewRaises, FailRaises, Wake,
           NextAttempt, Fail, Put, Goto, At
  <2>4. CASE g # f
    <3>1. pc'[f] = pc[f] /\ phase' = phase
      BY <2>1, <2>2, <2>4, OtherFiles DEF mainVars
    <3> QED
      BY <3>1 DEF AllAreHandedOut
  <2> QED
    BY <2>3, <2>4
<1>2. CASE BeginDownloads
  BY <1>2 DEF BeginDownloads
<1>3. CASE ~BeginDownloads /\ ~\E g \in Files : Acquire(g) \/ FileStep(g)
  BY <1>3 DEF AllAreHandedOut, Next, Start, Discover, DiscoveryFails, Finish,
              RequestShutdown, Crash, vars, mainVars
<1> QED
  BY <1>1, <1>2, <1>3

\* Slots are not lost: as long as a coroutine of the run has not ended, one
\* holds a slot and goes on, or there is a slot for one that waits.  Together
\* with WorkIsBounded: a run that is not held up ends.
THEOREM SomebodyGoesOn ==
  Spec => [](phase = "download" =>
               \/ \A f \in Files : pc[f] \in {"none"} \cup Ended
               \/ \E f \in Files : pc[f] \in Holding
               \/ FreeSlot /\ \E f \in Files : pc[f] = "waiting")
<1>1. Init => AllAreHandedOut
  BY DEF Init, AllAreHandedOut
<1>2. ASSUME DInv, AllAreHandedOut, phase = "download",
             \A f \in Files : pc[f] \notin Holding,
             NEW f \in Files, pc[f] \notin {"none"} \cup Ended
      PROVE  FreeSlot /\ pc[f] = "waiting"
  <2>1. {g \in Files : pc[g] \in Holding} = {}
    BY <1>2
  <2>2. Cardinality({g \in Files : pc[g] \in Holding}) = 0
    BY <2>1, FS_EmptySet
  <2>3. FreeSlot
    BY <2>2, DownloaderAssumption DEF DownloaderAssumption, FreeSlot
  <2> QED
    BY <1>2, <2>3 DEF DInv, TypeOK, AllAreHandedOut
<1>3. DInv /\ AllAreHandedOut =>
        (phase = "download" =>
           \/ \A f \in Files : pc[f] \in {"none"} \cup Ended
           \/ \E f \in Files : pc[f] \in Holding
           \/ FreeSlot /\ \E f \in Files : pc[f] = "waiting")
  BY <1>2
<1> QED
  BY <1>1, <1>3, HandedOutStep, DownloaderInvariant, PTL DEF Spec
=============================================================================
