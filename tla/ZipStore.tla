------------------------------ MODULE ZipStore ------------------------------
(***************************************************************************)
(* What the downloader promises to the importer, which reads the ZIPs that *)
(* are on disk once the downloader has exited with 0: a store of whole     *)
(* files that only grows, and a run over it that asks for files, vouches   *)
(* for the ones the store has, owns up to the others, and says "ok" only   *)
(* if it vouches for all it asked for or was interrupted.  No coroutines,  *)
(* no attempts, no fragments, no checksums.                                *)
(***************************************************************************)
CONSTANT Zips

VARIABLES
  store,               \* the whole files, which outlive a run
  asked,               \* the files the run has to get
  vouched, missed,     \* the ones it has counted as there, and as failed
  status,              \* "open" during a run, else how the last one ended
  interrupted

runVars == <<asked, vouched, missed, status, interrupted>>
storeVars == <<store, runVars>>

Init ==
  /\ store = {} /\ asked = {} /\ vouched = {} /\ missed = {}
  /\ status = "none" /\ interrupted = FALSE

Open ==
  /\ status # "open"
  /\ status' = "open" /\ interrupted' = FALSE
  /\ asked' = {} /\ vouched' = {} /\ missed' = {}
  /\ UNCHANGED store

\* The list is complete before a file is counted.
Ask ==
  /\ status = "open" /\ vouched = {} /\ missed = {}
  /\ asked' \in SUBSET Zips /\ asked \subseteq asked'
  /\ UNCHANGED <<store, vouched, missed, status, interrupted>>

Due == asked \ (vouched \cup missed)

Receive(z) ==
  /\ status = "open" /\ z \in Due
  /\ store' = store \cup {z}
  /\ UNCHANGED runVars

Vouch(z) ==
  /\ status = "open" /\ z \in Due /\ z \in store
  /\ vouched' = vouched \cup {z}
  /\ UNCHANGED <<store, asked, missed, status, interrupted>>

Miss(z) ==
  /\ status = "open" /\ z \in Due /\ z \notin store
  /\ missed' = missed \cup {z}
  /\ UNCHANGED <<store, asked, vouched, status, interrupted>>

Interrupt ==
  /\ status = "open"
  /\ interrupted' = TRUE
  /\ UNCHANGED <<store, asked, vouched, missed, status>>

Close ==
  /\ status = "open"
  /\ interrupted \/ Due = {}
  /\ status' = IF missed = {} THEN "ok" ELSE "errors"
  /\ UNCHANGED <<store, asked, vouched, missed, interrupted>>

\* Nothing of a killed run is remembered, but the store is kept.
Kill ==
  /\ status = "open"
  /\ status' = "killed"
  /\ asked' = {} /\ vouched' = {} /\ missed' = {}
  /\ UNCHANGED <<store, interrupted>>

Next ==
  \/ Open \/ Ask \/ Interrupt \/ Close \/ Kill
  \/ \E z \in Zips : Receive(z) \/ Vouch(z) \/ Miss(z)

Spec == Init /\ [][Next]_storeVars

\* What the importer relies on: a run that was not interrupted and says "ok"
\* has everything it asked for in the store.
Sound ==
  /\ vouched \subseteq store
  /\ status = "ok" /\ ~interrupted => asked \subseteq vouched
=============================================================================
