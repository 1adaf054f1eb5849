---------------------------- MODULE ImportLedger ----------------------------
(***************************************************************************)
(* What the importer promises to whoever reads import_state: a month       *)
(* enters the ledger in one step together with all its rows, and from then *)
(* on neither the entry nor the rows change.  No attempts, no batches, no  *)
(* rollback, no crashes.                                                   *)
(***************************************************************************)
EXTENDS Integers

CONSTANTS Zips, Batches

VARIABLES ledger, data   \* data[z]: the rows of a month in the ledger

ledgerVars == <<ledger, data>>

Init ==
  /\ ledger = {}
  /\ data = [z \in Zips |-> {}]

Publish(z) ==
  /\ z \notin ledger
  /\ ledger' = ledger \cup {z}
  /\ data' = [data EXCEPT ![z] = 1 .. Batches[z]]

Next == \E z \in Zips : Publish(z)

Spec == Init /\ [][Next]_ledgerVars
=============================================================================
