----------------------------- MODULE MCImporter -----------------------------
(* Instances of Importer for TLC: two or three months whose CSVs differ in *)
(* what the validation makes of them.                                      *)
EXTENDS Importer

CONSTANTS z1, z2, z3, j1, j2, j3

MCZipOf == [j \in Jobs |-> CASE j = j1 -> z1 [] j = j2 -> z2 [] j = j3 -> z3]
MCRank == [j \in Jobs |-> CASE j = j1 -> 1 [] j = j2 -> 2 [] j = j3 -> 3]

\* z1 is clean with two batches, z2 has a row strict validation rejects.
MCBatches == [z \in Zips |-> CASE z = z1 -> 2 [] z = z2 -> 1 [] z = z3 -> 1]
MCQuality ==
  [z \in Zips |-> CASE z = z1 -> "clean" [] z = z2 -> "dirty"
                    [] z = z3 -> "unreadable"]
=============================================================================
