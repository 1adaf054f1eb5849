---------------------------- MODULE MCDownloader ----------------------------
(* Instances of Downloader for TLC: two groups, one of them with two       *)
(* months.                                                                 *)
EXTENDS Downloader

CONSTANTS f1, f2, f3, g1, g2

MCGroupOf == [f \in Files |-> IF f = f3 THEN g2 ELSE g1]
=============================================================================
