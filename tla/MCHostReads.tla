---------------------------- MODULE MCHostReads -----------------------------
(***************************************************************************)
(* Small instance of HostReads: one goroutine that runs any function of the *)
(* SDK and one that reads the same dictionary.                             *)
(***************************************************************************)
EXTENDS HostReads

CONSTANTS r1, r2
=============================================================================
