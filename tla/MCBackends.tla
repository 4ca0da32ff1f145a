----------------------------- MODULE MCBackends -----------------------------
(***************************************************************************)
(* Small instance of Backends: words of 8 values, two ticks to the         *)
(* millisecond.                                                            *)
(***************************************************************************)
EXTENDS Backends

\* Negative, less than a millisecond, the largest time that is
\* right, the largest that is allowed and one that is not.
MCDurations == {-2, 1, 15, 16, 18}
=============================================================================
