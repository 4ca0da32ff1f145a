--------------------------- MODULE MCSimpleCache ---------------------------
(***************************************************************************)
(* Two users of the Simple Cache API and one of the Core Cache API share a *)
(* key; liveness is a matter of the users of the Simple API alone, since   *)
(* nothing makes a user of the Core API finish what it began.              *)
(***************************************************************************)
EXTENDS SimpleCache, TLC

CONSTANTS s1, s2, s3, k1, o1, o2

MCUsers == {s1, s2, k1}
MCSimple == {s1, s2}
MCObjects == {o1, o2}

LiveUsers == {s1, s2, s3}

MCSymmetry == Permutations(MCObjects) \cup Permutations(MCSimple)
=============================================================================
