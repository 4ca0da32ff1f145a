--------------------------- MODULE MCHeaderFields ---------------------------
(***************************************************************************)
(* Two names, one longer than the first buffer for names; a short value    *)
(* and one that is longer than the first buffer for values.                *)
(***************************************************************************)
EXTENDS HeaderFields

CONSTANTS n1, n2, short, long

MCNames == {n1, n2}
MCVals == {short, long}
MCSize == [x \in {n1, n2, short, long} |-> CASE x = n1 -> 1 [] x = n2 -> 2 [] x = short -> 1 [] x = long -> 3]
=============================================================================
