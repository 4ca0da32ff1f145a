------------------------- MODULE MCCandidateOptions -------------------------
(***************************************************************************)
(* Two things the host may suggest: a response from the origin itself, and *)
(* one that is already older than a short TTL.                             *)
(***************************************************************************)
EXTENDS CandidateOptions

CONSTANTS v1, v2, k1, k2

MCRules == {v1, v2}
MCKeys == {k1, k2}

MCSuggestions ==
  { [maxAge |-> 4, age |-> 0, swr |-> 3, sie |-> 0, vary |-> v1, keys |-> {}],
    [maxAge |-> 6, age |-> 4, swr |-> 0, sie |-> 2, vary |-> v2, keys |-> {k1}] }

MCRequests ==
  { [ttl |-> 0, swr |-> 0, sie |-> 0, sensitive |-> FALSE, keys |-> {}],
    [ttl |-> 3, swr |-> 1, sie |-> 0, sensitive |-> TRUE, keys |-> {k2}] }

MCSecs == {0, 1, 3}
=============================================================================
