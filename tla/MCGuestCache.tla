--------------------------- MODULE MCGuestCache ----------------------------
(***************************************************************************)
(* Two sandboxes that share the cache.  A serves two requests (ServeMany), *)
(* so that a revalidation of the first can be in flight during the second; *)
(* B serves one.  a1 and b1 have hooks, a2 has none.                       *)
(***************************************************************************)
EXTENDS GuestCache

MCSends == {"a1", "a2", "b1"}
MCSandboxes == {"A", "B"}
MCHome == [s \in MCSends |-> IF s = "b1" THEN "B" ELSE "A"]
MCHooks == {"a1", "b1"}

\* For liveness: one Send in each sandbox.
LiveSends == {"a1", "b1"}
LiveHome == [s \in LiveSends |-> MCHome[s]]
LiveHooks == {"a1"}
=============================================================================
