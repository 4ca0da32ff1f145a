----------------------------- MODULE Collapsing ----------------------------
(***************************************************************************)
(* What request collapsing promises to the clients that look one key up,   *)
(* without entries, flags, bodies, goroutines or sandboxes: one of them at *)
(* a time is to provide the answer, the others wait for it, and whoever    *)
(* stops working for it leaves in the same step, with an answer for all or *)
(* with a successor.                                                       *)
(***************************************************************************)
CONSTANTS Clients, None

VARIABLES leader,   \* the client held to provide the answer, or None
          phase     \* per client: idle, waiting, leading, stuck or over

collapsingVars == <<leader, phase>>

Waiting == {c \in Clients : phase[c] = "waiting"}

Init ==
  /\ leader = None
  /\ phase = [c \in Clients |-> "idle"]

\* The first to ask for an answer that is not there.
Lead(c) ==
  /\ leader = None /\ phase[c] = "idle"
  /\ leader' = c
  /\ phase' = [phase EXCEPT ![c] = "leading"]

Join(c) ==
  /\ leader # None /\ phase[c] = "idle"
  /\ phase' = [phase EXCEPT ![c] = "waiting"]
  /\ UNCHANGED leader

\* The leader has an answer: it is everybody's.
Fulfil ==
  /\ leader \in Clients
  /\ phase[leader] = "leading"
  /\ phase' = [c \in Clients |-> IF c \in Waiting \cup {leader} THEN "over" ELSE phase[c]]
  /\ leader' = None

\* The phases once the clients in gone have left.
Left(gone) == [c \in Clients |-> IF c \in gone THEN "over" ELSE phase[c]]

\* The leader gives up, alone or with others, to one of those who wait.
HandOn(gone, w) ==
  /\ leader \in gone
  /\ w \in Waiting \ gone
  /\ phase' = [Left(gone) EXCEPT ![w] = "leading"]
  /\ leader' = w

\* The same when nobody waits.
Dissolve(gone) ==
  /\ leader \in gone
  /\ Waiting \subseteq gone
  /\ phase' = Left(gone)
  /\ leader' = None

\* Clients that do not lead leave, or never had to wait: nobody else notices.
Leave(gone) ==
  /\ leader \notin gone
  /\ phase' = Left(gone)
  /\ UNCHANGED leader

\* The leader stops working and tells nobody: those who wait do so until it
\* leaves.
GetStuck ==
  /\ leader \in Clients
  /\ phase[leader] = "leading"
  /\ phase' = [phase EXCEPT ![leader] = "stuck"]
  /\ UNCHANGED leader

Next ==
  \/ \E c \in Clients : Lead(c) \/ Join(c)
  \/ Fulfil
  \/ GetStuck
  \/ \E gone \in SUBSET Clients :
       \/ Leave(gone)
       \/ Dissolve(gone)
       \/ \E w \in Clients : HandOn(gone, w)

Spec == Init /\ [][Next]_collapsingVars
=============================================================================
