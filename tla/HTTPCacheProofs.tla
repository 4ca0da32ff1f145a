-------------------------- MODULE HTTPCacheProofs --------------------------
(***************************************************************************)
(* What the hostcalls of a cache transaction do to the transactions of the *)
(* key.                                                                    *)
(***************************************************************************)
EXTENDS HTTPCache, TLAPS

\* The type of the lookups.
Lookups == [Sends -> [st : {"none", "waiting", "open", "closed"}, flags : SUBSET Flags]]

\* An entry's flags never oblige anybody: only the host's choice of a leader does.
LEMMA EntryFlagsType ==
  ASSUME NEW e
  PROVE  EntryFlags(e) \in SUBSET Flags /\ "must" \notin EntryFlags(e)
BY DEF EntryFlags, Flags

\* HandOver, transaction by transaction.
LEMMA HandOverEffect ==
  ASSUME NEW gone \in SUBSET Sends, NEW l \in Lookups,
         holder \in Sends \cup {None},
         HandOver(gone, l)
  PROVE  /\ lookup' \in Lookups
         /\ holder' \in Sends \cup {None}
         /\ holder \notin gone => lookup' = l /\ holder' = holder
         /\ holder \in gone =>
              \/ holder' = None /\ lookup' = l /\ \A w \in Sends : l[w].st # "waiting"
              \/ /\ holder' \in Sends
                 /\ l[holder'].st = "waiting"
                 /\ lookup'[holder'].st = "open"
                 /\ "must" \in lookup'[holder'].flags
                 /\ \A w \in Sends : w # holder' => lookup'[w] = l[w]
<1>1. EntryFlags(entry') \cup {"must"} \in SUBSET Flags
  BY EntryFlagsType DEF Flags
<1>2. Open(EntryFlags(entry') \cup {"must"}) \in [st : {"none", "waiting", "open", "closed"}, flags : SUBSET Flags]
  BY <1>1 DEF Open
<1>3. QED
  BY <1>2, NoneAssumption DEF HandOver, Lookups, Open

\* The same for a transaction that leaves alone.
LEMMA HandOverAlone ==
  ASSUME NEW s \in Sends, NEW l \in Lookups,
         holder \in Sends \cup {None},
         HandOver({s}, l)
  PROVE  /\ lookup' \in Lookups
         /\ holder' \in Sends \cup {None}
         /\ holder # s => lookup' = l /\ holder' = holder
         /\ holder = s =>
              \/ holder' = None /\ lookup' = l /\ \A w \in Sends : l[w].st # "waiting"
              \/ /\ holder' \in Sends
                 /\ l[holder'].st = "waiting"
                 /\ lookup'[holder'].st = "open"
                 /\ "must" \in lookup'[holder'].flags
                 /\ \A w \in Sends : w # holder' => lookup'[w] = l[w]
<1>1. {s} \in SUBSET Sends /\ (holder \in {s} <=> holder = s)
  OBVIOUS
<1>2. QED
  BY <1>1, HandOverEffect, Zenon

\* Closing handles leaves every other transaction alone.
LEMMA ClosedEffect ==
  ASSUME NEW gone \in SUBSET Sends, lookup \in Lookups
  PROVE  /\ Closed(gone) \in Lookups
         /\ \A s \in Sends : s \notin gone => Closed(gone)[s] = lookup[s]
         /\ \A s \in gone : Closed(gone)[s].st \in {"none", "closed"}
         /\ \A s \in gone : lookup[s].st = "none" => Closed(gone)[s].st = "none"
BY DEF Closed, Lookups, Flags

\* CompleteCollapse, transaction by transaction.
LEMMA CompleteCollapseEffect ==
  ASSUME NEW l \in Lookups, NEW flags \in SUBSET Flags, CompleteCollapse(flags, l)
  PROVE  /\ lookup' \in Lookups
         /\ holder' = None
         /\ \A w \in Sends :
              IF l[w].st = "waiting"
                THEN lookup'[w].st = "open" /\ lookup'[w].flags = flags
                ELSE lookup'[w] = l[w]
BY DEF CompleteCollapse, Lookups, Open
=============================================================================
