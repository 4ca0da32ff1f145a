----------------------------- MODULE HTTPCache -----------------------------
(***************************************************************************)
(* The host's HTTP cache as the hostcall wrappers of                       *)
(* internal/abi/fastly/httpcache_guest.go present it to the guests: the    *)
(* cached entry of ONE cache key, the transactions looking it up, and the  *)
(* request collapsing between them.  Keys are independent of each other,   *)
(* so one key is the whole story.                                          *)
(*                                                                         *)
(* The host itself is not in the repository; its behaviour is the one the  *)
(* witx comments above each wrapper state and sendWithGuestCache relies    *)
(* on.  Every operator is the effect of one hostcall that succeeds; a      *)
(* hostcall that fails has no effect, and the caller's error path is an    *)
(* action of the guest (module GuestCache).                                *)
(***************************************************************************)
EXTENDS Integers, FiniteSets

CONSTANTS Sends,     \* the calls of Request.Send that look the key up
          None       \* "no transaction"

ASSUME NoneAssumption == None \notin Sends
ASSUME SendsAssumption == IsFiniteSet(Sends)

VARIABLES entry,     \* what the cache holds for the key
          holder,    \* the transaction obliged to insert or update, or None
          lookup,    \* per Send: its cache handle and the state flags it got
          stream     \* the Send whose insert is still writing entry's body

hostVars == <<entry, holder, lookup, stream>>

(***************************************************************************)
(* The life of an entry.  "swr" and "sie" are the stale-while-revalidate   *)
(* and stale-if-error periods, "stale" is an entry beyond both that can    *)
(* still be revalidated, "pass" is a hit-for-pass marker.                  *)
(***************************************************************************)
Entries == {"absent", "fresh", "swr", "sie", "stale", "pass"}

Flags == {"found", "usable", "stale", "must", "sie"}

\* The flags of CacheLookupState that describe the entry itself ("must" is
\* added for the transaction that gets the obligation).
EntryFlags(e) ==
  {f \in Flags : \/ f = "found"  /\ e \in {"fresh", "swr", "sie", "stale"}
                 \/ f = "usable" /\ e \in {"fresh", "swr"}
                 \/ f = "stale"  /\ e \in {"swr", "sie", "stale"}
                 \/ f = "sie"    /\ e = "sie"}

\* Entries for which somebody has to go to the backend.
Revalidates(e) == e \in {"absent", "swr", "sie", "stale"}

\* Entries nobody can use before that: lookups collapse on the transaction
\* that has the obligation.
Collapses(e) == e \in {"absent", "sie", "stale"}

NoHandle == [st |-> "none", flags |-> {}]

Open(flags) == [st |-> "open", flags |-> flags]

Waiters == {w \in Sends : lookup[w].st = "waiting"}

HostTypeOK ==
  /\ entry \in Entries
  /\ holder \in Sends \cup {None}
  /\ lookup \in [Sends -> [st : {"none", "waiting", "open", "closed"},
                           flags : SUBSET Flags]]
  /\ stream \in Sends \cup {None}

HostInit ==
  /\ entry \in Entries
  /\ holder = None
  /\ lookup = [s \in Sends |-> NoHandle]
  /\ stream = None
-----------------------------------------------------------------------------
(***************************************************************************)
(* HTTPCacheTransactionLookup: "always participates in request collapsing  *)
(* and may return an obligation to insert or update".                      *)
(***************************************************************************)
TransactionLookup(s) ==
  /\ lookup[s].st = "none"
  /\ \/ /\ holder = None /\ Revalidates(entry)
        /\ holder' = s
        /\ lookup' = [lookup EXCEPT ![s] = Open(EntryFlags(entry) \cup {"must"})]
     \/ /\ holder # None /\ Collapses(entry)
        /\ lookup' = [lookup EXCEPT ![s] = [st |-> "waiting", flags |-> {}]]
        /\ UNCHANGED holder
     \/ /\ ~(holder = None /\ Revalidates(entry))
        /\ ~Collapses(entry)
        /\ lookup' = [lookup EXCEPT ![s] = Open(EntryFlags(entry))]
        /\ UNCHANGED holder
  /\ UNCHANGED <<entry, stream>>

\* The lookups once the handles in gone are closed.
Closed(gone) ==
  [s \in Sends |-> IF s \in gone /\ lookup[s].st # "none"
                     THEN [st |-> "closed", flags |-> {}]
                     ELSE lookup[s]]

(***************************************************************************)
(* In the operators below, l is the lookups after the closes the guest     *)
(* performs in the same step (lookup itself when there is none).           *)
(***************************************************************************)

\* The transactions in gone give their obligation up: if the holder is one of
\* them, a collapsed transaction of those still waiting in l gets it, with
\* the flags of the entry as the step leaves it.
HandOver(gone, l) ==
  LET waiting == {w \in Sends : l[w].st = "waiting"}
  IN  \/ /\ holder \notin gone
         /\ lookup' = l
         /\ UNCHANGED holder
      \/ /\ holder \in gone /\ waiting = {}
         /\ lookup' = l
         /\ holder' = None
      \/ /\ holder \in gone
         /\ \E w \in waiting :
              /\ lookup' = [l EXCEPT ![w] = Open(EntryFlags(entry') \cup {"must"})]
              /\ holder' = w

\* The obligation is fulfilled and every collapsed transaction gets the same
\* answer, with these flags.
CompleteCollapse(flags, l) ==
  /\ lookup' = [w \in Sends |-> IF l[w].st = "waiting" THEN Open(flags) ELSE l[w]]
  /\ holder' = None

\* HTTPCacheTransactionInsert and ...InsertAndStreamback: the entry is usable
\* at once, its body is still to be written.
TransactionInsert(s, l) ==
  /\ holder = s
  /\ entry' = "fresh"
  /\ stream' = s
  /\ CompleteCollapse(EntryFlags("fresh"), l)

\* HTTPCacheTransactionUpdate and ...UpdateAndReturnFresh need a found object.
TransactionUpdate(s, l) ==
  /\ holder = s
  /\ "found" \in lookup[s].flags
  /\ entry # "absent"
  /\ entry' = "fresh"
  /\ CompleteCollapse(EntryFlags("fresh"), l)
  /\ UNCHANGED stream

\* HTTPCacheTransactionChooseStale: the collapsed transactions get the stale
\* response; "does not change the cached state".
TransactionChooseStale(s, l) ==
  /\ holder = s
  /\ "sie" \in lookup[s].flags
  /\ CompleteCollapse({"found", "usable", "stale", "sie"}, l)
  /\ UNCHANGED <<entry, stream>>

\* HTTPCacheTransactionRecordNotCacheable stores a hit-for-pass object.
TransactionRecordNotCacheable(s, l) ==
  /\ holder = s
  /\ entry' = "pass"
  /\ stream' = None
  /\ CompleteCollapse(EntryFlags("pass"), l)

\* HTTPCacheTransactionAbandon: one collapsed transaction gets the obligation.
TransactionAbandon(s, l) ==
  /\ holder = s
  /\ UNCHANGED <<entry, stream>>
  /\ HandOver({s}, l)

\* HTTPCacheTransactionClose: an obligation still open is cancelled.
TransactionClose(s) ==
  /\ UNCHANGED <<entry, stream>>
  /\ HandOver({s}, Closed({s}))

\* HTTPBody.Close on the body an insert returned.
BodyClose(s) ==
  stream' = IF stream = s THEN None ELSE stream

(***************************************************************************)
(* The end of a sandbox: the host drops the handles the guest left open,   *)
(* with their obligations, and an object whose body was never finished.    *)
(***************************************************************************)
DropHandles(gone) ==
  /\ IF stream \in gone
       THEN stream' = None /\ entry' = "absent"
       ELSE UNCHANGED <<stream, entry>>
  /\ HandOver(gone, Closed(gone))

\* Time passes, or the entry is purged or evicted.
Expire ==
  /\ \/ entry = "fresh" /\ entry' \in {"swr", "sie", "stale", "absent"}
     \/ entry = "swr"   /\ entry' \in {"sie", "stale", "absent"}
     \/ entry = "sie"   /\ entry' \in {"stale", "absent"}
     \/ entry \in {"stale", "pass"} /\ entry' = "absent"
  /\ stream' = IF entry' = "absent" THEN None ELSE stream
  /\ UNCHANGED <<holder, lookup>>
=============================================================================
