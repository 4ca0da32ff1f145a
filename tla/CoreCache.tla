----------------------------- MODULE CoreCache -----------------------------
(***************************************************************************)
(* The Core Cache API (cache/core/core.go over                             *)
(* internal/abi/fastly/cache_guest.go) for one key: Lookup, Insert and     *)
(* Transaction, with the objects' bodies, which are read while they are    *)
(* written.  The host's transactions follow the protocol of module         *)
(* HTTPCache; a "Send" there is a user of the API here, each in a sandbox  *)
(* of its own, with at most one transaction.  The core cache has neither   *)
(* stale-if-error nor hit-for-pass entries.                                *)
(***************************************************************************)
EXTENDS HTTPCache

CONSTANTS Objects,    \* bound: the objects that are ever inserted
          NoObject

ASSUME ObjectsAssumption == NoObject \notin Objects

VARIABLES object,     \* per object: its body, as the host has it
          current,    \* the object of the entry
          got,        \* per transaction: the object it has found
          writer,     \* per user: the object whose WriteCloseAbandoner it has
          reader      \* per user: the object whose Body it has

coreVars == <<object, current, got, writer, reader>>

CoreEntries == {"absent", "fresh", "swr", "stale"}

\* end: what a complete object was ended with, all there was to write, the part
\* a failed copy had written, or what there was when the code that was to abandon
\* it could not; "refused" when the host has failed every end of it.
Bodies == [st : {"unused", "writing", "complete", "broken"},
           end : {"none", "all", "cut", "unwound", "refused"}]

CoreTypeOK ==
  /\ HostTypeOK /\ entry \in CoreEntries
  /\ object \in [Objects -> Bodies]
  /\ current \in Objects \cup {NoObject}
  /\ (entry = "absent") = (current = NoObject)
  /\ got \in [Sends -> Objects \cup {NoObject}]
  /\ writer \in [Sends -> Objects \cup {NoObject}]
  /\ reader \in [Sends -> Objects \cup {NoObject}]

Unused == [st |-> "unused", end |-> "none"]
Stored == [st |-> "complete", end |-> "all"]

CoreInit ==
  /\ HostInit /\ entry \in CoreEntries
  /\ \/ entry = "absent" /\ current = NoObject
     \/ entry # "absent" /\ current \in Objects
  /\ object = [o \in Objects |-> IF o = current THEN Stored ELSE Unused]
  /\ got = [c \in Sends |-> NoObject]
  /\ writer = [c \in Sends |-> NoObject]
  /\ reader = [c \in Sends |-> NoObject]
-----------------------------------------------------------------------------
\* A transaction whose lookup opens finds the object the entry then has, and
\* keeps it until it is closed.
Deliver ==
  got' = [c \in Sends |-> IF lookup'[c].st # "open" THEN NoObject
                          ELSE IF lookup[c].st = "open" THEN got[c] ELSE current']

\* A new object replaces the entry's.
NewObject(c, o) ==
  /\ object[o].st = "unused"
  /\ object' = [object EXCEPT ![o].st = "writing"]
  /\ current' = o
  /\ writer' = [writer EXCEPT ![c] = o]

\* NewTransaction: the lookup, and the state that it waits for.
NewTransaction(c) ==
  /\ TransactionLookup(c)
  /\ UNCHANGED <<object, current, writer, reader>>
  /\ Deliver

\* MustInsertOrUpdate and MustInsert look at the state read by NewTransaction.
MustInsertOrUpdate(c) == "must" \in lookup[c].flags

IsFound(c) == "found" \in lookup[c].flags

\* Transaction.Found: the Body is opened once and kept.
Found(c) ==
  /\ lookup[c].st = "open" /\ IsFound(c) /\ reader[c] = NoObject
  /\ reader' = [reader EXCEPT ![c] = got[c]]
  /\ UNCHANGED <<hostVars, object, current, got, writer>>

\* Transaction.Insert, and InsertAndStreamBack up to its hostcall.
Insert(c) ==
  /\ writer[c] = NoObject
  /\ TransactionInsert(c, lookup)
  /\ \E o \in Objects : NewObject(c, o)
  /\ UNCHANGED reader
  /\ Deliver

\* Transaction.Update: the entry is fresh again, with the same object.
Update(c) ==
  /\ TransactionUpdate(c, lookup)
  /\ UNCHANGED <<object, current, writer, reader>>
  /\ Deliver

\* Transaction.Cancel: the obligation goes to another transaction, the handle
\* stays.
Cancel(c) ==
  /\ TransactionAbandon(c, lookup)
  /\ UNCHANGED <<object, current, writer, reader>>
  /\ Deliver

\* Transaction.Close; a second Close does nothing.
Close(c) ==
  /\ lookup[c].st = "open"
  /\ TransactionClose(c)
  /\ UNCHANGED <<object, current, writer, reader>>
  /\ Deliver

\* The writer is closed: the object is complete, with or without all of it.
Completed(c, end) ==
  /\ object' = [object EXCEPT ![writer[c]] = [st |-> "complete", end |-> end]]
  /\ stream' = IF stream = c THEN None ELSE stream
  /\ UNCHANGED <<entry, current>>

\* Mutant: the entry goes, its object does not.
BrokenKeepsCurrent(c) ==
  /\ object' = [object EXCEPT ![writer[c]].st = "broken"]
  /\ IF stream = c
       THEN stream' = None /\ entry' = "absent" /\ UNCHANGED current
       ELSE UNCHANGED <<stream, entry, current>>

\* The object is given up: readers get an error, and it leaves the cache if it
\* is still there.
Broken(c) ==
  /\ object' = [object EXCEPT ![writer[c]].st = "broken"]
  /\ IF stream = c
       THEN stream' = None /\ entry' = "absent" /\ current' = NoObject
       ELSE UNCHANGED <<stream, entry, current>>

\* WriteCloseAbandoner: the last Write and Close, or Abandon.
CloseWriter(c) ==
  /\ writer[c] # NoObject
  /\ Completed(c, "all")
  /\ writer' = [writer EXCEPT ![c] = NoObject]
  /\ UNCHANGED <<holder, lookup, got, reader>>

Abandon(c) ==
  /\ writer[c] # NoObject
  /\ Broken(c)
  /\ writer' = [writer EXCEPT ![c] = NoObject]
  /\ UNCHANGED <<holder, lookup, got, reader>>

\* core.Lookup, which joins no collapsing and gets no obligation.
Lookup(c) ==
  /\ entry # "absent" /\ reader[c] = NoObject
  /\ reader' = [reader EXCEPT ![c] = current]
  /\ UNCHANGED <<hostVars, object, current, got, writer>>

\* core.Insert, which overwrites the entry whoever is obliged to provide it.
InsertUncoordinated(c) ==
  /\ writer[c] = NoObject
  /\ \E o \in Objects : NewObject(c, o)
  /\ entry' = "fresh"
  /\ stream' = c
  /\ UNCHANGED <<holder, lookup, got, reader>>
-----------------------------------------------------------------------------
\* The sandbox of c ends: its handles are dropped, an unfinished object with
\* them.
Vanish(c) ==
  /\ object' = [o \in Objects |-> IF o = writer[c] THEN [object[o] EXCEPT !.st = "broken"]
                                                   ELSE object[o]]
  /\ current' = IF stream = c THEN NoObject ELSE current
  /\ DropHandles({c})
  /\ writer' = [writer EXCEPT ![c] = NoObject]
  /\ reader' = [reader EXCEPT ![c] = NoObject]
  /\ Deliver

\* Time passes, the entry is evicted, or a purge hits it; a soft purge leaves
\* it stale.
Age ==
  /\ Expire /\ entry' \in CoreEntries
  /\ current' = IF entry' = "absent" THEN NoObject ELSE current
  /\ UNCHANGED <<object, got, writer, reader>>
=============================================================================
