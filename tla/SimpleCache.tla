---------------------------- MODULE SimpleCache ----------------------------
(***************************************************************************)
(* The Simple Cache API (cache/simple/simple.go) on top of the Core Cache  *)
(* API, for one key.  The users in Simple call Get or GetOrSet once; the   *)
(* other users call the Core Cache API in any order it allows.             *)
(***************************************************************************)
EXTENDS CoreCache

CONSTANT Simple

ASSUME SimpleAssumption == Simple \subseteq Sends

VARIABLES pc,         \* per user of the Simple API: where its call is
          read        \* per user: what reading its Body to the end gave

vars == <<hostVars, coreVars, pc, read>>

\* pc: "setting" in setFn, "inserted" from InsertAndStreamBack to the end of
\* the copy; a user of the Core API stays "new".
PCs == {"new", "looking", "setting", "inserted", "returned", "failed", "dead"}

TypeOK ==
  /\ CoreTypeOK
  /\ pc \in [Sends -> PCs]
  /\ read \in [Sends -> {"none", "whole", "error"}]

Init ==
  /\ CoreInit
  /\ pc = [c \in Sends |-> "new"]
  /\ read = [c \in Sends |-> "none"]

Goto(c, label) == pc' = [pc EXCEPT ![c] = label]
-----------------------------------------------------------------------------
(***************************************************************************)
(* Get.                                                                    *)
(***************************************************************************)
Get(c) ==
  /\ pc[c] = "new"
  /\ \/ Lookup(c) /\ Goto(c, "returned")
     \/ Goto(c, "failed") /\ UNCHANGED <<hostVars, coreVars>>
  /\ UNCHANGED read

(***************************************************************************)
(* GetOrSet.  The deferred tx.Close is part of every step that returns.    *)
(***************************************************************************)
GetOrSet(c) ==
  /\ pc[c] = "new"
  /\ NewTransaction(c)
  /\ Goto(c, "looking")
  /\ UNCHANGED read

Returns(c, label) == Close(c) /\ Goto(c, label)

\* Mutant: the transaction is closed only by those who have something to insert.
LookupFailsNoClose(c) ==
  /\ pc[c] = "looking" /\ lookup[c].st = "open"
  /\ Goto(c, "failed")
  /\ UNCHANGED <<hostVars, coreVars, read>>

\* NewTransaction fails after the lookup, or Found does.
LookupFails(c) ==
  /\ pc[c] = "looking"
  /\ Returns(c, "failed")
  /\ UNCHANGED read

\* Mutant: an item that is stale is set by whoever sees it.
CallSetFnWhenStale(c) ==
  /\ pc[c] = "looking" /\ lookup[c].st = "open"
  /\ MustInsertOrUpdate(c) \/ "stale" \in lookup[c].flags
  /\ Goto(c, "setting")
  /\ UNCHANGED <<hostVars, coreVars, read>>

CallSetFn(c) ==
  /\ pc[c] = "looking" /\ lookup[c].st = "open"
  /\ MustInsertOrUpdate(c)
  /\ Goto(c, "setting")
  /\ UNCHANGED <<hostVars, coreVars, read>>

\* Mutant: the transaction is closed only at the end of the function.
SetFnFailsNoClose(c) ==
  /\ pc[c] = "setting"
  /\ Goto(c, "failed")
  /\ UNCHANGED <<hostVars, coreVars, read>>

SetFnFails(c) ==
  /\ pc[c] = "setting"
  /\ Returns(c, "failed")
  /\ UNCHANGED read

InsertFails(c) ==
  /\ pc[c] = "setting"
  /\ Returns(c, "failed")
  /\ UNCHANGED read

SetFnReturns(c) ==
  /\ pc[c] = "setting"
  /\ Insert(c)
  /\ Goto(c, "inserted")
  /\ UNCHANGED read

\* The end of a call that has inserted: the transaction, which has no obligation
\* any more, is closed.
Ends(c, label) ==
  /\ Goto(c, label)
  /\ lookup' = Closed({c})
  /\ Deliver
  /\ UNCHANGED <<holder, read>>

ClosesWriter(c, end) ==
  /\ Completed(c, end)
  /\ writer' = [writer EXCEPT ![c] = NoObject]

AbandonsWriter(c) ==
  /\ Broken(c)
  /\ writer' = [writer EXCEPT ![c] = NoObject]

\* The host refuses: the object is as it was until the sandbox ends.
LeavesWriter(c) ==
  /\ object' = [object EXCEPT ![writer[c]].end = "refused"]
  /\ UNCHANGED <<entry, stream, current, writer>>

\* Mutant: the object is left to the end of the sandbox.
StreamBackFailsNoAbandon(c) ==
  /\ pc[c] = "inserted"
  /\ UNCHANGED <<entry, stream, object, current, writer, reader>>
  /\ Ends(c, "failed")

\* InsertAndStreamBack fails after its hostcall, and abandons the object; the
\* error of that is ignored.
StreamBackFails(c) ==
  /\ pc[c] = "inserted"
  /\ AbandonsWriter(c) \/ LeavesWriter(c)
  /\ UNCHANGED reader
  /\ Ends(c, "failed")

\* Mutant: no Abandon, so that the deferred w.Close() is the one that counts.
CopyFailsNoAbandon(c) ==
  /\ pc[c] = "inserted"
  /\ ClosesWriter(c, "cut")
  /\ UNCHANGED reader
  /\ Ends(c, "failed")

\* io.Copy or w.Close fails: the object is abandoned, and the deferred w.Close()
\* meets a handle that is gone.  The error of Abandon is ignored: if it fails,
\* the deferred w.Close() completes what there is, or fails as well.
CopyFails(c) ==
  /\ pc[c] = "inserted"
  /\ AbandonsWriter(c) \/ ClosesWriter(c, "unwound") \/ LeavesWriter(c)
  /\ UNCHANGED reader
  /\ Ends(c, "failed")

\* The reader setFn returned panics in io.Copy.  The deferred w.Close() and
\* tx.Close() run all the same; then somebody recovers, or the sandbox ends.
CopyPanics(c) ==
  /\ pc[c] = "inserted"
  /\ ClosesWriter(c, "unwound") \/ LeavesWriter(c)
  /\ UNCHANGED reader
  /\ Ends(c, "failed")

\* The body is written and closed, and read back from the cache.
CopyDone(c) ==
  /\ pc[c] = "inserted"
  /\ ClosesWriter(c, "all")
  /\ reader' = [reader EXCEPT ![c] = writer[c]]
  /\ Ends(c, "returned")

\* Somebody else has set the value, or is setting it.
ReturnFound(c) ==
  /\ pc[c] = "looking" /\ lookup[c].st = "open"
  /\ ~MustInsertOrUpdate(c) /\ IsFound(c)
  /\ reader' = [reader EXCEPT ![c] = got[c]]
  /\ lookup' = Closed({c})
  /\ UNCHANGED <<entry, holder, stream, object, current, writer, read>>
  /\ Deliver
  /\ Goto(c, "returned")
-----------------------------------------------------------------------------
\* The user reads its Body to the end; it waits for what is not written yet.
ReadBody(c) ==
  /\ reader[c] # NoObject /\ read[c] = "none"
  /\ \/ object[reader[c]].st = "complete" /\ read' = [read EXCEPT ![c] = "whole"]
     \/ object[reader[c]].st = "broken" /\ read' = [read EXCEPT ![c] = "error"]
  /\ UNCHANGED <<hostVars, coreVars, pc>>

\* The host ends the sandbox, or it panics where nothing is deferred.
Crash(c) ==
  /\ pc[c] # "dead"
  /\ Vanish(c)
  /\ Goto(c, "dead")
  /\ read' = [read EXCEPT ![c] = "none"]

\* GetOrSet goes on; setFn and the reader it returns come to an end.
Run(c) ==
  \/ LookupFails(c) \/ CallSetFn(c) \/ SetFnFails(c) \/ InsertFails(c) \/ SetFnReturns(c)
  \/ StreamBackFails(c) \/ CopyFails(c) \/ CopyPanics(c) \/ CopyDone(c) \/ ReturnFound(c)

CoreRun(c) ==
  /\ pc[c] = "new"
  /\ \/ NewTransaction(c) \/ Found(c) \/ Insert(c) \/ Update(c) \/ Cancel(c) \/ Close(c)
     \/ CloseWriter(c) \/ Abandon(c)
     \/ Lookup(c) \/ InsertUncoordinated(c)
  /\ UNCHANGED <<pc, read>>

Next ==
  \/ \E c \in Simple : Get(c) \/ GetOrSet(c) \/ Run(c)
  \/ \E c \in Sends \ Simple : CoreRun(c)
  \/ \E c \in Sends : ReadBody(c) \/ Crash(c)
  \/ Age /\ UNCHANGED <<pc, read>>

Spec == Init /\ [][Next]_vars

FairSpec == Spec /\ \A c \in Sends : WF_vars(Run(c)) /\ WF_vars(ReadBody(c))
-----------------------------------------------------------------------------
(***************************************************************************)
(* Properties.                                                             *)
(***************************************************************************)

\* "setFn is only run when [...] no other client is in the process of setting
\* it": two users are never in setFn together, and the one that is has the
\* obligation, whatever the users of the Core API do to the entry.
OneSetter ==
  \A c \in Simple : pc[c] = "setting" => holder = c

\* Who reads a body to its end without an error has read all of it: an object
\* whose copy failed is never ended as a complete one, for readers that were
\* given it while it was written as for later ones; unless the reader that was
\* copied panicked, or the Abandon failed, and the deferred Close ended it.
NoTruncatedRead ==
  \A c \in Sends : read[c] = "whole" => object[reader[c]].end \in {"all", "unwound"}

\* What a user is to the others, by where its call of GetOrSet has got; a user of
\* the Core API is what the host holds it for.
Role(c) ==
  IF c \in Simple
  THEN IF pc[c] = "new" THEN "idle"
       ELSE IF pc[c] = "looking" /\ lookup[c].st = "waiting" THEN "waiting"
       ELSE IF pc[c] = "setting" \/ (pc[c] = "looking" /\ MustInsertOrUpdate(c)) THEN "leading"
       ELSE "over"
  ELSE IF lookup[c].st = "none" THEN "idle"
       ELSE IF lookup[c].st = "waiting" THEN "waiting"
       ELSE IF holder = c THEN "leading" ELSE "over"

Promise == INSTANCE Collapsing WITH Clients <- Sends, leader <- holder,
                                    phase <- [c \in Sends |-> Role(c)]

\* GetOrSet keeps the promise of request collapsing: the step in which its code
\* stops working for a value, by a return, a panic or a crash, is the one in which
\* the others have it, or another of them is told to provide it.
KeepsPromise == Promise!Spec

\* Whoever has the obligation is still at it: no return of GetOrSet keeps it,
\* and a lookup never waits for a call that is over.
ObligationInUse ==
  holder \in Simple => pc[holder] \in {"looking", "setting"}

\* GetOrSet returns, and so does the reading of what it returned.
GetOrSetReturns ==
  \A c \in Simple : pc[c] = "looking" ~> pc[c] \in {"returned", "failed", "dead"}

\* A reader does not wait for ever for a writer whose call is over, unless the
\* host has refused to end the object in any way.
ReadersFinish ==
  \A c \in Simple :
    pc[c] = "returned" ~> \/ read[c] # "none"
                          \/ pc[c] = "dead"
                          \/ \E o \in Objects : reader[c] = o /\ object[o].end = "refused"
=============================================================================
