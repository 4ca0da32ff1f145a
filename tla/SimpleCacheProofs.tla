------------------------- MODULE SimpleCacheProofs -------------------------
(***************************************************************************)
(* The safety of GetOrSet for any number of users of the Simple and of the *)
(* Core Cache API and any number of objects.                               *)
(***************************************************************************)
EXTENDS SimpleCache, HTTPCacheProofs

\* Where a user is, and what it can have there.
UserInv(c) ==
  /\ c \in Simple =>
       /\ pc[c] = "new" => lookup[c].st = "none"
       /\ pc[c] = "looking" => lookup[c].st \in {"waiting", "open"}
       /\ pc[c] = "looking" /\ lookup[c].st = "open" /\ "must" \in lookup[c].flags => holder = c
       /\ pc[c] = "setting" => holder = c
       /\ pc[c] = "inserted" => lookup[c].st = "open" /\ holder # c
       /\ pc[c] \in {"returned", "failed"} => lookup[c].st \in {"none", "closed"}
  /\ c \notin Simple => pc[c] \in {"new", "dead"}
  /\ pc[c] = "dead" => lookup[c].st \in {"none", "closed"}

\* The obligation is with a transaction that was told so.
HolderTold == holder \in Sends => lookup[holder].st = "open" /\ "must" \in lookup[holder].flags

\* The transactions, their users and the obligation.
ObligationInv ==
  /\ lookup \in Lookups
  /\ holder \in Sends \cup {None}
  /\ pc \in [Sends -> PCs]
  /\ HolderTold
  /\ \A c \in Sends : UserInv(c)

\* The bodies: who writes an object is alone at it and has not ended it, and
\* what was read as a whole stays so.
ObjectInv ==
  /\ \A c \in Sends : writer[c] # NoObject => object[writer[c]].st = "writing"
  /\ \A c, d \in Sends : writer[c] = writer[d] /\ writer[c] # NoObject => c = d
  /\ \A o \in Objects : object[o].st = "complete" => object[o].end \in {"all", "unwound"}
  /\ \A c \in Sends : read[c] # "none" => reader[c] # NoObject
  /\ \A c \in Sends : read[c] = "whole" => object[reader[c]].st = "complete"
  /\ \A c \in Simple : pc[c] = "inserted" => writer[c] # NoObject
  /\ \A c \in Simple : pc[c] \in {"new", "looking", "setting", "inserted"} => reader[c] = NoObject

IInv == TypeOK /\ ObligationInv /\ ObjectInv

\* The invariant holds at the start, whatever the cache has for the key.
LEMMA InitInv == Init => IInv
<1> SUFFICES ASSUME Init PROVE IInv
  OBVIOUS
<1> USE NoneAssumption, ObjectsAssumption, SimpleAssumption
<1>1. TypeOK
  BY DEF Init, CoreInit, HostInit, TypeOK, CoreTypeOK, HostTypeOK, Bodies, PCs, Unused, Stored, NoHandle, CoreEntries, Entries, Flags
<1>2. ObligationInv
  BY DEF Init, CoreInit, HostInit, ObligationInv, HolderTold, UserInv, PCs, NoHandle, Lookups, Flags
<1>3. ObjectInv
  BY DEF Init, CoreInit, ObjectInv, Unused, Stored
<1>4. QED
  BY <1>1, <1>2, <1>3 DEF IInv

\* A transaction is closed, with or without the obligation.
LEMMA CloseKeeps ==
  ASSUME ObligationInv, NEW c \in Sends, HandOver({c}, Closed({c})),
         lookup[c].st # "none" \/ pc'[c] = "dead",
         pc' \in [Sends -> PCs],
         \A d \in Sends : d # c => pc'[d] = pc[d],
         c \in Simple => pc'[c] \in {"returned", "failed", "dead"},
         c \notin Simple => pc'[c] \in {"new", "dead"}
  PROVE  ObligationInv'
<1> DEFINE l == Closed({c})
<1> USE NoneAssumption
<1>1. /\ l \in Lookups
      /\ \A d \in Sends : d # c => l[d] = lookup[d]
      /\ l[c].st \in {"none", "closed"}
  BY ClosedEffect DEF ObligationInv
<1>2. HandOver({c}, l) /\ holder \in Sends \cup {None}
  BY DEF ObligationInv
<1> HIDE DEF l
<1>3. /\ lookup' \in Lookups
      /\ holder' \in Sends \cup {None}
      /\ holder # c => lookup' = l /\ holder' = holder
      /\ holder = c =>
              \/ holder' = None /\ lookup' = l /\ \A w \in Sends : l[w].st # "waiting"
              \/ /\ holder' \in Sends
                 /\ l[holder'].st = "waiting"
                 /\ lookup'[holder'].st = "open"
                 /\ "must" \in lookup'[holder'].flags
                 /\ \A w \in Sends : w # holder' => lookup'[w] = l[w]
  BY <1>1, <1>2, HandOverAlone
<1>4. HolderTold'
  BY <1>1, <1>3 DEF ObligationInv, HolderTold
<1>5. ASSUME NEW d \in Sends PROVE UserInv(d)'
  BY <1>1, <1>3 DEF ObligationInv, UserInv, HolderTold
<1>6. QED
  BY <1>3, <1>4, <1>5 DEF ObligationInv

\* The obligation is fulfilled by c, which is told nothing new.
LEMMA FulfilKeeps ==
  ASSUME ObligationInv, NEW c \in Sends, holder = c,
         CompleteCollapse(EntryFlags("fresh"), lookup),
         pc' \in [Sends -> PCs],
         \A d \in Sends : d # c => pc'[d] = pc[d],
         c \in Simple => pc'[c] = "inserted",
         c \notin Simple => pc'[c] = pc[c]
  PROVE  ObligationInv'
<1>1. /\ lookup' \in Lookups
      /\ holder' = None
      /\ \A w \in Sends :
              IF lookup[w].st = "waiting"
                THEN lookup'[w].st = "open" /\ lookup'[w].flags = EntryFlags("fresh")
                ELSE lookup'[w] = lookup[w]
  BY EntryFlagsType, CompleteCollapseEffect DEF ObligationInv
<1>2. "must" \notin EntryFlags("fresh")
  BY EntryFlagsType
<1>3. ASSUME NEW d \in Sends PROVE UserInv(d)'
  BY <1>1, <1>2, NoneAssumption DEF ObligationInv, UserInv, HolderTold
<1>4. QED
  BY <1>1, <1>3, NoneAssumption DEF ObligationInv, HolderTold

\* A user of the Core API cancels and keeps its handle.
LEMMA CancelKeeps ==
  ASSUME ObligationInv, NEW c \in Sends \ Simple, TransactionAbandon(c, lookup), UNCHANGED pc
  PROVE  ObligationInv'
<1> USE NoneAssumption
<1>1. /\ lookup' \in Lookups
      /\ holder' \in Sends \cup {None}
      /\ \/ holder' = None /\ lookup' = lookup
         \/ /\ holder' \in Sends
            /\ lookup[holder'].st = "waiting"
            /\ lookup'[holder'].st = "open"
            /\ "must" \in lookup'[holder'].flags
            /\ \A w \in Sends : w # holder' => lookup'[w] = lookup[w]
  BY HandOverAlone DEF ObligationInv, TransactionAbandon
<1>2. holder = c
  BY DEF TransactionAbandon
<1>3. ASSUME NEW d \in Sends PROVE UserInv(d)'
  BY <1>1, <1>2 DEF ObligationInv, UserInv
<1>4. QED
  BY <1>1, <1>3 DEF ObligationInv, HolderTold

\* A lookup, by GetOrSet or by a user of the Core API.
LEMMA LookupKeeps ==
  ASSUME ObligationInv, NEW c \in Sends, TransactionLookup(c),
         pc' \in [Sends -> PCs],
         \A d \in Sends : d # c => pc'[d] = pc[d],
         c \in Simple => pc[c] = "new" /\ pc'[c] = "looking",
         c \notin Simple => pc'[c] = pc[c] /\ pc[c] = "new"
  PROVE  ObligationInv'
<1> USE NoneAssumption
<1>1. /\ lookup' \in Lookups
      /\ holder' \in Sends \cup {None}
      /\ \A d \in Sends : d # c => lookup'[d] = lookup[d]
      /\ \/ holder = None /\ holder' = c /\ lookup'[c].st = "open" /\ "must" \in lookup'[c].flags
         \/ holder' = holder /\ lookup[c].st = "none" /\ lookup'[c].st = "waiting"
         \/ holder' = holder /\ lookup[c].st = "none" /\ lookup'[c].st = "open" /\ "must" \notin lookup'[c].flags
  BY EntryFlagsType DEF TransactionLookup, ObligationInv, Lookups, Open, Flags
<1>2. HolderTold'
  BY <1>1 DEF ObligationInv, HolderTold
<1>3. ASSUME NEW d \in Sends PROVE UserInv(d)'
  BY <1>1 DEF ObligationInv, UserInv, HolderTold
<1>4. QED
  BY <1>1, <1>2, <1>3 DEF ObligationInv

\* Steps that leave the transactions alone.
LEMMA LocalKeeps ==
  ASSUME ObligationInv, NEW c \in Sends, UNCHANGED <<holder, lookup>>,
         pc' \in [Sends -> PCs],
         \A d \in Sends : d # c => pc'[d] = pc[d],
         \/ pc'[c] = pc[c]
         \/ c \in Simple /\ pc[c] = "new" /\ pc'[c] \in {"returned", "failed"}
         \/ c \in Simple /\ pc[c] = "looking" /\ lookup[c].st = "open"
              /\ "must" \in lookup[c].flags /\ pc'[c] = "setting"
  PROVE  ObligationInv'
<1>1. ASSUME NEW d \in Sends PROVE UserInv(d)'
  BY DEF ObligationInv, UserInv
<1>2. QED
  BY <1>1 DEF ObligationInv, HolderTold

\* The ends of GetOrSet that only close the handle have no obligation any more.
LEMMA EndsKeep ==
  ASSUME ObligationInv, NEW c \in Simple, holder # c, lookup[c].st = "open",
         lookup' = Closed({c}), UNCHANGED holder,
         \E label \in {"returned", "failed"} : Goto(c, label)
  PROVE  ObligationInv'
<1>1. HandOver({c}, Closed({c}))
  BY DEF HandOver
<1>2. c \in Sends /\ lookup[c].st # "none"
  BY SimpleAssumption
<1>3. /\ pc' \in [Sends -> PCs]
      /\ \A d \in Sends : d # c => pc'[d] = pc[d]
      /\ pc'[c] \in {"returned", "failed", "dead"}
  BY <1>2 DEF ObligationInv, Goto, PCs
<1>4. QED
  BY <1>1, <1>2, <1>3, CloseKeeps

\* Every step keeps the obligation with a user that is still at it.
LEMMA ObligationStep ==
  ASSUME ObligationInv, [Next]_vars
  PROVE  ObligationInv'
<1> USE SimpleAssumption
<1>1. pc \in [Sends -> PCs]
  BY DEF ObligationInv
<1>2. ASSUME NEW c \in Simple, Get(c) \/ CallSetFn(c)
      PROVE  ObligationInv'
  <2>1. /\ c \in Sends /\ UNCHANGED <<holder, lookup>>
        /\ \E label \in {"returned", "failed", "setting"} : Goto(c, label)
    BY <1>2 DEF Get, CallSetFn, Lookup, hostVars
  <2>2. pc' \in [Sends -> PCs] /\ \A d \in Sends : d # c => pc'[d] = pc[d]
    BY <1>1, <2>1 DEF Goto, PCs
  <2>3. \/ pc[c] = "new" /\ pc'[c] \in {"returned", "failed"}
        \/ pc[c] = "looking" /\ lookup[c].st = "open" /\ "must" \in lookup[c].flags /\ pc'[c] = "setting"
    BY <1>1, <1>2, <2>1 DEF Get, CallSetFn, MustInsertOrUpdate, Goto
  <2>4. QED
    BY <2>1, <2>2, <2>3, LocalKeeps
<1>3. ASSUME NEW c \in Simple, GetOrSet(c)
      PROVE  ObligationInv'
  <2>1. TransactionLookup(c) /\ Goto(c, "looking") /\ pc[c] = "new" /\ c \in Sends
    BY <1>3 DEF GetOrSet, NewTransaction
  <2>2. /\ pc' \in [Sends -> PCs]
        /\ \A d \in Sends : d # c => pc'[d] = pc[d]
        /\ pc'[c] = "looking"
    BY <1>1, <2>1 DEF Goto, PCs
  <2>3. QED
    BY <2>1, <2>2, LookupKeeps
<1>4. ASSUME NEW c \in Simple, LookupFails(c) \/ SetFnFails(c) \/ InsertFails(c)
      PROVE  ObligationInv'
  <2>1. HandOver({c}, Closed({c})) /\ Goto(c, "failed") /\ lookup[c].st # "none" /\ c \in Sends
    BY <1>4 DEF LookupFails, SetFnFails, InsertFails, Returns, Close, TransactionClose
  <2>2. /\ pc' \in [Sends -> PCs]
        /\ \A d \in Sends : d # c => pc'[d] = pc[d]
        /\ pc'[c] = "failed"
    BY <1>1, <2>1 DEF Goto, PCs
  <2>3. QED
    BY <2>1, <2>2, CloseKeeps
<1>5. ASSUME NEW c \in Simple, SetFnReturns(c)
      PROVE  ObligationInv'
  <2>1. /\ holder = c /\ CompleteCollapse(EntryFlags("fresh"), lookup)
        /\ Goto(c, "inserted") /\ c \in Sends
    BY <1>5 DEF SetFnReturns, Insert, TransactionInsert
  <2>2. /\ pc' \in [Sends -> PCs]
        /\ \A d \in Sends : d # c => pc'[d] = pc[d]
        /\ pc'[c] = "inserted"
    BY <1>1, <2>1 DEF Goto, PCs
  <2>3. QED
    BY <2>1, <2>2, FulfilKeeps
<1>6. ASSUME NEW c \in Simple,
             StreamBackFails(c) \/ CopyFails(c) \/ CopyPanics(c) \/ CopyDone(c) \/ ReturnFound(c)
      PROVE  ObligationInv'
  <2>1. /\ lookup' = Closed({c}) /\ UNCHANGED holder
        /\ \E label \in {"returned", "failed"} : Goto(c, label)
    BY <1>6 DEF StreamBackFails, CopyFails, CopyPanics, CopyDone, ReturnFound, Ends
  <2>2. holder # c /\ lookup[c].st = "open"
    BY <1>6 DEF StreamBackFails, CopyFails, CopyPanics, CopyDone, ReturnFound, MustInsertOrUpdate,
                ObligationInv, UserInv, HolderTold
  <2>3. QED
    BY <2>1, <2>2, EndsKeep
<1>7. ASSUME NEW c \in Sends \ Simple, CoreRun(c)
      PROVE  ObligationInv'
  <2>1. pc[c] = "new" /\ UNCHANGED pc
    BY <1>7 DEF CoreRun
  <2>2. CASE NewTransaction(c)
    BY <1>1, <2>1, <2>2, LookupKeeps DEF NewTransaction
  <2>3. CASE Insert(c) \/ Update(c)
    BY <1>1, <2>1, <2>3, FulfilKeeps DEF Insert, Update, TransactionInsert, TransactionUpdate
  <2>4. CASE Cancel(c)
    BY <2>1, <2>4, CancelKeeps DEF Cancel
  <2>5. CASE Close(c)
    BY <1>1, <2>1, <2>5, CloseKeeps DEF Close, TransactionClose
  <2>6. CASE Found(c) \/ CloseWriter(c) \/ Abandon(c) \/ Lookup(c) \/ InsertUncoordinated(c)
    BY <1>1, <2>1, <2>6, LocalKeeps
       DEF Found, CloseWriter, Abandon, Lookup, InsertUncoordinated, hostVars
  <2>7. QED
    BY <1>7, <2>2, <2>3, <2>4, <2>5, <2>6 DEF CoreRun
<1>8. ASSUME NEW c \in Sends, Crash(c)
      PROVE  ObligationInv'
  <2>1. HandOver({c}, Closed({c})) /\ Goto(c, "dead")
    BY <1>8 DEF Crash, Vanish, DropHandles
  <2>2. /\ pc' \in [Sends -> PCs]
        /\ \A d \in Sends : d # c => pc'[d] = pc[d]
        /\ pc'[c] = "dead"
    BY <1>1, <2>1 DEF Goto, PCs
  <2>3. QED
    BY <2>1, <2>2, CloseKeeps
<1>9. CASE (\E c \in Sends : ReadBody(c)) \/ (Age /\ UNCHANGED <<pc, read>>) \/ UNCHANGED vars
  <2>1. UNCHANGED <<holder, lookup, pc>>
    BY <1>9 DEF ReadBody, Age, Expire, vars, hostVars
  <2>2. QED
    BY <2>1 DEF ObligationInv, HolderTold, UserInv
<1>10. QED
  BY <1>2, <1>3, <1>4, <1>5, <1>6, <1>7, <1>8, <1>9 DEF Next, Run

\* Whoever has no writer takes an object nobody has used.
LEMMA NewObjectKeeps ==
  ASSUME TypeOK, ObjectInv, NEW c \in Sends, writer[c] = NoObject,
         \E o \in Objects : NewObject(c, o),
         UNCHANGED <<reader, read>>,
         \/ UNCHANGED pc /\ c \notin Simple
         \/ Goto(c, "inserted") /\ pc[c] = "setting"
  PROVE  ObjectInv'
<1> USE ObjectsAssumption, SimpleAssumption
<1>1. PICK o \in Objects : NewObject(c, o)
  OBVIOUS
<1>2. /\ object[o].st = "unused" /\ object'[o].st = "writing"
      /\ writer'[c] = o /\ o # NoObject
      /\ \A p \in Objects : p # o => object'[p] = object[p]
      /\ \A d \in Sends : d # c => writer'[d] = writer[d]
      /\ \A d \in Sends : writer[d] \in Objects \cup {NoObject} /\ reader[d] \in Objects \cup {NoObject}
  BY <1>1 DEF NewObject, TypeOK, CoreTypeOK, Bodies
<1>3. \A d \in Simple : pc'[d] = "inserted" => pc[d] = "inserted" \/ d = c
  BY DEF TypeOK, Goto
<1>4. \A d \in Simple : pc'[d] = pc[d] \/ (d = c /\ pc[d] = "setting" /\ pc'[d] = "inserted")
  BY DEF TypeOK, Goto
<1>5. (\A d \in Sends : writer[d] # NoObject => object[writer[d]].st = "writing")'
  BY <1>2 DEF ObjectInv
<1>6. (\A d, e \in Sends : writer[d] = writer[e] /\ writer[d] # NoObject => d = e)'
  BY <1>2 DEF ObjectInv
<1>7. QED
  BY <1>2, <1>3, <1>4, <1>5, <1>6 DEF ObjectInv

\* The writer ends its object, or the end of the sandbox ends it.
LEMMA EndObjectKeeps ==
  ASSUME TypeOK, ObjectInv, NEW c \in Sends,
         \A p \in Objects : p # writer[c] => object'[p] = object[p],
         \A p \in Objects : p = writer[c] =>
           \/ object'[p].st = "broken"
           \/ object'[p].st = "complete" /\ object'[p].end \in {"all", "unwound"},
         writer' = [writer EXCEPT ![c] = NoObject],
         reader' \in [Sends -> Objects \cup {NoObject}],
         \A d \in Sends : d # c => reader'[d] = reader[d] /\ read'[d] = read[d] /\ pc'[d] = pc[d],
         \/ reader'[c] = reader[c] /\ read'[c] = read[c]
         \/ read'[c] = "none",
         \/ pc'[c] = pc[c] /\ c \notin Simple
         \/ pc'[c] \in {"returned", "failed", "dead"}
  PROVE  ObjectInv'
<1> USE ObjectsAssumption, SimpleAssumption
<1>1. /\ writer'[c] = NoObject
      /\ \A d \in Sends : d # c => writer'[d] = writer[d]
      /\ \A d \in Sends : writer[d] \in Objects \cup {NoObject} /\ reader[d] \in Objects \cup {NoObject}
  BY DEF TypeOK, CoreTypeOK
<1>2. (\A d \in Sends : writer[d] # NoObject => object[writer[d]].st = "writing")'
  BY <1>1 DEF ObjectInv
<1>3. (\A d \in Sends : /\ read[d] # "none" => reader[d] # NoObject
                       /\ read[d] = "whole" => object[reader[d]].st = "complete")'
  BY <1>1 DEF ObjectInv
<1>4. (\A o \in Objects : object[o].st = "complete" => object[o].end \in {"all", "unwound"})'
  BY DEF ObjectInv
<1>5. QED
  BY <1>1, <1>2, <1>3, <1>4 DEF ObjectInv

\* The objects and their writers stay as they are, or an unfinished object is
\* marked as one the host does not end.
LEMMA ReadKeeps ==
  ASSUME TypeOK, ObjectInv, NEW c \in Sends, UNCHANGED writer,
         \A p \in Objects :
           object'[p] = object[p] \/ (object[p].st = "writing" /\ object'[p].st = "writing"),
         \A d \in Sends : d # c => reader'[d] = reader[d] /\ read'[d] = read[d] /\ pc'[d] = pc[d],
         \/ reader'[c] = reader[c] /\ read'[c] = read[c]
         \/ reader[c] = NoObject /\ read'[c] = read[c]
         \/ /\ reader'[c] = reader[c] /\ reader[c] # NoObject
            /\ read'[c] = "whole" => object[reader[c]].st = "complete",
         c \in Simple => \/ pc'[c] = pc[c] /\ reader'[c] = reader[c]
                         \/ pc'[c] \in {"returned", "failed"}
                         \/ /\ pc[c] \in {"new", "looking", "setting"} /\ reader'[c] = reader[c]
                            /\ pc'[c] \in {"looking", "setting"}
  PROVE  ObjectInv'
<1> USE ObjectsAssumption, SimpleAssumption
<1>1. (\A d \in Sends : /\ read[d] # "none" => reader[d] # NoObject
                       /\ read[d] = "whole" => object[reader[d]].st = "complete")'
  BY DEF ObjectInv, TypeOK, CoreTypeOK
<1>2. (\A d \in Simple : pc[d] = "inserted" => writer[d] # NoObject)'
  BY DEF ObjectInv
<1>3. (\A d \in Simple : pc[d] \in {"new", "looking", "setting", "inserted"} => reader[d] = NoObject)'
  BY DEF ObjectInv
<1>4. /\ (\A d \in Sends : writer[d] # NoObject => object[writer[d]].st = "writing")'
      /\ (\A o \in Objects : object[o].st = "complete" => object[o].end \in {"all", "unwound"})'
  BY DEF ObjectInv, TypeOK, CoreTypeOK
<1>5. QED
  BY <1>1, <1>2, <1>3, <1>4 DEF ObjectInv

\* Every step keeps each unfinished object with its one writer.
LEMMA ObjectStep ==
  ASSUME TypeOK, ObjectInv, [Next]_vars
  PROVE  ObjectInv'
<1> USE ObjectsAssumption, SimpleAssumption
<1>1. /\ pc \in [Sends -> PCs] /\ object \in [Objects -> Bodies]
      /\ writer \in [Sends -> Objects \cup {NoObject}]
      /\ reader \in [Sends -> Objects \cup {NoObject}] /\ got \in [Sends -> Objects \cup {NoObject}]
      /\ read \in [Sends -> {"none", "whole", "error"}] /\ current \in Objects \cup {NoObject}
  BY DEF TypeOK, CoreTypeOK
<1>2. ASSUME NEW c \in Simple, SetFnReturns(c)
      PROVE  ObjectInv'
  BY <1>2, NewObjectKeeps DEF SetFnReturns, Insert
<1>3. ASSUME NEW c \in Simple, StreamBackFails(c) \/ CopyFails(c) \/ CopyPanics(c) \/ CopyDone(c)
      PROVE  ObjectInv'
  <2> USE DEF StreamBackFails, CopyFails, CopyPanics, CopyDone
  <2>1. /\ writer[c] # NoObject /\ pc[c] = "inserted" /\ c \in Sends /\ reader[c] = NoObject
        /\ UNCHANGED read /\ read[c] = "none"
    BY <1>1, <1>3 DEF ObjectInv, Ends
  <2>2. /\ pc'[c] \in {"returned", "failed", "dead"}
        /\ \A d \in Sends : d # c => pc'[d] = pc[d]
    BY <1>1, <1>3 DEF Ends, Goto
  <2>3. /\ reader' \in [Sends -> Objects \cup {NoObject}]
        /\ \A d \in Sends : d # c => reader'[d] = reader[d]
    BY <1>1, <1>3
  <2>4. CASE LeavesWriter(c) /\ pc'[c] = "failed"
    <3>1. \A p \in Objects :
            object'[p] = object[p] \/ (object[p].st = "writing" /\ object'[p].st = "writing")
      BY <1>1, <2>1, <2>4 DEF LeavesWriter, ObjectInv, Bodies
    <3>2. UNCHANGED writer
      BY <2>4 DEF LeavesWriter
    <3>3. QED
      BY <2>1, <2>2, <2>3, <2>4, <3>1, <3>2, ReadKeeps
  <2>5. CASE AbandonsWriter(c) \/ ClosesWriter(c, "all") \/ ClosesWriter(c, "unwound")
    <3>1. /\ \A p \in Objects : p # writer[c] => object'[p] = object[p]
          /\ \A p \in Objects : p = writer[c] =>
               \/ object'[p].st = "broken"
               \/ object'[p].st = "complete" /\ object'[p].end \in {"all", "unwound"}
      BY <1>1, <2>1, <2>5 DEF AbandonsWriter, ClosesWriter, Completed, Broken, Bodies
    <3>2. writer' = [writer EXCEPT ![c] = NoObject]
      BY <2>5 DEF AbandonsWriter, ClosesWriter
    <3>3. QED
      BY <2>1, <2>2, <2>3, <3>1, <3>2, EndObjectKeeps
  <2>6. LeavesWriter(c) => pc'[c] = "failed" \/ AbandonsWriter(c) \/ ClosesWriter(c, "all") \/ ClosesWriter(c, "unwound")
    BY <1>1, <1>3, <2>1 DEF Ends, Goto
  <2>7. QED
    BY <1>3, <2>4, <2>5, <2>6
<1>4. ASSUME NEW c \in Sends, Crash(c)
      PROVE  ObjectInv'
  <2>1. /\ \A p \in Objects : p # writer[c] => object'[p] = object[p]
        /\ \A p \in Objects : p = writer[c] => object'[p].st = "broken"
        /\ writer' = [writer EXCEPT ![c] = NoObject]
    BY <1>1, <1>4 DEF Crash, Vanish, Bodies
  <2>2. /\ pc'[c] = "dead" /\ read'[c] = "none"
        /\ reader' \in [Sends -> Objects \cup {NoObject}]
        /\ \A d \in Sends : d # c => reader'[d] = reader[d] /\ read'[d] = read[d] /\ pc'[d] = pc[d]
    BY <1>1, <1>4 DEF Crash, Vanish, Goto
  <2>3. QED
    BY <2>1, <2>2, EndObjectKeeps
<1>5. ASSUME NEW c \in Sends \ Simple, CoreRun(c)
      PROVE  ObjectInv'
  <2>1. UNCHANGED <<pc, read>>
    BY <1>5 DEF CoreRun
  <2>2. CASE Insert(c) \/ InsertUncoordinated(c)
    BY <2>1, <2>2, NewObjectKeeps DEF Insert, InsertUncoordinated
  <2>3. CASE CloseWriter(c) \/ Abandon(c)
    <3>1. /\ \A p \in Objects : p # writer[c] => object'[p] = object[p]
          /\ \A p \in Objects : p = writer[c] =>
               \/ object'[p].st = "broken"
               \/ object'[p].st = "complete" /\ object'[p].end \in {"all", "unwound"}
      BY <1>1, <2>3 DEF CloseWriter, Abandon, Completed, Broken, Bodies
    <3>2. writer' = [writer EXCEPT ![c] = NoObject] /\ UNCHANGED reader
      BY <2>3 DEF CloseWriter, Abandon
    <3>3. QED
      BY <1>1, <2>1, <3>1, <3>2, EndObjectKeeps
  <2>4. CASE Found(c) \/ Lookup(c)
    <3>1. /\ UNCHANGED <<object, writer>> /\ reader[c] = NoObject
          /\ \A d \in Sends : d # c => reader'[d] = reader[d]
      BY <1>1, <2>4 DEF Found, Lookup
    <3>2. QED
      BY <2>1, <3>1, ReadKeeps
  <2>5. CASE NewTransaction(c) \/ Update(c) \/ Cancel(c) \/ Close(c)
    BY <2>1, <2>5, ReadKeeps DEF NewTransaction, Update, Cancel, Close
  <2>6. QED
    BY <1>5, <2>2, <2>3, <2>4, <2>5 DEF CoreRun
<1>6. ASSUME NEW c \in Simple,
             \/ Get(c) \/ GetOrSet(c) \/ LookupFails(c) \/ CallSetFn(c)
             \/ SetFnFails(c) \/ InsertFails(c) \/ ReturnFound(c)
      PROVE  ObjectInv'
  <2>1. UNCHANGED <<object, writer, read>> /\ c \in Sends
    BY <1>6 DEF Get, GetOrSet, LookupFails, CallSetFn, SetFnFails, InsertFails, ReturnFound,
                Lookup, NewTransaction, Returns, Close, coreVars
  <2>2. /\ \A d \in Sends : d # c => reader'[d] = reader[d] /\ pc'[d] = pc[d]
        /\ reader[c] = NoObject
        /\ \/ pc'[c] \in {"returned", "failed"}
           \/ /\ pc[c] \in {"new", "looking"} /\ reader'[c] = reader[c]
              /\ pc'[c] \in {"looking", "setting"}
    BY <1>1, <1>6 DEF ObjectInv, Get, GetOrSet, LookupFails, CallSetFn, SetFnFails, InsertFails, ReturnFound,
                      Lookup, NewTransaction, Returns, Close, coreVars, Goto
  <2>3. QED
    BY <2>1, <2>2, ReadKeeps
<1>7. ASSUME NEW c \in Sends, ReadBody(c)
      PROVE  ObjectInv'
  <2>1. /\ UNCHANGED <<object, writer, reader, pc>> /\ reader[c] # NoObject
        /\ \A d \in Sends : d # c => read'[d] = read[d]
        /\ read'[c] = "whole" => object[reader[c]].st = "complete"
    BY <1>1, <1>7 DEF ReadBody, coreVars
  <2>2. QED
    BY <2>1, ReadKeeps
<1>8. CASE (Age /\ UNCHANGED <<pc, read>>) \/ UNCHANGED vars
  <2>1. UNCHANGED <<object, writer, reader, read, pc>>
    BY <1>8 DEF Age, vars, coreVars
  <2>2. QED
    BY <2>1 DEF ObjectInv
<1>9. QED
  BY <1>2, <1>3, <1>4, <1>5, <1>6, <1>7, <1>8 DEF Next, Run

\* The part of the type invariant that is not in ObligationInv.
DataTypeOK ==
  /\ entry \in CoreEntries
  /\ stream \in Sends \cup {None}
  /\ object \in [Objects -> Bodies]
  /\ current \in Objects \cup {NoObject}
  /\ (entry = "absent") = (current = NoObject)
  /\ writer \in [Sends -> Objects \cup {NoObject}]
  /\ reader \in [Sends -> Objects \cup {NoObject}]
  /\ read \in [Sends -> {"none", "whole", "error"}]

\* The type invariant, as what ObligationInv says and the rest.
LEMMA TypeSplit ==
  ObligationInv => (TypeOK <=> DataTypeOK /\ got \in [Sends -> Objects \cup {NoObject}])
BY DEF ObligationInv, DataTypeOK, TypeOK, CoreTypeOK, HostTypeOK, Lookups, CoreEntries, Entries

\* What the operations of the Core API do to entry and objects.
LEMMA DataStep ==
  ASSUME DataTypeOK, got \in [Sends -> Objects \cup {NoObject}], [Next]_vars
  PROVE  DataTypeOK'
<1> USE NoneAssumption, ObjectsAssumption, SimpleAssumption
<1>1. ASSUME NEW c \in Sends, Insert(c) \/ InsertUncoordinated(c), UNCHANGED read
      PROVE  DataTypeOK'
  BY <1>1 DEF Insert, InsertUncoordinated, TransactionInsert, NewObject, DataTypeOK, Bodies, CoreEntries
<1>2. ASSUME NEW c \in Sends, NEW end \in {"all", "unwound"}, Broken(c) \/ Completed(c, end),
             writer' = [writer EXCEPT ![c] = NoObject],
             \/ UNCHANGED reader
             \/ reader' = [reader EXCEPT ![c] = writer[c]],
             UNCHANGED read
      PROVE  DataTypeOK'
  <2>1. object \in [Objects -> Bodies]
    BY DEF DataTypeOK
  <2>2. object' \in [Objects -> Bodies]
    <3>1. CASE Broken(c)
      BY <2>1, <3>1 DEF Broken, Bodies
    <3>2. CASE Completed(c, end)
      <4>1. [st |-> "complete", end |-> end] \in Bodies
        BY DEF Bodies
      <4>2. QED
        BY <2>1, <3>2, <4>1 DEF Completed
    <3>3. QED
      BY <1>2, <3>1, <3>2
  <2>3. /\ entry' \in CoreEntries
        /\ stream' \in Sends \cup {None}
        /\ current' \in Objects \cup {NoObject}
        /\ (entry' = "absent") = (current' = NoObject)
    <3>1. CASE Broken(c)
      BY <3>1 DEF Broken, DataTypeOK, CoreEntries
    <3>2. CASE Completed(c, end)
      BY <3>2 DEF Completed, DataTypeOK
    <3>3. QED
      BY <1>2, <3>1, <3>2
  <2>4. /\ writer' \in [Sends -> Objects \cup {NoObject}]
        /\ reader' \in [Sends -> Objects \cup {NoObject}]
        /\ read' \in [Sends -> {"none", "whole", "error"}]
    BY <1>2 DEF DataTypeOK
  <2>5. QED
    BY <2>2, <2>3, <2>4 DEF DataTypeOK
<1>3. ASSUME NEW c \in Sends, UNCHANGED <<entry, stream, object, current, writer, read>>,
             \/ UNCHANGED reader
             \/ reader' = [reader EXCEPT ![c] = got[c]]
             \/ reader' = [reader EXCEPT ![c] = current]
      PROVE  DataTypeOK'
  BY <1>3 DEF DataTypeOK
<1>4. ASSUME NEW c \in Sends, Crash(c)
      PROVE  DataTypeOK'
  <2>1. object' \in [Objects -> Bodies]
    BY <1>4 DEF Crash, Vanish, DataTypeOK, Bodies
  <2>2. QED
    BY <1>4, <2>1 DEF Crash, Vanish, DropHandles, DataTypeOK, CoreEntries
<1>5. ASSUME NEW c \in Sends, ReadBody(c)
      PROVE  DataTypeOK'
  BY <1>5 DEF ReadBody, DataTypeOK, hostVars, coreVars
<1>6. CASE Age /\ UNCHANGED <<pc, read>>
  BY <1>6 DEF Age, Expire, DataTypeOK, CoreEntries
<1>7. CASE UNCHANGED vars
  BY <1>7 DEF vars, hostVars, coreVars, DataTypeOK
<1>8. ASSUME NEW c \in Sends \ Simple, CoreRun(c)
      PROVE  DataTypeOK'
  <2>1. CASE Update(c)
    BY <1>8, <2>1 DEF CoreRun, Update, TransactionUpdate, DataTypeOK, CoreEntries
  <2>2. CASE CloseWriter(c) \/ Abandon(c)
    BY <1>2, <1>8, <2>2 DEF CoreRun, CloseWriter, Abandon
  <2>3. CASE Insert(c) \/ InsertUncoordinated(c)
    BY <1>1, <1>8, <2>3 DEF CoreRun
  <2>4. CASE NewTransaction(c) \/ Found(c) \/ Cancel(c) \/ Close(c) \/ Lookup(c)
    BY <1>3, <1>8, <2>4
       DEF CoreRun, NewTransaction, TransactionLookup, Found, Cancel, TransactionAbandon, Close,
           TransactionClose, Lookup, hostVars
  <2>5. QED
    BY <1>8, <2>1, <2>2, <2>3, <2>4 DEF CoreRun
<1>9. ASSUME NEW c \in Simple, Get(c) \/ GetOrSet(c) \/ Run(c)
      PROVE  DataTypeOK'
  <2>1. c \in Sends
    OBVIOUS
  <2>2. CASE SetFnReturns(c)
    BY <1>1, <2>1, <2>2 DEF SetFnReturns
  <2>3. CASE StreamBackFails(c) \/ CopyFails(c) \/ CopyPanics(c) \/ CopyDone(c)
    <3>1. CASE LeavesWriter(c) /\ UNCHANGED <<reader, read>>
      <4>1. object' \in [Objects -> Bodies]
        <5>1. ASSUME NEW p \in Objects PROVE [object[p] EXCEPT !.end = "refused"] \in Bodies
          BY <5>1 DEF DataTypeOK, Bodies
        <5>2. object' = [p \in Objects |-> IF p = writer[c] THEN [object[p] EXCEPT !.end = "refused"] ELSE object[p]]
          BY <3>1 DEF LeavesWriter, DataTypeOK
        <5>3. QED
          BY <5>1, <5>2 DEF DataTypeOK
      <4>2. QED
        BY <3>1, <4>1 DEF LeavesWriter, DataTypeOK
    <3>2. ASSUME NEW end \in {"all", "unwound"}, AbandonsWriter(c) \/ ClosesWriter(c, end),
                 UNCHANGED reader \/ reader' = [reader EXCEPT ![c] = writer[c]],
                 UNCHANGED read
          PROVE  DataTypeOK'
      BY <1>2, <2>1, <3>2 DEF AbandonsWriter, ClosesWriter
    <3>3. QED
      BY <2>3, <3>1, <3>2 DEF StreamBackFails, CopyFails, CopyPanics, CopyDone, Ends
  <2>4. CASE Get(c) \/ GetOrSet(c) \/ CallSetFn(c) \/ ReturnFound(c)
    BY <1>3, <2>1, <2>4
       DEF Get, Lookup, GetOrSet, NewTransaction, TransactionLookup, CallSetFn, ReturnFound,
           hostVars, coreVars
  <2>5. CASE LookupFails(c) \/ SetFnFails(c) \/ InsertFails(c)
    BY <1>3, <2>1, <2>5 DEF LookupFails, SetFnFails, InsertFails, Returns, Close, TransactionClose
  <2>6. QED
    BY <1>9, <2>2, <2>3, <2>4, <2>5 DEF Run
<1>10. QED
  BY <1>4, <1>5, <1>6, <1>7, <1>8, <1>9 DEF Next

\* What a transaction has found is an object or none: only Deliver changes it.
LEMMA GotStep ==
  ASSUME DataTypeOK, got \in [Sends -> Objects \cup {NoObject}], [Next]_vars, DataTypeOK'
  PROVE  got' \in [Sends -> Objects \cup {NoObject}]
<1>1. Deliver \/ UNCHANGED got => got' \in [Sends -> Objects \cup {NoObject}]
  BY DEF Deliver, DataTypeOK
<1>2. Deliver \/ UNCHANGED got
  BY DEF Next, vars, coreVars, Get, GetOrSet, Run, CoreRun, ReadBody, Crash, Age, Vanish,
         Lookup, NewTransaction, LookupFails, CallSetFn, SetFnFails, InsertFails, SetFnReturns,
         StreamBackFails, CopyFails, CopyPanics, CopyDone, ReturnFound, Returns, Ends, Close, Insert, Update,
         Cancel, Found, CloseWriter, Abandon, InsertUncoordinated
<1>3. QED
  BY <1>1, <1>2

\* The inductive invariant: obligations, users and objects agree in every
\* state GetOrSet and the Core API can reach.
THEOREM Invariance == Spec => []IInv
<1>1. IInv /\ [Next]_vars => IInv'
  <2> SUFFICES ASSUME IInv, [Next]_vars PROVE IInv'
    OBVIOUS
  <2>1. ObligationInv' /\ ObjectInv'
    BY ObligationStep, ObjectStep DEF IInv
  <2>2. DataTypeOK' /\ got' \in [Sends -> Objects \cup {NoObject}]
    BY TypeSplit, DataStep, GotStep DEF IInv
  <2>3. (ObligationInv => (TypeOK <=> DataTypeOK /\ got \in [Sends -> Objects \cup {NoObject}]))'
    BY TypeSplit, PTL
  <2>4. QED
    BY <2>1, <2>2, <2>3 DEF IInv
<1>2. QED
  BY <1>1, InitInv, PTL DEF Spec

\* Type correctness, with an entry exactly when there is an object for it.
THEOREM TypeCorrect == Spec => []TypeOK
<1>1. IInv => TypeOK
  BY DEF IInv
<1>2. QED
  BY <1>1, Invariance, PTL

\* GetOrSet runs setFn only with the obligation, so that two users never run
\* theirs together, whatever users of the Core API do to the key.
THEOREM SetterSafe == Spec => []OneSetter
<1>1. IInv => OneSetter
  BY SimpleAssumption DEF IInv, ObligationInv, UserInv, OneSetter
<1>2. QED
  BY <1>1, Invariance, PTL

\* Every return of GetOrSet has given the obligation back.
THEOREM ReturnSafe == Spec => []ObligationInUse
<1>1. IInv => ObligationInUse
  BY SimpleAssumption DEF IInv, ObligationInv, HolderTold, UserInv, PCs, ObligationInUse
<1>2. QED
  BY <1>1, Invariance, PTL

\* An object whose copy failed is never read to its end without an error, but for
\* one whose reader panicked or whose Abandon failed.
THEOREM ReadSafe == Spec => []NoTruncatedRead
<1>1. IInv => NoTruncatedRead
  BY DEF IInv, TypeOK, CoreTypeOK, ObjectInv, NoTruncatedRead
<1>2. QED
  BY <1>1, Invariance, PTL

(***************************************************************************)
(* The refinement: the roles of the users are phases of request            *)
(* collapsing.                                                             *)
(***************************************************************************)
roles == [c \in Sends |-> Role(c)]

PromiseStep == Promise!Next \/ UNCHANGED <<holder, roles>>

\* Whether a user has not begun: a call of GetOrSet, or a handle of the Core API.
NotBegun(c) == IF c \in Simple THEN pc[c] = "new" ELSE lookup[c].st = "none"

\* The invariant makes the host agree with the role of a user.
LEMMA RoleFacts ==
  ObligationInv => \A c \in Sends :
                     /\ Role(c) \in {"idle", "waiting", "leading", "over"}
                     /\ Role(c) = "leading" <=> holder = c
                     /\ Role(c) = "waiting" <=> lookup[c].st = "waiting"
                     /\ Role(c) = "idle" <=> NotBegun(c)
<1> SUFFICES ASSUME ObligationInv, NEW c \in Sends
             PROVE  /\ Role(c) \in {"idle", "waiting", "leading", "over"}
                    /\ Role(c) = "leading" <=> holder = c
                    /\ Role(c) = "waiting" <=> lookup[c].st = "waiting"
                    /\ Role(c) = "idle" <=> NotBegun(c)
  OBVIOUS
<1>1. /\ lookup[c].st \in {"none", "waiting", "open", "closed"}
      /\ pc[c] \in PCs
      /\ UserInv(c)
      /\ holder = c => lookup[c].st = "open" /\ "must" \in lookup[c].flags
  BY DEF ObligationInv, Lookups, HolderTold
<1>2. QED
  BY <1>1 DEF UserInv, Role, NotBegun, MustInsertOrUpdate, PCs

\* The same after a step that keeps the invariant.
LEMMA RolesNext ==
  ObligationInv' => (\A c \in Sends :
                       /\ Role(c) \in {"idle", "waiting", "leading", "over"}
                       /\ Role(c) = "leading" <=> holder = c
                       /\ Role(c) = "waiting" <=> lookup[c].st = "waiting"
                       /\ Role(c) = "idle" <=> NotBegun(c))'
BY RoleFacts, PTL

\* A user gives up, by a close, a cancel or a crash, what it may be held to.
LEMMA AlonePromise ==
  ASSUME ObligationInv, ObligationInv', NEW c \in Sends, NEW l \in Lookups, HandOver({c}, l),
         \A d \in Sends : d # c => l[d] = lookup[d] /\ pc'[d] = pc[d],
         l[c].st # "waiting", NotBegun(c)' => NotBegun(c)
  PROVE  PromiseStep
<1> DEFINE left == IF NotBegun(c)' THEN {} ELSE {c}
<1> USE NoneAssumption
<1>1. /\ holder \in Sends \cup {None}
      /\ holder' \in Sends \cup {None}
      /\ holder # c => lookup' = l /\ holder' = holder
      /\ holder = c =>
              \/ holder' = None /\ lookup' = l /\ \A w \in Sends : l[w].st # "waiting"
              \/ /\ holder' \in Sends
                 /\ l[holder'].st = "waiting"
                 /\ lookup'[holder'].st = "open"
                 /\ \A w \in Sends : w # holder' => lookup'[w] = l[w]
  BY HandOverAlone DEF ObligationInv
<1>2. /\ left \in SUBSET Sends /\ left \subseteq {c}
      /\ holder = c => left = {c}
      /\ Role(c)' = IF c \in left THEN "over" ELSE Role(c)
  BY <1>1, RoleFacts, RolesNext
<1>3. ASSUME NEW d \in Sends, d # c, holder = c => d # holder'
      PROVE  Role(d)' = Role(d)
  <2>1. pc'[d] = pc[d] /\ lookup'[d] = lookup[d] /\ (holder' = d <=> holder = d)
    BY <1>1, <1>3
  <2>2. QED
    BY <2>1 DEF Role, MustInsertOrUpdate
<1> HIDE DEF left
<1>4. CASE holder # c
  <2>1. roles' = [d \in Sends |-> IF d \in left THEN "over" ELSE roles[d]]
    BY <1>2, <1>3, <1>4 DEF roles
  <2>2. Promise!Leave(left)
    BY <1>1, <1>2, <1>4, <2>1 DEF Promise!Leave, Promise!Left, roles
  <2>3. QED
    BY <1>2, <2>2 DEF PromiseStep, Promise!Next
<1>5. CASE holder = c /\ holder' = None
  <2>1. roles' = [d \in Sends |-> IF d \in left THEN "over" ELSE roles[d]]
    BY <1>2, <1>3, <1>5 DEF roles
  <2>2. \A d \in Sends : Role(d) # "waiting"
    BY <1>1, <1>5, RoleFacts
  <2>3. Promise!Dissolve(left)
    BY <1>2, <1>5, <2>1, <2>2 DEF Promise!Dissolve, Promise!Left, Promise!Waiting, roles
  <2>4. QED
    BY <1>2, <2>3 DEF PromiseStep, Promise!Next
<1>6. CASE holder = c /\ holder' # None
  <2>1. PICK w \in Sends : w = holder' /\ w # c /\ lookup[w].st = "waiting"
    BY <1>1, <1>6
  <2>2. Role(w) = "waiting" /\ Role(w)' = "leading"
    BY <2>1, RoleFacts, RolesNext
  <2>3. roles' = [[d \in Sends |-> IF d \in left THEN "over" ELSE roles[d]] EXCEPT ![w] = "leading"]
    BY <1>2, <1>3, <1>6, <2>1, <2>2 DEF roles
  <2>4. Promise!HandOn(left, w)
    BY <1>2, <1>6, <2>1, <2>2, <2>3 DEF Promise!HandOn, Promise!Left, Promise!Waiting, roles
  <2>5. QED
    BY <1>2, <2>1, <2>4 DEF PromiseStep, Promise!Next
<1>7. QED
  BY <1>4, <1>5, <1>6

\* An insert or an update, by whoever is held to it, is an answer to everybody.
LEMMA FulfilPromise ==
  ASSUME ObligationInv, ObligationInv', NEW c \in Sends, holder = c,
         CompleteCollapse(EntryFlags("fresh"), lookup),
         \A d \in Sends : d # c => pc'[d] = pc[d],
         pc'[c] # "new" \/ c \notin Simple
  PROVE  PromiseStep
<1> USE NoneAssumption
<1>1. /\ holder' = None
      /\ \A w \in Sends :
              IF lookup[w].st = "waiting"
                THEN lookup'[w].st = "open"
                ELSE lookup'[w] = lookup[w]
  BY EntryFlagsType, CompleteCollapseEffect DEF ObligationInv
<1>2. Role(c) = "leading" /\ Role(c)' = "over"
  <2>1. lookup[c].st = "open"
    BY DEF ObligationInv, HolderTold
  <2>2. QED
    BY <1>1, <2>1, RoleFacts, RolesNext DEF NotBegun
<1>3. \A d \in Sends : d # c => Role(d)' = IF Role(d) = "waiting" THEN "over" ELSE Role(d)
  <2> SUFFICES ASSUME NEW d \in Sends, d # c
               PROVE  Role(d)' = IF Role(d) = "waiting" THEN "over" ELSE Role(d)
    OBVIOUS
  <2>1. NotBegun(d)' <=> NotBegun(d)
    BY <1>1 DEF NotBegun
  <2>2. QED
    BY <1>1, <2>1, RoleFacts, RolesNext
<1>4. roles' = [d \in Sends |-> IF d \in {e \in Sends : roles[e] = "waiting"} \cup {c} THEN "over" ELSE roles[d]]
  BY <1>2, <1>3 DEF roles
<1>5. Promise!Fulfil
  BY <1>1, <1>2, <1>4 DEF Promise!Fulfil, Promise!Waiting, roles
<1>6. QED
  BY <1>5 DEF PromiseStep, Promise!Next

\* A lookup leads, joins or is answered.
LEMMA LookupPromise ==
  ASSUME ObligationInv, ObligationInv', NEW c \in Sends, TransactionLookup(c),
         \A d \in Sends : d # c => pc'[d] = pc[d],
         c \in Simple => pc[c] = "new" /\ pc'[c] # "new"
  PROVE  PromiseStep
<1> USE NoneAssumption
<1>1. /\ \A d \in Sends : d # c => lookup'[d] = lookup[d]
      /\ lookup[c].st = "none" /\ lookup'[c].st # "none"
      /\ \/ holder = None /\ holder' = c /\ lookup'[c].st = "open"
         \/ holder' = holder /\ holder # None /\ lookup'[c].st = "waiting"
         \/ holder' = holder /\ lookup'[c].st = "open"
  BY DEF TransactionLookup, ObligationInv, Lookups, Open
<1>2. Role(c) = "idle" /\ Role(c)' # "idle" /\ holder # c
  BY <1>1, RoleFacts, RolesNext DEF NotBegun
<1>3. ASSUME NEW d \in Sends, d # c
      PROVE  Role(d)' = Role(d)
  <2>1. pc'[d] = pc[d] /\ lookup'[d] = lookup[d] /\ (holder' = d <=> holder = d)
    BY <1>1, <1>3
  <2>2. QED
    BY <2>1 DEF Role, MustInsertOrUpdate
<1>4. CASE holder = None /\ holder' = c
  <2>1. roles' = [roles EXCEPT ![c] = "leading"]
    BY <1>3, <1>4, RolesNext DEF roles
  <2>2. Promise!Lead(c)
    BY <1>2, <1>4, <2>1 DEF Promise!Lead, roles
  <2>3. QED
    BY <2>2 DEF PromiseStep, Promise!Next
<1>5. CASE holder' = holder /\ holder # None /\ lookup'[c].st = "waiting"
  <2>1. roles' = [roles EXCEPT ![c] = "waiting"]
    BY <1>3, <1>5, RolesNext DEF roles
  <2>2. Promise!Join(c)
    BY <1>2, <1>5, <2>1 DEF Promise!Join, roles
  <2>3. QED
    BY <2>2 DEF PromiseStep, Promise!Next
<1>6. CASE holder' = holder /\ lookup'[c].st = "open"
  <2>1. Role(c)' = "over"
    BY <1>2, <1>6, RolesNext
  <2>2. roles' = [d \in Sends |-> IF d \in {c} THEN "over" ELSE roles[d]]
    BY <1>3, <2>1 DEF roles
  <2>3. Promise!Leave({c})
    BY <1>2, <1>6, <2>2 DEF Promise!Leave, Promise!Left, roles
  <2>4. QED
    BY <2>3 DEF PromiseStep, Promise!Next
<1>7. QED
  BY <1>1, <1>4, <1>5, <1>6

\* Steps that leave the transactions alone, and begin no call.
LEMMA SameRoles ==
  ASSUME ObligationInv, ObligationInv', UNCHANGED <<holder, lookup>>,
         \A c \in Simple : pc'[c] = "new" <=> pc[c] = "new"
  PROVE  PromiseStep
<1>1. \A c \in Sends : NotBegun(c)' <=> NotBegun(c)
  BY DEF NotBegun
<1>2. \A c \in Sends : Role(c)' = Role(c)
  BY <1>1, RoleFacts, RolesNext
<1>3. QED
  BY <1>2 DEF PromiseStep, roles

\* Every step is one of request collapsing, or none.
LEMMA PromiseNext ==
  ASSUME ObligationInv, ObligationInv', [Next]_vars
  PROVE  PromiseStep
<1> USE SimpleAssumption
<1>1. /\ lookup \in Lookups /\ pc \in [Sends -> PCs]
      /\ \A c \in Sends : /\ Closed({c}) \in Lookups
                          /\ \A d \in Sends : d # c => Closed({c})[d] = lookup[d]
                          /\ Closed({c})[c].st \in {"none", "closed"}
                          /\ lookup[c].st # "none" => Closed({c})[c].st = "closed"
  <2>1. lookup \in Lookups /\ pc \in [Sends -> PCs]
    BY DEF ObligationInv
  <2>2. ASSUME NEW c \in Sends
        PROVE  lookup[c].st # "none" => Closed({c})[c].st = "closed"
    BY DEF Closed
  <2>3. ASSUME NEW c \in Sends
        PROVE  /\ Closed({c}) \in Lookups
               /\ \A d \in Sends : d # c => Closed({c})[d] = lookup[d]
               /\ Closed({c})[c].st \in {"none", "closed"}
    BY <2>1, ClosedEffect
  <2>4. QED
    BY <2>1, <2>2, <2>3
<1>2. ASSUME NEW c \in Sends, HandOver({c}, Closed({c})),
             \A d \in Sends : d # c => pc'[d] = pc[d],
             c \in Simple => pc'[c] # "new",
             c \notin Simple => (NotBegun(c)' => NotBegun(c))
      PROVE  PromiseStep
  BY <1>1, <1>2, AlonePromise DEF NotBegun
<1>3. ASSUME NEW c \in Sends, HandOver({c}, Closed({c})), c \notin Simple
      PROVE  NotBegun(c)' => NotBegun(c)
  <2>1. lookup'[c] = Closed({c})[c]
    BY <1>1, <1>3, HandOverAlone DEF ObligationInv
  <2>2. QED
    BY <1>1, <1>3, <2>1 DEF NotBegun
<1>4. ASSUME NEW c \in Simple, Get(c) \/ CallSetFn(c)
      PROVE  PromiseStep
  <2>1. CASE Get(c)
    <3>1. /\ UNCHANGED <<holder, lookup>> /\ pc[c] = "new" /\ pc'[c] # "new"
          /\ \A d \in Sends : d # c => pc'[d] = pc[d]
      BY <1>1, <2>1 DEF Get, Lookup, Goto, hostVars
    <3>2. holder # c /\ lookup[c].st = "none"
      BY <3>1, RoleFacts DEF NotBegun, ObligationInv, UserInv
    <3>3. HandOver({c}, lookup)
      BY <3>1, <3>2 DEF HandOver
    <3>4. QED
      BY <1>1, <3>1, <3>2, <3>3, AlonePromise DEF NotBegun
  <2>2. CASE CallSetFn(c)
    BY <1>1, <2>2, SameRoles DEF CallSetFn, Goto, hostVars
  <2>3. QED
    BY <1>4, <2>1, <2>2
<1>5. ASSUME NEW c \in Simple, GetOrSet(c)
      PROVE  PromiseStep
  <2>1. /\ TransactionLookup(c) /\ pc[c] = "new" /\ pc'[c] # "new"
        /\ \A d \in Sends : d # c => pc'[d] = pc[d]
    BY <1>1, <1>5 DEF GetOrSet, NewTransaction, Goto
  <2>2. QED
    BY <2>1, LookupPromise
<1>6. ASSUME NEW c \in Simple, SetFnReturns(c)
      PROVE  PromiseStep
  <2>1. /\ holder = c /\ CompleteCollapse(EntryFlags("fresh"), lookup) /\ pc'[c] # "new"
        /\ \A d \in Sends : d # c => pc'[d] = pc[d]
    BY <1>1, <1>6 DEF SetFnReturns, Insert, TransactionInsert, Goto
  <2>2. QED
    BY <2>1, FulfilPromise
<1>7. ASSUME NEW c \in Simple,
             \/ LookupFails(c) \/ SetFnFails(c) \/ InsertFails(c)
             \/ StreamBackFails(c) \/ CopyFails(c) \/ CopyPanics(c) \/ CopyDone(c) \/ ReturnFound(c)
      PROVE  PromiseStep
  <2>1. \E label \in {"returned", "failed"} : Goto(c, label)
    BY <1>7 DEF LookupFails, SetFnFails, InsertFails, StreamBackFails, CopyFails, CopyPanics, CopyDone,
                ReturnFound, Returns, Ends
  <2>2. HandOver({c}, Closed({c}))
    <3>1. CASE LookupFails(c) \/ SetFnFails(c) \/ InsertFails(c)
      BY <3>1 DEF LookupFails, SetFnFails, InsertFails, Returns, Close, TransactionClose
    <3>2. CASE StreamBackFails(c) \/ CopyFails(c) \/ CopyPanics(c) \/ CopyDone(c) \/ ReturnFound(c)
      <4>1. lookup' = Closed({c}) /\ UNCHANGED holder
        BY <3>2 DEF StreamBackFails, CopyFails, CopyPanics, CopyDone, ReturnFound, Ends
      <4>2. holder # c
        BY <3>2 DEF StreamBackFails, CopyFails, CopyPanics, CopyDone, ReturnFound, MustInsertOrUpdate,
                    ObligationInv, UserInv, HolderTold
      <4>3. QED
        BY <4>1, <4>2 DEF HandOver
    <3>3. QED
      BY <1>7, <3>1, <3>2
  <2>3. pc'[c] # "new" /\ \A d \in Sends : d # c => pc'[d] = pc[d]
    BY <1>1, <2>1 DEF Goto
  <2>4. QED
    BY <1>2, <2>2, <2>3
<1>8. ASSUME NEW c \in Sends \ Simple, CoreRun(c)
      PROVE  PromiseStep
  <2>1. UNCHANGED pc
    BY <1>8 DEF CoreRun
  <2>2. CASE NewTransaction(c)
    BY <2>1, <2>2, LookupPromise DEF NewTransaction
  <2>3. CASE Insert(c) \/ Update(c)
    BY <2>1, <2>3, FulfilPromise DEF Insert, Update, TransactionInsert, TransactionUpdate
  <2>4. CASE Cancel(c)
    <3>1. HandOver({c}, lookup) /\ holder = c
      BY <2>4 DEF Cancel, TransactionAbandon
    <3>2. lookup[c].st = "open" /\ lookup'[c] = lookup[c]
      BY <1>1, <3>1, HandOverAlone DEF ObligationInv, HolderTold
    <3>3. QED
      BY <1>1, <2>1, <3>1, <3>2, AlonePromise DEF NotBegun
  <2>5. CASE Close(c)
    BY <1>2, <1>3, <2>1, <2>5 DEF Close, TransactionClose
  <2>6. CASE Found(c) \/ CloseWriter(c) \/ Abandon(c) \/ Lookup(c) \/ InsertUncoordinated(c)
    BY <2>1, <2>6, SameRoles DEF Found, CloseWriter, Abandon, Lookup, InsertUncoordinated, hostVars
  <2>7. QED
    BY <1>8, <2>2, <2>3, <2>4, <2>5, <2>6 DEF CoreRun
<1>9. ASSUME NEW c \in Sends, Crash(c)
      PROVE  PromiseStep
  <2>1. HandOver({c}, Closed({c})) /\ pc'[c] # "new" /\ \A d \in Sends : d # c => pc'[d] = pc[d]
    BY <1>1, <1>9 DEF Crash, Vanish, DropHandles, Goto
  <2>2. QED
    BY <1>2, <1>3, <2>1
<1>10. CASE (\E c \in Sends : ReadBody(c)) \/ (Age /\ UNCHANGED <<pc, read>>) \/ UNCHANGED vars
  BY <1>10, SameRoles DEF ReadBody, Age, Expire, vars, hostVars
<1>11. QED
  BY <1>4, <1>5, <1>6, <1>7, <1>8, <1>9, <1>10 DEF Next, Run

\* In the very step in which the code of GetOrSet stops working for a value, by a
\* return, a panic or a crash, those who wait have it, or one of them is told to
\* provide it: what request collapsing promises, whatever users of the Core API do.
THEOREM PromiseKept == Spec => KeepsPromise
<1>1. Init => Promise!Init
  <2> SUFFICES ASSUME Init PROVE holder = None /\ roles = [c \in Sends |-> "idle"]
    BY DEF Promise!Init, roles
  <2>1. \A c \in Sends : Role(c) = "idle"
    BY DEF Init, CoreInit, HostInit, NoHandle, Role
  <2>2. QED
    BY <2>1 DEF Init, CoreInit, HostInit, roles
<1>2. IInv /\ IInv' /\ [Next]_vars => [Promise!Next]_(Promise!collapsingVars)
  <2> SUFFICES ASSUME ObligationInv, ObligationInv', [Next]_vars PROVE PromiseStep
    BY DEF IInv, PromiseStep, Promise!collapsingVars, roles
  <2>1. QED
    BY PromiseNext
<1>3. QED
  BY <1>1, <1>2, Invariance, PTL DEF Spec, KeepsPromise, Promise!Spec
=============================================================================
