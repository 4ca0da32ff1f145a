------------------------------ MODULE KVStore -------------------------------
(***************************************************************************)
(* The KV store (kvstore/kvstore.go): clients that look entries up, insert *)
(* and delete them, in one store the host keeps for all sandboxes, and a   *)
(* ListIter that pages through its keys while they do.  An operation is a  *)
(* hostcall that starts it, the host's work, and a hostcall that waits.    *)
(***************************************************************************)
EXTENDS Integers, Sequences, FiniteSets, SequencesExt

CONSTANTS Clients,    \* goroutines that read and write, of any sandbox
          MaxKey,     \* bound: the keys are 1 .. MaxKey, in the order the host lists them
          Prefixed,   \* the keys the listing's prefix selects
          Written,    \* bound: the keys the clients write
          Limit,      \* the keys of a page
          MaxOps,     \* bound: operations of a client
          MaxCalls,   \* bound: calls of Next
          Absent      \* no entry, no cursor, nothing known

Keys == 1 .. MaxKey

\* What a client adds to a value: itself and the number of its operation.
Tokens == Clients \X (1 .. MaxOps)

ASSUME KeyAssumption == MaxKey \in Nat /\ Prefixed \subseteq Keys /\ Written \subseteq Keys
ASSUME BoundAssumption == Limit \in Nat \ {0} /\ MaxOps \in Nat /\ MaxCalls \in Nat
Entries == [value : Seq(Tokens), generation : Nat]

ASSUME AbsentAssumption == Absent \notin Int /\ Absent \notin Entries

VARIABLES store,      \* store[k]: the entry of key k, a value and its generation
          clock,      \* the last generation the host gave
          op,         \* op[c]: the operation client c is in, or the one it has just finished
          count,      \* count[c]: its operations so far
          known,      \* known[c]: the Entry its last Lookup returned, as it has read it
          confirmed,  \* ghost: what Insert has said it stored
          replaced,   \* ghost: what a Delete or an unconditional overwrite took away
          page,       \* the ListIter's page and its error
          listing,    \* where its Next is
          listed,     \* ghost: the keys of the pages it has returned
          through,    \* ghost: the keys there from the first call of Next on
          calls       \* ghost: calls of Next so far

clientVars == <<op, count, known, confirmed>>
listVars == <<page, listing, listed, calls>>
vars == <<store, clock, replaced, through, clientVars, listVars>>

Entry(v, g) == [value |-> v, generation |-> g]
There == {k \in Keys : store[k] # Absent}
ValueOf(e) == IF e = Absent THEN <<>> ELSE e.value

\* An operation on key k, as it starts (wanted, whole and done are ghosts: the
\* condition of the caller, whether it has read the whole of what it writes
\* again, and whether the host has done it).
Operation(kind, k) ==
  [kind |-> kind, key |-> k, mode |-> "overwrite", match |-> 0, wanted |-> 0, value |-> <<>>,
   whole |-> TRUE, entry |-> Absent, phase |-> "pending", result |-> "ok", done |-> FALSE]

\* All that is left of it when it has returned.
Finished(o, r) == [Operation(o.kind, o.key) EXCEPT !.phase = "returned", !.result = r, !.done = o.done]

Idle == Finished(Operation("idle", 0), "ok")

Init ==
  /\ store \in [Keys -> {Absent, Entry(<<>>, 1)}]
  /\ Keys \ Prefixed \subseteq There   \* bound: these are never listed
  /\ clock = 1
  /\ op = [c \in Clients |-> Idle]
  /\ count = [c \in Clients |-> 0]
  /\ known = [c \in Clients |-> Absent]
  /\ confirmed = {} /\ replaced = {}
  /\ page = [data |-> <<>>, cursor |-> Absent, limit |-> Limit, prefix |-> Prefixed, err |-> "ok"]
  /\ listing = "ready" /\ listed = <<>> /\ through = There /\ calls = 0
-----------------------------------------------------------------------------
(***************************************************************************)
(* Errors.  The status of a hostcall, or the KVError of a wait, becomes an *)
(* error of the package.                                                   *)
(***************************************************************************)
Statuses == {"badf", "inval", "other_status"}
KVErrors == {"uninitialized", "bad_request", "not_found", "precondition_failed",
             "payload_too_large", "internal_error", "too_many_requests"}

\* Mutant: the table is off by one.
MapOffByOne(e) == CASE e = "badf" -> "ErrStoreNotFound"
                    [] e = "inval" -> "ErrInvalidKey"
                    [] e = "not_found" -> "ErrKeyNotFound"
                    [] e = "internal_error" -> "too_many_requests"
                    [] e \in {"uninitialized", "other_status"} -> "ErrUnexpected"
                    [] OTHER -> e

mapFastlyErr(e) == CASE e = "badf" -> "ErrStoreNotFound"
                     [] e = "inval" -> "ErrInvalidKey"
                     [] e = "not_found" -> "ErrKeyNotFound"
                     [] e \in {"uninitialized", "internal_error", "other_status"} -> "ErrUnexpected"
                     [] OTHER -> e

\* What the caller is told of the host's answer.
Told(r) == IF r \in KVErrors THEN mapFastlyErr(r) ELSE r

\* The errors that a status of the wait may have become.
Unclear == {"ErrUnexpected", "ErrStoreNotFound", "ErrInvalidKey"}
-----------------------------------------------------------------------------
(***************************************************************************)
(* What the host does with an operation: an outcome and a new entry.       *)
(***************************************************************************)
NewGeneration == clock + 1

Joined(o, e) == CASE o.mode = "append" -> ValueOf(e) \o o.value
                  [] o.mode = "prepend" -> o.value \o ValueOf(e)
                  [] OTHER -> o.value

\* The preconditions of an insert.
Allowed(o, e) ==
  /\ o.mode = "add" => e = Absent
  /\ o.match # 0 => e # Absent /\ e.generation = o.match

\* What the value had and the new one has not, if the caller did not ask for a
\* condition, or had not read it.
Taken(o, e, v) ==
  IF o.kind = "delete" \/ (o.mode = "overwrite" /\ (o.wanted = 0 \/ ~o.whole))
  THEN ToSet(ValueOf(e)) \ ToSet(v)
  ELSE {}

Answers(c, r) == op' = [op EXCEPT ![c].phase = "answered", ![c].result = r]

Changes(c, e, v) ==
  LET k == op[c].key
  IN /\ store' = [store EXCEPT ![k] = e]
     /\ op' = [op EXCEPT ![c].phase = "answered", ![c].done = TRUE]
     /\ replaced' = replaced \cup Taken(op[c], store[k], v)
     /\ through' = IF e = Absent THEN through \ {k} ELSE through

\* An operation is done as a whole; one that fails inside may have been done.
HostChanges(c) ==
  /\ op[c].kind \in {"insert", "delete"}
  /\ op[c].phase = "pending"
  /\ \/ /\ op[c].kind = "insert" /\ Allowed(op[c], store[op[c].key])
        /\ LET v == Joined(op[c], store[op[c].key]) IN Changes(c, Entry(v, NewGeneration), v)
        /\ clock' = NewGeneration
     \/ /\ op[c].kind = "delete" /\ store[op[c].key] # Absent
        /\ Changes(c, Absent, <<>>)
        /\ UNCHANGED clock
  /\ UNCHANGED <<count, known, confirmed, listVars>>

HostLosesAnswer(c) ==
  /\ op[c].kind \in {"insert", "delete"}
  /\ op[c].phase = "answered" /\ op[c].done /\ op[c].result = "ok"
  /\ Answers(c, "internal_error")
  /\ UNCHANGED <<store, clock, replaced, through, count, known, confirmed, listVars>>

HostReads(c) ==
  /\ op[c].kind = "lookup"
  /\ op[c].phase = "pending"
  /\ IF store[op[c].key] = Absent
     THEN Answers(c, "not_found")
     ELSE op' = [op EXCEPT ![c].phase = "answered", ![c].entry = store[op[c].key]]
  /\ UNCHANGED <<store, clock, replaced, through, count, known, confirmed, listVars>>

HostRefuses(c) ==
  /\ op[c].phase = "pending"
  /\ \/ op[c].kind = "insert" /\ ~Allowed(op[c], store[op[c].key]) /\ Answers(c, "precondition_failed")
     \/ op[c].kind = "delete" /\ store[op[c].key] = Absent
          /\ \E r \in {"ok", "not_found"} : Answers(c, r)
     \/ \E r \in {"too_many_requests", "internal_error"} : Answers(c, r)
  /\ UNCHANGED <<store, clock, replaced, through, count, known, confirmed, listVars>>
-----------------------------------------------------------------------------
(***************************************************************************)
(* Lookup, InsertWithConfig and Delete.                                    *)
(***************************************************************************)
Starts(c, o) ==
  /\ op[c].phase = "returned"
  /\ count[c] < MaxOps
  /\ count' = [count EXCEPT ![c] = @ + 1]
  /\ op' = [op EXCEPT ![c] = o]
  /\ UNCHANGED <<store, clock, replaced, through, known, confirmed, listVars>>

Lookup(c) == \E k \in Written : Starts(c, Operation("lookup", k))
Delete(c) == \E k \in Written : Starts(c, Operation("delete", k))

\* Mutant: the condition is left out.
ConfigWithoutMatch(mode, generation) == [mode |-> mode, match |-> 0]

\* The configuration of an insert: a generation of zero is no condition.
InsertConfig(mode, generation) == [mode |-> mode, match |-> generation]

\* A caller writes what it has read and a token of its own, on the condition
\* that it still is what it has read, or it adds a token to what there is.
InsertWithConfig(c) ==
  \E k \in Written, m \in {"overwrite", "add", "append", "prepend"} :
    LET read == known[c] # Absent /\ known[c].key = k
        generation == IF read THEN known[c].generation ELSE 0
        token == <<<<c, count[c] + 1>>>>
        cfg == InsertConfig(m, generation)
    IN Starts(c, [Operation("insert", k) EXCEPT !.mode = cfg.mode, !.match = cfg.match, !.wanted = generation,
                    !.value = IF m = "overwrite" /\ read THEN known[c].value \o token ELSE token,
                    !.whole = read => known[c].whole])

\* The value cannot be copied to a body, or the hostcall starts nothing.
NeverStarts(c) ==
  /\ op[c].phase = "pending"
  /\ \/ \E s \in Statuses : op' = [op EXCEPT ![c] = Finished(@, mapFastlyErr(s))]
     \/ op[c].kind = "insert" /\ op' = [op EXCEPT ![c] = Finished(@, "copy")]
  /\ UNCHANGED <<store, clock, replaced, through, count, known, confirmed, listVars>>

\* What a wait returns: the host's answer, or the error of the hostcall itself,
\* whatever the host has done (bound: it does nothing after the wait).
WaitResults(c) == {Told(op[c].result)} \cup {mapFastlyErr(s) : s \in Statuses}

\* The caller has its answer.
Returned(c, kind, r) ==
  /\ op[c].kind = kind /\ op[c].phase = "answered"
  /\ op' = [op EXCEPT ![c] = Finished(@, r)]
  /\ UNCHANGED <<store, clock, replaced, through, count, listVars>>

\* Entry.String: the whole value or, if the body cannot be read, the empty
\* string and no error.
String(v) == {v, <<>>}

\* The Entry, which the caller reads with String.
LookupWait(c) ==
  \/ \E r \in WaitResults(c) \ {"ok"} : Returned(c, "lookup", r) /\ UNCHANGED <<known, confirmed>>
  \/ /\ op[c].result = "ok" /\ Returned(c, "lookup", "ok")
     /\ \E s \in String(op[c].entry.value) :
          known' = [known EXCEPT ![c] = [key |-> op[c].key, value |-> s, whole |-> s = op[c].entry.value,
                                         generation |-> op[c].entry.generation]]
     /\ UNCHANGED confirmed

InsertWait(c) ==
  \E r \in WaitResults(c) :
    /\ Returned(c, "insert", r)
    /\ confirmed' = IF r = "ok" THEN confirmed \cup {<<c, count[c]>>} ELSE confirmed
    /\ UNCHANGED known

DeleteWait(c) ==
  \E r \in WaitResults(c) : Returned(c, "delete", r) /\ UNCHANGED <<known, confirmed>>
-----------------------------------------------------------------------------
(***************************************************************************)
(* ListIter.                                                               *)
(***************************************************************************)
storeVars == <<store, clock, replaced>>

AtEnd == page.cursor = Absent /\ page.data # <<>>

\* The configuration of a listing: a cursor of zero is none.
KVListConfig(limit, prefix, cursor) == [limit |-> limit, prefix |-> prefix, cursor |-> cursor]

\* Mutant: the page that is there is asked for again.
ConfWithoutCursor == KVListConfig(page.limit, page.prefix, 0)

\* The configuration of the next page is what the last one says of itself.
ListConf == KVListConfig(page.limit, page.prefix, IF page.cursor = Absent THEN 0 ELSE page.cursor)

\* Next returns false without a call.
NextIsOver ==
  /\ listing = "ready" /\ calls < MaxCalls
  /\ page.err # "ok" \/ AtEnd
  /\ listing' = "over" /\ calls' = calls + 1
  /\ UNCHANGED <<storeVars, through, clientVars, page, listed>>

NextCalls ==
  /\ listing = "ready" /\ calls < MaxCalls
  /\ page.err = "ok" /\ ~AtEnd
  /\ listing' = "pending" /\ calls' = calls + 1
  /\ through' = IF calls = 0 THEN There ELSE through
  /\ UNCHANGED <<storeVars, clientVars, page, listed>>

\* Keys, each larger than those before it.
InOrder(s) == \A i, j \in DOMAIN s : i < j => s[i] < s[j]

\* The n smallest of the keys S, or all of them, in order.
Firsts(S, n) ==
  {s \in SeqOf(S, n) :
     /\ InOrder(s)
     /\ \A k \in S \ ToSet(s), i \in DOMAIN s : s[i] < k
     /\ Len(s) = n \/ ToSet(s) = S}

After(conf) == {k \in There \cap conf.prefix : k > conf.cursor}

\* The page the host makes: the first keys after the cursor, and a cursor if
\* there are more.
HostPages(conf) ==
  {[data |-> s, limit |-> conf.limit, prefix |-> conf.prefix, err |-> "ok",
    cursor |-> IF ToSet(s) = After(conf) THEN Absent ELSE Last(s)]
     : s \in Firsts(After(conf), conf.limit)}

\* An empty page is not kept, and ends the iteration although nothing says so.
NextPage ==
  /\ listing = "pending"
  /\ \E p \in HostPages(ListConf) :
       IF p.data = <<>>
       THEN listing' = "over" /\ UNCHANGED <<page, listed>>
       ELSE listing' = "ready" /\ page' = p /\ listed' = listed \o p.data
  /\ UNCHANGED <<storeVars, through, clientVars, calls>>

\* The hostcall, the wait, the reading of the page or its decoding fails.
NextFails ==
  /\ listing = "pending"
  /\ page' = [page EXCEPT !.err = mapFastlyErr("internal_error")]
  /\ listing' = "over"
  /\ UNCHANGED <<storeVars, through, clientVars, listed, calls>>

\* Next has returned false; a caller may call it again.
NextAgain ==
  /\ listing = "over" /\ calls < MaxCalls
  /\ listing' = "ready"
  /\ UNCHANGED <<storeVars, through, clientVars, page, listed, calls>>
-----------------------------------------------------------------------------
ClientNext(c) ==
  \/ Lookup(c) \/ Delete(c) \/ InsertWithConfig(c) \/ NeverStarts(c)
  \/ HostChanges(c) \/ HostLosesAnswer(c) \/ HostReads(c) \/ HostRefuses(c)
  \/ LookupWait(c) \/ InsertWait(c) \/ DeleteWait(c)

ListNext == NextIsOver \/ NextCalls \/ NextPage \/ NextFails \/ NextAgain

Next == ListNext \/ \E c \in Clients : ClientNext(c)

Spec == Init /\ [][Next]_vars
-----------------------------------------------------------------------------
TypeOK ==
  /\ \A k \in Keys : store[k] = Absent \/ store[k].generation \in 1 .. clock
  /\ count \in [Clients -> 0 .. MaxOps]
  /\ confirmed \subseteq Tokens /\ replaced \subseteq Tokens
  /\ listing \in {"ready", "pending", "over"}
  /\ ToSet(listed) \subseteq Keys /\ through \subseteq Keys

\* An update is never lost: what Insert has said it stored is in the store
\* until a Delete or an overwrite without IfGenerationMatch takes it away,
\* although clients read, compute and write concurrently (kvstore.go,
\* InsertWithConfig: the condition goes with the insert).  Excepted is the
\* overwrite of a caller whose String failed: it takes an empty value for the
\* entry and has no way to know.
NoLostUpdate == confirmed \subseteq replaced \cup UNION {ToSet(ValueOf(store[k])) : k \in Keys}

\* What a caller is told is what happened: nil means that the insert or the
\* delete was done (or that there was nothing to delete); ErrKeyNotFound,
\* ErrPreconditionFailed, ErrTooManyRequests and the other KVErrors mean that it
\* was not, so that it may be tried again.  ErrUnexpected says nothing, and nor
\* do ErrStoreNotFound and ErrInvalidKey, whatever their docs say, since
\* mapFastlyErr also makes them of a status of the wait.
ToldTheTruth ==
  \A c \in Clients :
    op[c].kind \in {"insert", "delete"} /\ op[c].phase = "returned" =>
      /\ op[c].result = "ok" => op[c].done \/ op[c].kind = "delete"
      /\ op[c].result \notin {"ok"} \cup Unclear => ~op[c].done

\* A listing that is over without an error has returned every key that was
\* there all the time and that the prefix selects exactly once, in pages that
\* never repeat a key, whatever is inserted and deleted between two pages.
ListComplete ==
  /\ ToSet(listed) \subseteq Prefixed
  /\ InOrder(listed)
  /\ listing = "over" /\ page.err = "ok" => through \cap Prefixed \subseteq ToSet(listed)
=============================================================================
