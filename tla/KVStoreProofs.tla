--------------------------- MODULE KVStoreProofs ---------------------------
(***************************************************************************)
(* The safety of the KV store for any number of clients, keys, operations  *)
(* and pages.                                                              *)
(***************************************************************************)
EXTENDS KVStore, SequenceTheorems, TLAPS

Results ==
  KVErrors \cup {"ok", "copy", "ErrStoreNotFound", "ErrInvalidKey", "ErrKeyNotFound", "ErrUnexpected"}

Operations ==
  [kind : {"idle", "lookup", "insert", "delete"}, key : Nat,
   mode : {"overwrite", "add", "append", "prepend"}, match : Nat, wanted : Nat,
   value : Seq(Tokens), whole : BOOLEAN, entry : Entries \cup {Absent},
   phase : {"pending", "answered", "returned"}, result : Results, done : BOOLEAN]

Knowns == [key : Keys, value : Seq(Tokens), whole : BOOLEAN, generation : Nat]

\* The tokens that are somewhere, or that somebody meant to take away.
Kept == replaced \cup UNION {ToSet(ValueOf(store[k])) : k \in Keys}

DataInv ==
  /\ store \in [Keys -> Entries \cup {Absent}]
  /\ clock \in Nat
  /\ \A k \in Keys : store[k] # Absent => store[k].generation \in 1 .. clock
  /\ op \in [Clients -> Operations]
  /\ count \in [Clients -> 0 .. MaxOps]
  /\ known \in [Clients -> Knowns \cup {Absent}]
  /\ replaced \subseteq Tokens /\ confirmed \subseteq Tokens

\* A generation stands for one value of its key, for ever: whoever has seen g
\* with a value that is within v has seen all of the entry that now has g.
Within(k, g, v) ==
  /\ g <= clock
  /\ store[k] # Absent /\ store[k].generation = g => ToSet(store[k].value) \subseteq ToSet(v)

\* What a client has read, and what it writes on that condition.
ReadInv(c) ==
  /\ known[c] # Absent /\ known[c].whole => Within(known[c].key, known[c].generation, known[c].value)
  /\ op[c].kind = "lookup" /\ op[c].phase = "answered" /\ op[c].result = "ok" =>
       /\ op[c].entry \in Entries
       /\ Within(op[c].key, op[c].entry.generation, op[c].entry.value)
  /\ op[c].kind = "insert" /\ op[c].phase = "pending" =>
       /\ op[c].match = op[c].wanted
       /\ op[c].mode = "overwrite" /\ op[c].match # 0 /\ op[c].whole =>
            Within(op[c].key, op[c].match, op[c].value)

\* The token of an insert: on its way, or kept once the host has done it.
TokenInv(c) ==
  /\ op[c].phase # "returned" => op[c].key \in Keys /\ count[c] \in 1 .. MaxOps
  /\ op[c].kind = "insert" /\ op[c].phase = "pending" => <<c, count[c]>> \in ToSet(op[c].value)
  /\ op[c].kind = "insert" /\ op[c].phase = "answered" /\ op[c].done => <<c, count[c]>> \in Kept

\* Whether an insert or a delete was done, and what the host says of it.
AnswerInv(c) ==
  /\ op[c].phase = "pending" => ~op[c].done /\ op[c].result = "ok"
  /\ op[c].phase = "answered" /\ op[c].kind \in {"insert", "delete"} =>
       /\ op[c].result \in {"ok", "internal_error"} \/ ~op[c].done
       /\ op[c].result = "ok" => op[c].done \/ op[c].kind = "delete"
  /\ op[c].phase = "answered" => op[c].result \in {"ok"} \cup KVErrors
  /\ op[c].phase = "returned" /\ op[c].kind \in {"insert", "delete"} =>
       /\ op[c].result = "ok" => op[c].done \/ op[c].kind = "delete"
       /\ op[c].result \notin {"ok"} \cup Unclear => ~op[c].done

ClientInv(c) == ReadInv(c) /\ TokenInv(c) /\ AnswerInv(c)

\* The keys that were there all the time are still there, and those up to the
\* cursor, or all of them after the last page, have been returned.
ListInv ==
  /\ page \in [data : Seq(Keys), cursor : Keys \cup {Absent}, limit : {Limit},
               prefix : {Prefixed}, err : {"ok", "ErrUnexpected"}]
  /\ listing \in {"ready", "pending", "over"}
  /\ listed \in Seq(Prefixed) /\ InOrder(listed)
  /\ through \subseteq There
  /\ calls \in Nat
  /\ calls = 0 => page.data = <<>> /\ page.cursor = Absent /\ listing = "ready"
  /\ page.cursor = Absent /\ page.data = <<>> => listed = <<>>
  /\ page.cursor # Absent =>
       /\ \A i \in DOMAIN listed : listed[i] <= page.cursor
       /\ \A k \in through \cap Prefixed : k <= page.cursor => k \in ToSet(listed)
  /\ AtEnd => through \cap Prefixed \subseteq ToSet(listed)
  /\ listing = "pending" => ~AtEnd
  /\ listing = "over" /\ page.err = "ok" => through \cap Prefixed \subseteq ToSet(listed)

IInv ==
  /\ DataInv
  /\ \A c \in Clients : ClientInv(c)
  /\ confirmed \subseteq Kept
  /\ ListInv
-----------------------------------------------------------------------------
\* The elements of sequences, as InsertWithConfig joins them.
LEMMA JoinedElements ==
  ASSUME NEW T, NEW s \in Seq(T), NEW t \in Seq(T)
  PROVE  /\ ToSet(s) \subseteq T
         /\ ToSet(s \o t) = ToSet(s) \cup ToSet(t)
<1>1. ToSet(s) \subseteq T
  BY DEF ToSet
<1>2. ASSUME NEW x \in ToSet(s \o t) PROVE x \in ToSet(s) \cup ToSet(t)
  <2>1. PICK i \in 1 .. Len(s \o t) : x = (s \o t)[i]
    BY DEF ToSet
  <2>2. CASE i <= Len(s)
    BY <2>1, <2>2 DEF ToSet
  <2>3. CASE i > Len(s)
    <3>1. i - Len(s) \in 1 .. Len(t) /\ x = t[i - Len(s)]
      BY <2>1, <2>3
    <3>2. QED
      BY <3>1 DEF ToSet
  <2>4. QED
    BY <2>1, <2>2, <2>3
<1>3. ToSet(s) \subseteq ToSet(s \o t)
  <2>1. ASSUME NEW i \in 1 .. Len(s) PROVE i \in 1 .. Len(s \o t) /\ (s \o t)[i] = s[i]
    OBVIOUS
  <2>2. QED
    BY <2>1 DEF ToSet
<1>4. ToSet(t) \subseteq ToSet(s \o t)
  <2>1. ASSUME NEW x \in ToSet(t) PROVE x \in ToSet(s \o t)
    <3>1. PICK i \in 1 .. Len(t) : x = t[i]
      BY DEF ToSet
    <3>2. i + Len(s) \in DOMAIN (s \o t) /\ (s \o t)[i + Len(s)] = t[i]
      OBVIOUS
    <3>3. QED
      BY <3>1, <3>2 DEF ToSet
  <2>2. QED
    BY <2>1
<1>5. QED
  BY <1>1, <1>2, <1>3, <1>4

\* An empty value has no tokens.
LEMMA NoElements == ToSet(<<>>) = {}
BY DEF ToSet

\* A value of one token.
LEMMA SingleElement ==
  ASSUME NEW x
  PROVE  ToSet(<<x>>) = {x}
BY DEF ToSet

\* An entry is there, whatever is in it.
LEMMA EntryIsThere ==
  ASSUME NEW v \in Seq(Tokens), NEW g \in Nat
  PROVE  Entry(v, g) \in Entries /\ Entry(v, g) # Absent
BY AbsentAssumption DEF Entry, Entries

\* The records of operations, when they start and when they return.
LEMMA OperationType ==
  ASSUME NEW kind \in {"idle", "lookup", "insert", "delete"}, NEW k \in Nat
  PROVE  Operation(kind, k) \in Operations
<1>1. <<>> \in Seq(Tokens)
  OBVIOUS
<1>2. QED
  BY <1>1 DEF Operation, Operations, Results

\* An operation that is over is an operation.
LEMMA FinishedType ==
  ASSUME NEW o \in Operations, NEW r \in Results
  PROVE  /\ Finished(o, r) \in Operations
         /\ Finished(o, r).kind = o.kind /\ Finished(o, r).done = o.done
         /\ Finished(o, r).phase = "returned" /\ Finished(o, r).result = r
<1>1. Operation(o.kind, o.key) \in Operations /\ Operation(o.kind, o.key).kind = o.kind
  BY OperationType DEF Operations, Operation
<1>2. QED
  BY <1>1 DEF Finished, Operations

\* The host and its clients at the start.
LEMMA InitInv == Init => IInv
<1> SUFFICES ASSUME Init PROVE IInv
  OBVIOUS
<1> USE KeyAssumption, BoundAssumption, AbsentAssumption
<1>1. Idle \in Operations
  BY OperationType, FinishedType DEF Idle, Results
<1>2. Entry(<<>>, 1) \in Entries
  <2>1. <<>> \in Seq(Tokens)
    OBVIOUS
  <2>2. QED
    BY <2>1, EntryIsThere
<1>3. DataInv
  <2>1. store \in [Keys -> Entries \cup {Absent}]
    BY <1>2 DEF Init
  <2>2. \A k \in Keys : store[k] # Absent => store[k].generation \in 1 .. clock
    BY DEF Init, Entry
  <2>3. QED
    BY <1>1, <2>1, <2>2 DEF Init, DataInv
<1>4. ASSUME NEW c \in Clients PROVE ClientInv(c)
  BY DEF Init, Idle, Finished, Operation, ClientInv, ReadInv, TokenInv, AnswerInv, Unclear
<1>5. confirmed \subseteq Kept
  BY DEF Init
<1>6. ListInv
  <2>1. page \in [data : Seq(Keys), cursor : Keys \cup {Absent}, limit : {Limit},
                  prefix : {Prefixed}, err : {"ok", "ErrUnexpected"}]
    BY DEF Init
  <2>2. listed \in Seq(Prefixed) /\ InOrder(listed)
    BY DEF Init, InOrder
  <2>3. QED
    BY <2>1, <2>2 DEF Init, ListInv, AtEnd
<1>7. QED
  BY <1>3, <1>4, <1>5, <1>6 DEF IInv

\* A step of one client that leaves the store alone.
LEMMA LocalStep ==
  ASSUME IInv, NEW c \in Clients,
         UNCHANGED <<store, clock, replaced, through, listVars>>,
         op' \in [Clients -> Operations], \A d \in Clients : d # c => op'[d] = op[d],
         count' \in [Clients -> 0 .. MaxOps], \A d \in Clients : d # c => count'[d] = count[d],
         known' \in [Clients -> Knowns \cup {Absent}],
         \A d \in Clients : d # c => known'[d] = known[d],
         confirmed' \subseteq Tokens, confirmed' \subseteq Kept,
         ClientInv(c)'
  PROVE  IInv'
<1>1. Kept' = Kept
  BY DEF Kept
<1>2. \A k, g, v : Within(k, g, v)' <=> Within(k, g, v)
  BY DEF Within
<1>3. DataInv'
  BY DEF IInv, DataInv
<1>4. ASSUME NEW d \in Clients, d # c PROVE ClientInv(d)'
  BY <1>1, <1>2, <1>4 DEF IInv, ClientInv, ReadInv, TokenInv, AnswerInv
<1>5. ListInv'
  BY DEF IInv, ListInv, listVars, AtEnd, There
<1>6. QED
  BY <1>1, <1>3, <1>4, <1>5 DEF IInv

\* What the caller is told, with the host's answers and statuses.
LEMMA ToldIsResult ==
  /\ \A r \in {"ok"} \cup KVErrors : Told(r) \in Results
  /\ \A r \in {"ok"} \cup KVErrors :
       /\ Told(r) = "ok" <=> r = "ok"
       /\ r = "internal_error" => Told(r) \in Unclear
  /\ \A s \in Statuses : mapFastlyErr(s) \in Results \cap Unclear /\ mapFastlyErr(s) # "ok"
BY DEF Told, mapFastlyErr, KVErrors, Statuses, Results, Unclear

\* An operation starts.
LEMMA StartKeeps ==
  ASSUME IInv, NEW c \in Clients, NEW o \in Operations, Starts(c, o),
         o.phase = "pending", o.kind # "idle", o.key \in Keys, ~o.done, o.result = "ok",
         o.kind = "insert" =>
           /\ o.match = o.wanted
           /\ o.mode = "overwrite" /\ o.match # 0 /\ o.whole => Within(o.key, o.match, o.value)
           /\ <<c, count[c] + 1>> \in ToSet(o.value)
  PROVE  IInv'
<1> USE BoundAssumption
<1>1. /\ op[c].phase = "returned" /\ count[c] < MaxOps
      /\ count' = [count EXCEPT ![c] = @ + 1]
      /\ op' = [op EXCEPT ![c] = o]
      /\ UNCHANGED <<store, clock, replaced, through, known, confirmed, listVars>>
  BY DEF Starts
<1>2. /\ op' \in [Clients -> Operations] /\ op'[c] = o
      /\ \A d \in Clients : d # c => op'[d] = op[d]
  BY <1>1 DEF IInv, DataInv
<1>3. /\ count' \in [Clients -> 0 .. MaxOps]
      /\ count'[c] = count[c] + 1 /\ count'[c] \in 1 .. MaxOps
      /\ \A d \in Clients : d # c => count'[d] = count[d]
  BY <1>1 DEF IInv, DataInv
<1>4. \A k, g, v : Within(k, g, v)' <=> Within(k, g, v)
  BY <1>1 DEF Within
<1>5. ReadInv(c)'
  BY <1>1, <1>2, <1>4 DEF IInv, ClientInv, ReadInv
<1>6. TokenInv(c)' /\ AnswerInv(c)'
  BY <1>2, <1>3 DEF TokenInv, AnswerInv
<1>7. QED
  BY <1>1, <1>2, <1>3, <1>5, <1>6, LocalStep DEF IInv, DataInv, ClientInv

\* An operation is answered without a change of the store, or its answer is
\* replaced by an error.
LEMMA AnswerKeeps ==
  ASSUME IInv, NEW c \in Clients, NEW r \in {"ok"} \cup KVErrors, Answers(c, r),
         op[c].phase \in {"pending", "answered"},
         UNCHANGED <<store, clock, replaced, through, count, known, confirmed, listVars>>,
         op[c].kind # "delete" => r # "ok",
         op[c].kind \in {"insert", "delete"} /\ op[c].done => r = "internal_error"
  PROVE  IInv'
<1> DEFINE o == [op[c] EXCEPT !.phase = "answered", !.result = r]
<1>1. /\ o \in Operations
      /\ o.phase = "answered" /\ o.result = r /\ o.kind = op[c].kind /\ o.key = op[c].key
      /\ o.done = op[c].done
  BY DEF IInv, DataInv, Operations, Results, KVErrors
<1> op' = [op EXCEPT ![c] = o]
  BY DEF Answers, IInv, DataInv
<1> HIDE DEF o
<1>2. /\ op' \in [Clients -> Operations] /\ op'[c] = o
      /\ \A d \in Clients : d # c => op'[d] = op[d]
  BY <1>1 DEF IInv, DataInv
<1>3. \A k, g, v : Within(k, g, v)' <=> Within(k, g, v)
  BY DEF Within
<1>4. Kept' = Kept
  BY DEF Kept
<1>5. ReadInv(c)'
  BY <1>1, <1>2, <1>3 DEF IInv, ClientInv, ReadInv
<1>6. TokenInv(c)'
  BY <1>1, <1>2, <1>4 DEF IInv, ClientInv, TokenInv, AnswerInv
<1>7. AnswerInv(c)'
  BY <1>1, <1>2 DEF IInv, ClientInv, AnswerInv, KVErrors
<1>8. QED
  BY <1>2, <1>5, <1>6, <1>7, LocalStep DEF IInv, DataInv, ClientInv

\* The wait of an operation returns: the caller may have learned an entry, and
\* a token is confirmed only if the host has done the insert.
LEMMA ReturnKeeps ==
  ASSUME IInv, NEW c \in Clients, NEW r \in Results,
         \/ op[c].phase = "answered" /\ r = Told(op[c].result)
         \/ op[c].phase = "answered" /\ r \in Unclear
         \/ op[c].phase = "pending" /\ r # "ok",
         op' = [op EXCEPT ![c] = Finished(@, r)],
         UNCHANGED <<store, clock, replaced, through, count, listVars>>,
         known' \in [Clients -> Knowns \cup {Absent}],
         \A d \in Clients : d # c => known'[d] = known[d],
         known'[c] # Absent /\ known'[c].whole => Within(known'[c].key, known'[c].generation, known'[c].value),
         confirmed' \subseteq Tokens, confirmed' \subseteq Kept
  PROVE  IInv'
<1>1. op[c] \in Operations
  BY DEF IInv, DataInv
<1>2. /\ Finished(op[c], r) \in Operations
      /\ Finished(op[c], r).kind = op[c].kind /\ Finished(op[c], r).done = op[c].done
      /\ Finished(op[c], r).phase = "returned" /\ Finished(op[c], r).result = r
  BY <1>1, FinishedType
<1>3. /\ op' \in [Clients -> Operations] /\ op'[c] = Finished(op[c], r)
      /\ \A d \in Clients : d # c => op'[d] = op[d]
  BY <1>2 DEF IInv, DataInv
<1>4. \A k, g, v : Within(k, g, v)' <=> Within(k, g, v)
  BY DEF Within
<1>5. ReadInv(c)' /\ TokenInv(c)'
  BY <1>2, <1>3, <1>4 DEF ReadInv, TokenInv
<1>6. AnswerInv(c)'
  <2>1. CASE op[c].phase = "answered" /\ r = Told(op[c].result)
    <3>1. op[c].result \in {"ok"} \cup KVErrors
      BY <2>1 DEF IInv, ClientInv, AnswerInv
    <3>2. /\ r = "ok" <=> op[c].result = "ok"
          /\ op[c].result = "internal_error" => r \in Unclear
      BY <2>1, <3>1, ToldIsResult
    <3>3. QED
      BY <1>2, <1>3, <2>1, <3>2 DEF IInv, ClientInv, AnswerInv
  <2>2. CASE op[c].phase = "pending" /\ r # "ok"
    BY <1>2, <1>3, <2>2 DEF IInv, ClientInv, AnswerInv
  <2>3. CASE op[c].phase = "answered" /\ r \in Unclear
    BY <1>2, <1>3, <2>3 DEF AnswerInv, Unclear
  <2>4. QED
    BY <2>1, <2>2, <2>3
<1>7. QED
  BY <1>3, <1>5, <1>6, LocalStep DEF IInv, DataInv, ClientInv

\* The store changes at one key: what was there is taken away on purpose or is
\* still there, and generations never come again.
LEMMA StoreStep ==
  ASSUME IInv, NEW k \in Keys, NEW e \in Entries \cup {Absent},
         store' = [store EXCEPT ![k] = e], clock' \in {clock, clock + 1},
         e # Absent => clock' = clock + 1 /\ e.generation = clock + 1,
         replaced \subseteq replaced',
         ToSet(ValueOf(store[k])) \subseteq replaced' \cup ToSet(ValueOf(e)),
         through' = IF e = Absent THEN through \ {k} ELSE through,
         UNCHANGED listVars
  PROVE  /\ Kept \subseteq Kept'
         /\ ToSet(ValueOf(e)) \subseteq Kept'
         /\ \A j \in Keys, g \in Nat : \A v : Within(j, g, v) => Within(j, g, v)'
         /\ store' \in [Keys -> Entries \cup {Absent}]
         /\ clock' \in Nat
         /\ \A j \in Keys : store'[j] # Absent => store'[j].generation \in 1 .. clock'
         /\ ListInv'
<1>1. /\ store \in [Keys -> Entries \cup {Absent}] /\ clock \in Nat
      /\ \A j \in Keys : store[j] # Absent => store[j].generation \in 1 .. clock
  BY DEF IInv, DataInv
<1>2. store'[k] = e /\ \A j \in Keys : j # k => store'[j] = store[j]
  BY <1>1
<1>3. Kept \subseteq Kept' /\ ToSet(ValueOf(e)) \subseteq Kept'
  BY <1>2 DEF Kept
<1>4. ASSUME NEW j \in Keys, NEW g \in Nat, NEW v, Within(j, g, v) PROVE Within(j, g, v)'
  <2>1. CASE j = k
    BY <1>1, <1>2, <1>4, <2>1 DEF Within
  <2>2. CASE j # k
    BY <1>1, <1>2, <1>4, <2>2 DEF Within
  <2>3. QED
    BY <2>1, <2>2
<1>5. store' \in [Keys -> Entries \cup {Absent}] /\ clock' \in Nat
  BY <1>1
<1>6. ASSUME NEW j \in Keys, store'[j] # Absent PROVE store'[j].generation \in 1 .. clock'
  BY <1>1, <1>2, <1>6
<1>7. ListInv'
  <2>1. through' \subseteq through /\ through' \subseteq There'
    BY <1>2 DEF IInv, ListInv, There
  <2>2. QED
    BY <2>1 DEF IInv, ListInv, listVars, AtEnd
<1>8. QED
  BY <1>3, <1>4, <1>5, <1>6, <1>7

\* What an insert writes has its token and all that was there, unless it
\* replaces that without a condition.
LEMMA JoinedKeeps ==
  ASSUME IInv, NEW c \in Clients, op[c].kind = "insert", op[c].phase = "pending",
         Allowed(op[c], store[op[c].key]),
         NEW v, v = Joined(op[c], store[op[c].key])
  PROVE  /\ v \in Seq(Tokens)
         /\ ToSet(op[c].value) \subseteq ToSet(v)
         /\ ToSet(ValueOf(store[op[c].key])) \subseteq
              Taken(op[c], store[op[c].key], v) \cup ToSet(v)
         /\ Taken(op[c], store[op[c].key], v) \subseteq Tokens
<1> DEFINE o == op[c]
           e == store[o.key]
<1>1. o \in Operations /\ o.key \in Keys /\ e \in Entries \cup {Absent}
  BY DEF IInv, DataInv, ClientInv, TokenInv
<1>2. o.value \in Seq(Tokens) /\ o.mode \in {"overwrite", "add", "append", "prepend"}
      /\ o.match \in Nat
  BY <1>1 DEF Operations
<1>3. ValueOf(e) \in Seq(Tokens) /\ (e = Absent => ToSet(ValueOf(e)) = {})
  <2>1. CASE e = Absent
    <3>1. ValueOf(e) = <<>>
      BY <2>1 DEF ValueOf
    <3>2. <<>> \in Seq(Tokens)
      OBVIOUS
    <3>3. QED
      BY <3>1, <3>2, NoElements
  <2>2. CASE e # Absent
    BY <1>1, <2>2 DEF ValueOf, Entries
  <2>3. QED
    BY <2>1, <2>2
<1>4. ToSet(ValueOf(e)) \subseteq Tokens /\ ToSet(o.value) \subseteq Tokens
  BY <1>2, <1>3, JoinedElements
<1>5. Taken(o, e, v) \subseteq Tokens
  BY <1>4 DEF Taken
<1>6. CASE o.mode \in {"append", "prepend"}
  <2>1. v = ValueOf(e) \o o.value \/ v = o.value \o ValueOf(e)
    BY <1>6 DEF Joined
  <2>2. v \in Seq(Tokens) /\ ToSet(v) = ToSet(ValueOf(e)) \cup ToSet(o.value)
    <3>1. /\ ToSet(ValueOf(e) \o o.value) = ToSet(ValueOf(e)) \cup ToSet(o.value)
          /\ ToSet(o.value \o ValueOf(e)) = ToSet(ValueOf(e)) \cup ToSet(o.value)
      BY <1>2, <1>3, JoinedElements
    <3>2. ValueOf(e) \o o.value \in Seq(Tokens) /\ o.value \o ValueOf(e) \in Seq(Tokens)
      BY <1>2, <1>3, ConcatProperties
    <3>3. QED
      BY <2>1, <3>1, <3>2
  <2>3. QED
    BY <1>5, <2>2
<1>7. CASE o.mode \in {"add", "overwrite"}
  <2>1. v = o.value
    BY <1>7 DEF Joined
  <2>2. CASE o.mode = "add"
    BY <1>2, <1>3, <1>5, <2>1, <2>2 DEF Allowed
  <2>3. CASE o.mode = "overwrite" /\ (o.wanted = 0 \/ ~o.whole)
    BY <1>2, <1>5, <2>1, <2>3 DEF Taken
  <2>4. CASE o.mode = "overwrite" /\ o.wanted # 0 /\ o.whole
    <3>1. o.match # 0 /\ Within(o.key, o.match, o.value)
      BY <2>4 DEF IInv, ClientInv, ReadInv
    <3>2. ToSet(ValueOf(e)) \subseteq ToSet(o.value)
      BY <3>1 DEF Allowed, Within, ValueOf
    <3>3. QED
      BY <1>2, <1>5, <2>1, <3>2
  <2>5. QED
    BY <1>7, <2>2, <2>3, <2>4
<1>8. QED
  BY <1>2, <1>6, <1>7

\* The host does an insert or a delete.
LEMMA ChangeKeeps ==
  ASSUME IInv, NEW c \in Clients, HostChanges(c)
  PROVE  IInv'
<1> DEFINE o == op[c]
           k == o.key
           e == store[k]
<1>1. /\ o \in Operations /\ k \in Keys /\ e \in Entries \cup {Absent}
      /\ o.kind \in {"insert", "delete"} /\ o.phase = "pending"
      /\ UNCHANGED <<count, known, confirmed, listVars>>
      /\ clock \in Nat /\ replaced \subseteq Tokens
  BY DEF HostChanges, IInv, DataInv, ClientInv, TokenInv
<1>2. PICK new \in Entries \cup {Absent}, v \in Seq(Tokens) :
        /\ Changes(c, new, v)
        /\ clock' \in {clock, clock + 1}
        /\ new # Absent => clock' = clock + 1 /\ new.generation = clock + 1
        /\ v = ValueOf(new)
        /\ ToSet(ValueOf(e)) \subseteq Taken(o, e, v) \cup ToSet(v)
        /\ Taken(o, e, v) \subseteq Tokens
        /\ o.kind = "insert" => ToSet(o.value) \subseteq ToSet(v)
  <2>1. CASE o.kind = "insert"
    <3> DEFINE v == Joined(o, e)
    <3>1. /\ Changes(c, Entry(v, clock + 1), v) /\ clock' = clock + 1
          /\ Allowed(o, e)
      BY <2>1 DEF HostChanges, NewGeneration
    <3>2. /\ v \in Seq(Tokens)
          /\ ToSet(o.value) \subseteq ToSet(v)
          /\ ToSet(ValueOf(e)) \subseteq Taken(o, e, v) \cup ToSet(v)
          /\ Taken(o, e, v) \subseteq Tokens
      BY <1>1, <2>1, <3>1, JoinedKeeps
    <3> HIDE DEF v
    <3>3. /\ Entry(v, clock + 1) \in Entries
          /\ Entry(v, clock + 1).generation = clock + 1
          /\ ValueOf(Entry(v, clock + 1)) = v
      BY <1>1, <3>2, EntryIsThere DEF Entry, ValueOf
    <3>4. QED
      BY <3>1, <3>2, <3>3
  <2>2. CASE o.kind = "delete"
    <3>1. Changes(c, Absent, <<>>) /\ clock' = clock
      BY <2>2 DEF HostChanges
    <3>2. <<>> \in Seq(Tokens) /\ ValueOf(Absent) = <<>>
      BY DEF ValueOf
    <3>3. Taken(o, e, <<>>) = ToSet(ValueOf(e))
      BY <2>2, NoElements DEF Taken
    <3>4. ToSet(ValueOf(e)) \subseteq Tokens
      BY <1>1, <3>2, JoinedElements DEF ValueOf, Entries
    <3>5. QED
      BY <2>2, <3>1, <3>2, <3>3, <3>4
  <2>3. QED
    BY <1>1, <2>1, <2>2
<1>3. /\ store' = [store EXCEPT ![k] = new]
      /\ op' = [op EXCEPT ![c].phase = "answered", ![c].done = TRUE]
      /\ replaced' = replaced \cup Taken(o, e, v)
      /\ through' = IF new = Absent THEN through \ {k} ELSE through
  BY <1>2 DEF Changes
<1>4. /\ Kept \subseteq Kept'
      /\ ToSet(v) \subseteq Kept'
      /\ \A j \in Keys, g \in Nat : \A w : Within(j, g, w) => Within(j, g, w)'
      /\ store' \in [Keys -> Entries \cup {Absent}]
      /\ clock' \in Nat
      /\ \A j \in Keys : store'[j] # Absent => store'[j].generation \in 1 .. clock'
      /\ ListInv'
  BY <1>1, <1>2, <1>3, StoreStep
<1>5. /\ op' \in [Clients -> Operations]
      /\ op'[c].kind = o.kind /\ op'[c].phase = "answered" /\ op'[c].done
      /\ op'[c].key = k /\ op'[c].result = o.result
      /\ \A d \in Clients : d # c => op'[d] = op[d]
  <2> DEFINE n == [o EXCEPT !.phase = "answered", !.done = TRUE]
  <2>1. /\ n \in Operations
        /\ n.kind = o.kind /\ n.phase = "answered" /\ n.done /\ n.key = k /\ n.result = o.result
    BY <1>1 DEF Operations
  <2>2. op \in [Clients -> Operations] /\ op' = [op EXCEPT ![c] = n]
    BY <1>3 DEF IInv, DataInv
  <2>3. QED
    BY <2>1, <2>2
<1>6. DataInv'
  BY <1>1, <1>2, <1>3, <1>4, <1>5 DEF IInv, DataInv
<1>7. ASSUME NEW d \in Clients, known[d] # Absent PROVE known[d].key \in Keys /\ known[d].generation \in Nat
  BY <1>7 DEF IInv, DataInv, Knowns
<1>8. ASSUME NEW d \in Clients, d # c PROVE ClientInv(d)'
  <2>1. op[d] \in Operations
    BY DEF IInv, DataInv
  <2>2. op[d].phase # "returned" => op[d].key \in Keys
    BY DEF IInv, ClientInv, TokenInv
  <2>3. ReadInv(d)'
    <3>1. op'[d] = op[d] /\ known'[d] = known[d]
      BY <1>1, <1>5, <1>8
    <3>2. known[d] # Absent /\ known[d].whole =>
            Within(known[d].key, known[d].generation, known[d].value)'
      BY <1>4, <1>7, <3>1 DEF IInv, ClientInv, ReadInv
    <3>3. op[d].kind = "lookup" /\ op[d].phase = "answered" /\ op[d].result = "ok" =>
            /\ op[d].entry \in Entries
            /\ Within(op[d].key, op[d].entry.generation, op[d].entry.value)'
      BY <1>4, <2>2, <3>1 DEF IInv, ClientInv, ReadInv, Entries
    <3>4. op[d].kind = "insert" /\ op[d].phase = "pending" =>
            /\ op[d].match = op[d].wanted
            /\ op[d].mode = "overwrite" /\ op[d].match # 0 /\ op[d].whole =>
                 Within(op[d].key, op[d].match, op[d].value)'
      BY <1>4, <2>1, <2>2, <3>1 DEF IInv, ClientInv, ReadInv, Operations
    <3>5. QED
      BY <3>1, <3>2, <3>3, <3>4 DEF ReadInv, Within
  <2>4. TokenInv(d)' /\ AnswerInv(d)'
    BY <1>1, <1>4, <1>5, <1>8 DEF IInv, ClientInv, TokenInv, AnswerInv
  <2>5. QED
    BY <2>3, <2>4 DEF ClientInv
<1>9. ClientInv(c)'
  <2>1. ReadInv(c)'
    BY <1>1, <1>4, <1>5, <1>7 DEF IInv, ClientInv, ReadInv
  <2>2. TokenInv(c)'
    BY <1>1, <1>2, <1>4, <1>5 DEF IInv, ClientInv, TokenInv
  <2>3. AnswerInv(c)'
    BY <1>1, <1>5 DEF IInv, ClientInv, AnswerInv
  <2>4. QED
    BY <2>1, <2>2, <2>3 DEF ClientInv
<1>10. QED
  BY <1>1, <1>4, <1>6, <1>8, <1>9 DEF IInv
-----------------------------------------------------------------------------
\* Sequences in order, one after the other.
LEMMA OrderedPages ==
  ASSUME NEW s \in Seq(Int), NEW t \in Seq(Int), InOrder(s), InOrder(t),
         \A i \in DOMAIN s, j \in DOMAIN t : s[i] < t[j]
  PROVE  InOrder(s \o t)
<1> SUFFICES ASSUME NEW i \in 1 .. Len(s \o t), NEW j \in 1 .. Len(s \o t), i < j
             PROVE  (s \o t)[i] < (s \o t)[j]
  BY DEF InOrder
<1>1. CASE j <= Len(s)
  BY <1>1 DEF InOrder
<1>2. CASE i <= Len(s) /\ j > Len(s)
  <2>1. j - Len(s) \in DOMAIN t /\ (s \o t)[j] = t[j - Len(s)] /\ (s \o t)[i] = s[i]
    BY <1>2
  <2>2. QED
    BY <1>2, <2>1
<1>3. CASE i > Len(s)
  <2>1. /\ i - Len(s) \in DOMAIN t /\ (s \o t)[i] = t[i - Len(s)]
        /\ j - Len(s) \in DOMAIN t /\ (s \o t)[j] = t[j - Len(s)]
    BY <1>3
  <2>2. QED
    BY <2>1 DEF InOrder
<1>4. QED
  BY <1>1, <1>2, <1>3

\* The first keys of a set: nothing is left out below the last of them.
LEMMA FirstsEffect ==
  ASSUME NEW S \in SUBSET Keys, NEW n \in Nat \ {0}, NEW s \in Firsts(S, n)
  PROVE  /\ s \in Seq(S) /\ InOrder(s)
         /\ s = <<>> => S = {}
         /\ s # <<>> => /\ Last(s) \in S
                        /\ \A i \in DOMAIN s : s[i] <= Last(s)
                        /\ \A k \in S : k <= Last(s) => k \in ToSet(s)
<1> \A k \in S : k \in Int
  BY DEF Keys
<1>1. PICK m \in 0 .. n : s \in [1 .. m -> S]
  BY DEF Firsts, SeqOf
<1>2. s \in Seq(S) /\ Len(s) = m /\ DOMAIN s = 1 .. m
  BY <1>1
<1>3. InOrder(s) /\ (\A k \in S \ ToSet(s), i \in DOMAIN s : s[i] < k) /\ (Len(s) = n \/ ToSet(s) = S)
  BY DEF Firsts
<1>4. s = <<>> => S = {}
  BY <1>2, <1>3, NoElements
<1>5. ASSUME s # <<>>
      PROVE  /\ Last(s) \in S
             /\ \A i \in DOMAIN s : s[i] <= Last(s)
             /\ \A k \in S : k <= Last(s) => k \in ToSet(s)
  <2>1. Len(s) \in DOMAIN s /\ Last(s) = s[Len(s)]
    BY <1>2, <1>5 DEF Last
  <2>2. Last(s) \in S /\ Last(s) \in Int
    BY <1>1, <1>2, <2>1
  <2>3. ASSUME NEW i \in DOMAIN s PROVE s[i] <= Last(s)
    <3>1. s[i] \in Int /\ (i = Len(s) \/ i < Len(s))
      BY <1>1, <1>2
    <3>2. QED
      BY <1>2, <1>3, <2>1, <2>2, <3>1 DEF InOrder
  <2>4. ASSUME NEW k \in S, k <= Last(s) PROVE k \in ToSet(s)
    BY <1>3, <2>1, <2>2, <2>4 DEF Keys
  <2>5. QED
    BY <2>2, <2>3, <2>4
<1>6. QED
  BY <1>2, <1>3, <1>4, <1>5

\* A page comes, empty or not.
LEMMA PageKeeps ==
  ASSUME IInv, NextPage
  PROVE  ListInv'
<1> USE KeyAssumption, BoundAssumption, AbsentAssumption
<1> DEFINE conf == ListConf
           S == After(conf)
<1>1. /\ listing = "pending" /\ ~AtEnd
      /\ page \in [data : Seq(Keys), cursor : Keys \cup {Absent}, limit : {Limit},
                   prefix : {Prefixed}, err : {"ok", "ErrUnexpected"}]
      /\ listed \in Seq(Prefixed) /\ InOrder(listed)
      /\ through \subseteq There
  BY DEF NextPage, IInv, ListInv
<1>2. /\ conf.limit = Limit /\ conf.prefix = Prefixed
      /\ conf.cursor = IF page.cursor = Absent THEN 0 ELSE page.cursor
  BY <1>1 DEF ListConf, KVListConfig
<1>3. conf.cursor \in Int
  BY <1>1, <1>2 DEF Keys
<1> HIDE DEF conf
<1>4. S \subseteq Keys /\ S \subseteq Prefixed /\ \A k \in S : k > conf.cursor
  BY <1>2 DEF After, There
<1> \A k \in S : k \in Int
  BY <1>4 DEF Keys
<1>5. \A i \in DOMAIN listed : listed[i] \in Int /\ listed[i] <= conf.cursor
  <2>1. \A i \in DOMAIN listed : listed[i] \in Int
    <3>1. \A k \in Prefixed : k \in Int
      BY DEF Keys
    <3>2. QED
      BY <1>1, <3>1
  <2>2. CASE page.cursor = Absent
    <3>1. listed = <<>>
      BY <1>1, <2>2 DEF IInv, ListInv, AtEnd
    <3>2. QED
      BY <3>1
  <2>3. CASE page.cursor # Absent
    BY <1>2, <2>1, <2>3 DEF IInv, ListInv
  <2>4. QED
    BY <2>2, <2>3
<1>6. ASSUME NEW k \in through \cap Prefixed PROVE k \in ToSet(listed) \/ k \in S
  <2>1. k \in There \cap Prefixed /\ k \in Int /\ k > 0
    BY <1>1 DEF There, Keys
  <2>2. k > conf.cursor => k \in S
    BY <1>2, <2>1 DEF After
  <2>3. CASE page.cursor = Absent
    BY <1>2, <2>1, <2>2, <2>3
  <2>4. CASE page.cursor # Absent
    BY <1>1, <1>2, <1>3, <2>1, <2>2, <2>4 DEF IInv, ListInv
  <2>5. QED
    BY <2>3, <2>4
<1>7. PICK s \in Firsts(S, Limit), p \in HostPages(conf) :
        /\ p = [data |-> s, limit |-> conf.limit, prefix |-> conf.prefix, err |-> "ok",
                cursor |-> IF ToSet(s) = S THEN Absent ELSE Last(s)]
        /\ IF p.data = <<>>
           THEN listing' = "over" /\ UNCHANGED <<page, listed>>
           ELSE listing' = "ready" /\ page' = p /\ listed' = listed \o p.data
  BY <1>2 DEF NextPage, HostPages, conf
<1>8. UNCHANGED <<store, through, calls>> /\ calls # 0
  BY <1>1 DEF NextPage, storeVars, IInv, ListInv
<1> HIDE DEF S
<1>9. /\ s \in Seq(S) /\ InOrder(s)
      /\ s = <<>> => S = {}
      /\ s # <<>> => /\ Last(s) \in S
                     /\ \A i \in DOMAIN s : s[i] <= Last(s)
                     /\ \A k \in S : k <= Last(s) => k \in ToSet(s)
  BY <1>4, FirstsEffect
<1>10. CASE s = <<>>
  <2>1. through \cap Prefixed \subseteq ToSet(listed)
    BY <1>6, <1>9, <1>10
  <2>2. listing' = "over" /\ UNCHANGED <<page, listed>>
    BY <1>7, <1>10
  <2>3. QED
    BY <1>8, <2>1, <2>2 DEF IInv, ListInv, AtEnd, There
<1>11. CASE s # <<>>
  <2>1. listing' = "ready" /\ page' = p /\ listed' = listed \o s
    BY <1>7, <1>11
  <2>2. s \in Seq(Keys) /\ s \in Seq(Prefixed) /\ s \in Seq(Int) /\ listed \in Seq(Int)
    <3>1. \A i \in DOMAIN s : s[i] \in Keys /\ s[i] \in Prefixed /\ s[i] \in Int
      BY <1>4, <1>9
    <3>2. \A i \in DOMAIN listed : listed[i] \in Int
      BY <1>5
    <3>3. QED
      BY <1>1, <1>9, <3>1, <3>2
  <2>3. /\ page' \in [data : Seq(Keys), cursor : Keys \cup {Absent}, limit : {Limit},
                      prefix : {Prefixed}, err : {"ok", "ErrUnexpected"}]
        /\ page'.data = s
        /\ page'.cursor = IF ToSet(s) = S THEN Absent ELSE Last(s)
    BY <1>2, <1>4, <1>7, <1>9, <1>11, <2>1, <2>2
  <2>4. listed' \in Seq(Prefixed) /\ InOrder(listed')
    <3>1. \A j \in DOMAIN s : s[j] \in S
      BY <1>9
    <3>2. \A i \in DOMAIN listed, j \in DOMAIN s : listed[i] < s[j]
      BY <1>3, <1>4, <1>5, <3>1
    <3>3. QED
      BY <1>1, <1>9, <2>1, <2>2, <3>2, OrderedPages
  <2>5. ToSet(listed') = ToSet(listed) \cup ToSet(s)
    BY <1>1, <2>1, <2>2, JoinedElements
  <2>6. ASSUME page'.cursor # Absent
        PROVE  /\ \A i \in DOMAIN listed' : listed'[i] <= page'.cursor
               /\ \A k \in through \cap Prefixed : k <= page'.cursor => k \in ToSet(listed')
    <3>1. page'.cursor = Last(s) /\ Last(s) \in S /\ Last(s) > conf.cursor
      BY <1>4, <1>9, <1>11, <2>3, <2>6
    <3>2. ASSUME NEW i \in DOMAIN listed' PROVE listed'[i] <= Last(s)
      <4>1. CASE i \in DOMAIN listed
        <5>1. listed'[i] = listed[i]
          BY <2>1, <2>2, <4>1
        <5>2. QED
          BY <1>3, <1>5, <3>1, <4>1, <5>1
      <4>2. CASE i \notin DOMAIN listed
        <5>1. i - Len(listed) \in DOMAIN s /\ listed'[i] = s[i - Len(listed)]
          BY <2>1, <2>2, <4>2
        <5>2. QED
          BY <1>9, <1>11, <5>1
      <4>3. QED
        BY <4>1, <4>2
    <3>3. QED
      BY <1>6, <1>9, <1>11, <2>5, <3>1, <3>2
  <2>7. AtEnd' => through \cap Prefixed \subseteq ToSet(listed')
    <3>1. ASSUME AtEnd' PROVE ToSet(s) = S
      <4>1. page'.cursor = Absent /\ Last(s) \in Int
        BY <1>9, <1>11, <3>1 DEF AtEnd
      <4>2. QED
        BY <2>3, <4>1
    <3>2. QED
      BY <1>6, <2>5, <3>1
  <2>8. through' \subseteq There' /\ calls' \in Nat /\ calls' # 0
    BY <1>1, <1>8 DEF IInv, ListInv, There
  <2>9. QED
    BY <1>8, <1>11, <2>1, <2>3, <2>4, <2>6, <2>7, <2>8 DEF ListInv
<1>12. QED
  BY <1>10, <1>11

\* The listing does nothing to the clients.
LEMMA ListKeeps ==
  ASSUME IInv, ListNext
  PROVE  IInv'
<1> USE AbsentAssumption, BoundAssumption
<1>1. UNCHANGED <<store, clock, replaced, op, count, known, confirmed>>
  BY DEF ListNext, NextIsOver, NextCalls, NextPage, NextFails, NextAgain, storeVars, clientVars
<1>2. ListInv'
  <2>1. CASE NextIsOver
    BY <2>1 DEF IInv, ListInv, NextIsOver, AtEnd, storeVars, There
  <2>2. CASE NextCalls
    BY <2>2 DEF IInv, ListInv, NextCalls, AtEnd, storeVars, There
  <2>3. CASE NextPage
    BY <2>3, PageKeeps
  <2>4. CASE NextFails
    <3>1. page' = [page EXCEPT !.err = "ErrUnexpected"]
      BY <2>4 DEF NextFails, mapFastlyErr
    <3>2. QED
      BY <2>4, <3>1 DEF IInv, ListInv, NextFails, AtEnd, storeVars, There
  <2>5. CASE NextAgain
    BY <2>5 DEF IInv, ListInv, NextAgain, AtEnd, storeVars, There
  <2>6. QED
    BY <2>1, <2>2, <2>3, <2>4, <2>5 DEF ListNext
<1>3. Kept' = Kept
  BY <1>1 DEF Kept
<1>4. DataInv'
  BY <1>1 DEF IInv, DataInv
<1>5. ASSUME NEW c \in Clients PROVE ClientInv(c)'
  BY <1>1, <1>3 DEF IInv, ClientInv, ReadInv, TokenInv, AnswerInv, Within
<1>6. QED
  BY <1>1, <1>2, <1>3, <1>4, <1>5 DEF IInv

\* A step of a client, or of the host for it.
LEMMA ClientKeeps ==
  ASSUME IInv, NEW c \in Clients, ClientNext(c)
  PROVE  IInv'
<1> USE BoundAssumption, KeyAssumption
<1>1. op[c] \in Operations /\ known[c] \in Knowns \cup {Absent} /\ count[c] \in Nat
  BY DEF IInv, DataInv
<1>2. CASE Lookup(c) \/ Delete(c)
  <2>1. PICK kind \in {"lookup", "delete"}, k \in Written : Starts(c, Operation(kind, k))
    BY <1>2 DEF Lookup, Delete
  <2>2. k \in Keys /\ k \in Nat
    BY DEF Keys
  <2>3. Operation(kind, k) \in Operations
    BY <2>2, OperationType
  <2>4. QED
    BY <2>1, <2>2, <2>3, StartKeeps DEF Operation
<1>3. CASE InsertWithConfig(c)
  <2>1. PICK k \in Written, m \in {"overwrite", "add", "append", "prepend"} :
          LET read == known[c] # Absent /\ known[c].key = k
              generation == IF read THEN known[c].generation ELSE 0
              token == <<<<c, count[c] + 1>>>>
              cfg == InsertConfig(m, generation)
          IN Starts(c, [Operation("insert", k) EXCEPT !.mode = cfg.mode, !.match = cfg.match, !.wanted = generation,
                    !.value = IF m = "overwrite" /\ read THEN known[c].value \o token ELSE token,
                    !.whole = read => known[c].whole])
    BY <1>3 DEF InsertWithConfig
  <2> DEFINE read == known[c] # Absent /\ known[c].key = k
             generation == IF read THEN known[c].generation ELSE 0
             token == <<<<c, count[c] + 1>>>>
             value == IF m = "overwrite" /\ read THEN known[c].value \o token ELSE token
             whole == read => known[c].whole
             o == [Operation("insert", k) EXCEPT !.mode = m, !.match = generation, !.wanted = generation,
                                                 !.value = value, !.whole = whole]
  <2>2. Starts(c, o)
    BY <2>1 DEF InsertConfig
  <2>3. <<c, count[c] + 1>> \in Tokens
    BY <1>1, <2>2 DEF Starts, Tokens
  <2>4. token \in Seq(Tokens) /\ ToSet(token) = {<<c, count[c] + 1>>}
    BY <2>3, SingleElement
  <2>5. generation \in Nat /\ (known[c] # Absent => known[c].value \in Seq(Tokens))
    BY <1>1 DEF Knowns
  <2> HIDE DEF token
  <2>6. /\ known[c] # Absent =>
             /\ known[c].value \o token \in Seq(Tokens)
             /\ ToSet(known[c].value \o token) = ToSet(known[c].value) \cup ToSet(token)
    BY <2>4, <2>5, JoinedElements, ConcatProperties
  <2>7. value \in Seq(Tokens) /\ <<c, count[c] + 1>> \in ToSet(value)
    BY <2>4, <2>6
  <2>12. PICK w \in BOOLEAN : w = whole
    OBVIOUS
  <2>8. m = "overwrite" /\ generation # 0 /\ w => Within(k, generation, value)
    BY <2>6, <2>12 DEF IInv, ClientInv, ReadInv, Within
  <2> HIDE DEF value, generation, whole
  <2>9. k \in Keys /\ k \in Nat
    BY DEF Keys
  <2>13. o = [Operation("insert", k) EXCEPT !.mode = m, !.match = generation, !.wanted = generation,
                                            !.value = value, !.whole = w]
    BY <2>12
  <2> HIDE DEF o
  <2>10. /\ o \in Operations
         /\ o.phase = "pending" /\ o.kind = "insert" /\ o.key = k /\ ~o.done /\ o.result = "ok"
         /\ o.mode = m /\ o.match = generation /\ o.wanted = generation /\ o.value = value
         /\ o.whole = w
    BY <2>5, <2>7, <2>9, <2>12, <2>13, OperationType DEF Operation, Operations
  <2>11. QED
    BY <2>2, <2>7, <2>8, <2>9, <2>10, StartKeeps
<1>4. CASE NeverStarts(c)
  <2>1. PICK r \in Results \ {"ok"} : op' = [op EXCEPT ![c] = Finished(@, r)]
    BY <1>4, ToldIsResult DEF NeverStarts, Results
  <2>2. op[c].phase = "pending" /\ UNCHANGED <<store, clock, replaced, through, count, known, confirmed, listVars>>
    BY <1>4 DEF NeverStarts
  <2>3. known[c] # Absent /\ known[c].whole => Within(known[c].key, known[c].generation, known[c].value)
    BY DEF IInv, ClientInv, ReadInv
  <2>4. QED
    BY <2>1, <2>2, <2>3, ReturnKeeps DEF IInv, DataInv
<1>5. CASE HostChanges(c)
  BY <1>5, ChangeKeeps
<1>6. CASE HostLosesAnswer(c)
  BY <1>6, AnswerKeeps DEF HostLosesAnswer, KVErrors
<1>7. CASE HostReads(c)
  <2>1. CASE store[op[c].key] = Absent
    BY <1>7, <2>1, AnswerKeeps DEF HostReads, KVErrors
  <2>2. CASE store[op[c].key] # Absent
    <3> DEFINE e == store[op[c].key]
               o == [op[c] EXCEPT !.phase = "answered", !.entry = e]
    <3>1. op[c].key \in Keys /\ count[c] \in 1 .. MaxOps /\ op[c].result = "ok"
      BY <1>7 DEF HostReads, IInv, ClientInv, TokenInv, AnswerInv
    <3>2. e \in Entries /\ e.generation \in 1 .. clock
      BY <2>2, <3>1 DEF IInv, DataInv
    <3>3. /\ o \in Operations
          /\ o.kind = "lookup" /\ o.phase = "answered" /\ o.key = op[c].key /\ o.entry = e
          /\ o.result = "ok"
      BY <1>1, <1>7, <3>1, <3>2 DEF HostReads, Operations
    <3>4. /\ op' = [op EXCEPT ![c] = o]
          /\ UNCHANGED <<store, clock, replaced, through, count, known, confirmed, listVars>>
      BY <1>7, <2>2 DEF HostReads, IInv, DataInv
    <3>5. /\ op' \in [Clients -> Operations] /\ op'[c] = o
          /\ \A d \in Clients : d # c => op'[d] = op[d]
      BY <3>3, <3>4 DEF IInv, DataInv
    <3>6. Within(o.key, o.entry.generation, o.entry.value)
      BY <3>2, <3>3 DEF Within, IInv, DataInv
    <3> HIDE DEF o
    <3>7. ClientInv(c)'
      BY <3>1, <3>2, <3>3, <3>4, <3>5, <3>6
      DEF IInv, ClientInv, ReadInv, TokenInv, AnswerInv, Within
    <3>8. QED
      BY <3>4, <3>5, <3>7, LocalStep DEF IInv, DataInv
  <2>3. QED
    BY <2>1, <2>2
<1>8. CASE HostRefuses(c)
  <2>1. PICK r \in {"ok"} \cup KVErrors :
          /\ Answers(c, r)
          /\ op[c].kind # "delete" => r # "ok"
    BY <1>8 DEF HostRefuses, KVErrors
  <2>2. op[c].phase = "pending" /\ ~op[c].done
    BY <1>8 DEF HostRefuses, IInv, ClientInv, AnswerInv
  <2>3. QED
    BY <1>8, <2>1, <2>2, AnswerKeeps DEF HostRefuses
<1>9. CASE LookupWait(c) \/ InsertWait(c) \/ DeleteWait(c)
  <2>1. PICK r \in WaitResults(c) :
          /\ op[c].phase = "answered" /\ op' = [op EXCEPT ![c] = Finished(@, r)]
          /\ UNCHANGED <<store, clock, replaced, through, count, listVars>>
          /\ known' = known \/ (op[c].kind = "lookup" /\ op[c].result = "ok")
          /\ \/ confirmed' = confirmed
             \/ /\ op[c].kind = "insert" /\ r = "ok"
                /\ confirmed' = confirmed \cup {<<c, count[c]>>}
    <3>1. CASE LookupWait(c)
      <4>1. Told("ok") = "ok"
        BY ToldIsResult
      <4>2. QED
        BY <3>1, <4>1 DEF LookupWait, WaitResults, Returned
    <3>2. CASE InsertWait(c)
      BY <3>2 DEF InsertWait, Returned
    <3>3. CASE DeleteWait(c)
      BY <3>3 DEF DeleteWait, Returned
    <3>4. QED
      BY <1>9, <3>1, <3>2, <3>3
  <2>2. r \in Results /\ (r = Told(op[c].result) \/ r \in Unclear) /\ (r = "ok" => op[c].result = "ok")
    <3>1. op[c].result \in {"ok"} \cup KVErrors
      BY <2>1 DEF IInv, ClientInv, AnswerInv
    <3>2. CASE r = Told(op[c].result)
      BY <3>1, <3>2, ToldIsResult
    <3>3. CASE \E s \in Statuses : r = mapFastlyErr(s)
      BY <3>3, ToldIsResult
    <3>4. QED
      BY <2>1, <3>2, <3>3 DEF WaitResults
  <2>3. /\ known' \in [Clients -> Knowns \cup {Absent}]
        /\ \A d \in Clients : d # c => known'[d] = known[d]
        /\ known'[c] # Absent /\ known'[c].whole =>
             Within(known'[c].key, known'[c].generation, known'[c].value)
    <3>1. CASE known' = known
      BY <3>1 DEF IInv, DataInv, ClientInv, ReadInv
    <3>2. CASE known' # known
      <4> DEFINE e == op[c].entry
      <4>1. op[c].kind = "lookup" /\ op[c].result = "ok"
        BY <2>1, <3>2
      <4>2. /\ e \in Entries /\ op[c].key \in Keys
            /\ Within(op[c].key, e.generation, e.value)
        BY <2>1, <4>1 DEF IInv, ClientInv, ReadInv, TokenInv
      <4>3. PICK s \in String(e.value) :
              known' = [known EXCEPT ![c] = [key |-> op[c].key, value |-> s, whole |-> s = e.value,
                                             generation |-> e.generation]]
        BY <1>9, <3>2 DEF LookupWait, InsertWait, DeleteWait, Returned
      <4>4. e.value \in Seq(Tokens) /\ e.generation \in Nat
        BY <4>2 DEF Entries
      <4>5. s \in Seq(Tokens)
        <5>1. <<>> \in Seq(Tokens)
          OBVIOUS
        <5>2. QED
          BY <4>4, <5>1 DEF String
      <4> DEFINE whole == s = e.value
                 k == [key |-> op[c].key, value |-> s, whole |-> whole, generation |-> e.generation]
      <4>6. whole \in BOOLEAN /\ (whole => s = e.value)
        OBVIOUS
      <4>7. known' = [known EXCEPT ![c] = k]
        BY <4>3
      <4> HIDE DEF whole
      <4>8. k \in Knowns
        BY <4>2, <4>4, <4>5, <4>6 DEF Knowns
      <4>9. k.whole => Within(k.key, k.generation, k.value)
        BY <4>2, <4>6
      <4> HIDE DEF k
      <4>10. QED
        BY <4>7, <4>8, <4>9 DEF IInv, DataInv
    <3>3. QED
      BY <3>1, <3>2
  <2>4. confirmed' \subseteq Tokens /\ confirmed' \subseteq Kept
    <3>1. CASE confirmed' = confirmed
      BY <3>1 DEF IInv, DataInv
    <3>2. CASE confirmed' # confirmed
      <4>1. op[c].kind = "insert" /\ r = "ok" /\ confirmed' = confirmed \cup {<<c, count[c]>>}
        BY <2>1, <3>2
      <4>2. <<c, count[c]>> \in Kept /\ <<c, count[c]>> \in Tokens
        BY <2>1, <2>2, <4>1 DEF IInv, ClientInv, TokenInv, AnswerInv, Tokens
      <4>3. QED
        BY <4>1, <4>2 DEF IInv, DataInv
    <3>3. QED
      BY <3>1, <3>2
  <2>5. QED
    BY <2>1, <2>2, <2>3, <2>4, ReturnKeeps
<1>10. QED
  BY <1>2, <1>3, <1>4, <1>5, <1>6, <1>7, <1>8, <1>9 DEF ClientNext

\* With any number of clients of a Store, what each has read, is writing and was
\* told agrees with what the host has, and so does the listing.
THEOREM Invariance == Spec => []IInv
<1>1. ASSUME IInv, [Next]_vars PROVE IInv'
  <2>1. CASE ListNext
    BY <1>1, <2>1, ListKeeps
  <2>2. ASSUME NEW c \in Clients, ClientNext(c) PROVE IInv'
    BY <1>1, <2>2, ClientKeeps
  <2>3. CASE UNCHANGED vars
    <3>1. Kept' = Kept /\ \A k, g, v : Within(k, g, v)' <=> Within(k, g, v)
      BY <2>3 DEF vars, Kept, Within
    <3>2. DataInv' /\ ListInv'
      BY <1>1, <2>3 DEF vars, clientVars, listVars, IInv, DataInv, ListInv, AtEnd, There
    <3>3. ASSUME NEW c \in Clients PROVE ClientInv(c)'
      BY <1>1, <2>3, <3>1
      DEF vars, clientVars, IInv, ClientInv, ReadInv, TokenInv, AnswerInv
    <3>4. QED
      BY <1>1, <2>3, <3>1, <3>2, <3>3 DEF vars, clientVars, IInv
  <2>4. QED
    BY <1>1, <2>1, <2>2, <2>3 DEF Next
<1>2. QED
  BY InitInv, <1>1, PTL DEF Spec

\* The operations of the clients, the host's store and the ListIter keep their types.
THEOREM TypeCorrect == Spec => []TypeOK
<1>1. IInv => TypeOK
  BY KeyAssumption, JoinedElements DEF IInv, DataInv, ListInv, TypeOK, There
<1>2. QED
  BY <1>1, Invariance, PTL

\* No confirmed update is lost, however many clients read, compute and write:
\* the generation that a Lookup has read goes with the insert (of a caller whose
\* Entry.String has read the value).
THEOREM UpdatesAreKept == Spec => []NoLostUpdate
<1>1. IInv => NoLostUpdate
  BY DEF IInv, Kept, NoLostUpdate
<1>2. QED
  BY <1>1, Invariance, PTL

\* What Insert and Delete return says whether the host has done it, unless it is
\* an error that a status of the wait may have become.
THEOREM ErrorsAreTrue == Spec => []ToldTheTruth
<1>1. IInv => ToldTheTruth
  BY DEF IInv, ClientInv, AnswerInv, ToldTheTruth
<1>2. QED
  BY <1>1, Invariance, PTL

\* A listing that ends without an error is complete and repeats nothing, for
\* pages of any size, whatever is inserted and deleted between two of them.
THEOREM ListingIsComplete == Spec => []ListComplete
<1>1. IInv => ListComplete
  BY JoinedElements DEF IInv, ListInv, ListComplete
<1>2. QED
  BY <1>1, Invariance, PTL
=============================================================================
