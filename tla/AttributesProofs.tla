-------------------------- MODULE AttributesProofs --------------------------
(***************************************************************************)
(* What a program tells the host of a response, and what it asks.  The     *)
(* cache write options for any hook, any suggestions of the host and any   *)
(* number of calls; then the attributes that are read one value at a time, *)
(* for any goroutines, buffers and lengths of values.                      *)
(***************************************************************************)
EXTENDS CandidateOptions, HostReads, SequenceTheorems, TLAPS

\* The suggestion that was shown to the hook has the keys of the request.
MemoInv == memo # Unset => request.keys \subseteq memo.keys

\* The hook's word on an option is what the options at hand make of it.
WordInv ==
  /\ \A o \in Options : word[o] # Unset /\ set[o] # Unset => word[o] = set[o]
  /\ \A o \in Options : word[o] # Unset /\ set[o] = Unset => memo # Unset /\ word[o] = memo[o]
  /\ word.ttl # Unset => memo # Unset /\ word.ttl = Remaining(memo)

\* An insert where the host says update has been refused before, or has a cookie.
StorageInv ==
  /\ storage \in {"do_not_store", "record_uncacheable"} => refused
  /\ storage = "insert" /\ prepared.action = "update" => prepared.cookie \/ refused

\* What is stored is what the hook has left, and it stays so.
StoredInv ==
  stored # Unset /\ stored.action # "error" =>
    /\ stored.action = IF storage = Unset THEN SuggestedStorageAction ELSE storage
    /\ stored.options = Finalized(getSuggestedCacheWriteOptions)

IInv == TypeOK /\ MemoInv /\ WordInv /\ StorageInv /\ StoredInv
-----------------------------------------------------------------------------
(***************************************************************************)
(* Lemmas about the options.                                               *)
(***************************************************************************)

\* A duration of the host comes to the program as a uint32.
LEMMA SecondsAreWords ==
  ASSUME NEW ns \in Nat
  PROVE  u64nsTou32s(ns) \in Words
<1>1. ns \div Second \in Nat
  BY UnitAssumption
<1> QED
  BY <1>1, UnitAssumption DEF u64nsTou32s, Words

\* buildFreshSuggestedCacheWriteOptions fills in every option and has the
\* keys of the request.
LEMMA FreshIsWhole ==
  ASSUME TypeOK
  PROVE  BuildFresh \in WriteOptions /\ request.keys \subseteq BuildFresh.keys
<1>1. /\ host.maxAge \in Nat /\ host.age \in Nat /\ host.swr \in Nat /\ host.sie \in Nat
      /\ host.vary \in Rules /\ host.keys \in SUBSET Keys
  BY SuggestionAssumption DEF TypeOK
<1>2. request.keys \in SUBSET Keys /\ headerKeys \in SUBSET Keys
  BY RequestAssumption DEF TypeOK
<1>3. PICK abi : abi = HTTPCacheGetSuggestedCacheOptions
  OBVIOUS
<1>4. abi \in [maxAge : Nat, age : Nat, swr : Nat, sie : Nat,
               vary : Rules, keys : SUBSET Keys, sensitive : BOOLEAN]
  BY <1>1, <1>3 DEF HTTPCacheGetSuggestedCacheOptions
<1>5. /\ u64nsTou32s(abi.maxAge) \in Words /\ u64nsTou32s(abi.age) \in Words
      /\ u64nsTou32s(abi.swr) \in Words /\ u64nsTou32s(abi.sie) \in Words
  BY <1>4, SecondsAreWords
<1>6. Suggested \in WriteOptions
  BY <1>3, <1>4, <1>5 DEF Suggested, loadFromABI, WriteOptions
<1>7. Suggested.keys \cup request.keys \cup headerKeys \in SUBSET Keys
  BY <1>2, <1>6 DEF WriteOptions
<1>8. PICK keys : keys = Suggested.keys \cup request.keys \cup headerKeys
  OBVIOUS
<1>9. BuildFresh = [Suggested EXCEPT !.keys = keys]
  BY <1>8 DEF BuildFresh
<1>10. BuildFresh \in WriteOptions /\ BuildFresh.keys = keys
  BY <1>6, <1>7, <1>8, <1>9 DEF WriteOptions
<1> QED
  BY <1>8, <1>10

\* The suggestion the hook is shown.
LEMMA SuggestionIsWhole ==
  ASSUME TypeOK, MemoInv
  PROVE  /\ getSuggestedCacheWriteOptions \in WriteOptions
         /\ getSuggestedCacheWriteOptions # Unset
         /\ request.keys \subseteq getSuggestedCacheWriteOptions.keys
BY FreshIsWhole, UnsetAssumption DEF TypeOK, MemoInv, getSuggestedCacheWriteOptions

\* Every option of the suggestion is a value of the option.
LEMMA OptionsHaveValues ==
  ASSUME NEW opts \in WriteOptions, NEW o \in Options
  PROVE  opts[o] \in Values(o) /\ opts[o] # Unset
<1>1. opts[o] \in Values(o)
  BY DEF WriteOptions, Options, Values
<1> QED
  BY <1>1, UnsetAssumption DEF Settable

\* An option that is overridden or suggested is a value of that option.
LEMMA ChosenHasValue ==
  ASSUME TypeOK, NEW opts \in WriteOptions, NEW o \in Options
  PROVE  Chosen(o, opts) \in Values(o)
BY OptionsHaveValues DEF TypeOK, PartOf, Chosen, Settable

\* Taking the age off a TTL never wraps around.
LEMMA LifetimeIsWord ==
  ASSUME TypeOK, NEW opts \in WriteOptions
  PROVE  Lifetime(opts) \in Words /\ Remaining(opts) \in Words
<1>1. set["ttl"] = Unset \/ set["ttl"] \in Words
  BY DEF TypeOK, PartOf, Settable, Values
<1>2. opts.age \in Words /\ opts.maxAge \in Words
  BY DEF WriteOptions
<1> QED
  BY <1>1, <1>2, UnitAssumption DEF Words, Lifetime, Remaining

\* What finalizeOptions writes has every option.
LEMMA FinalizedIsWhole ==
  ASSUME TypeOK, NEW opts \in WriteOptions
  PROVE  Finalized(opts) \in WriteOptions
<1>1. /\ Chosen("swr", opts) \in Words /\ Chosen("sie", opts) \in Words
      /\ Chosen("vary", opts) \in Rules /\ Chosen("keys", opts) \in SUBSET Keys
      /\ Chosen("sensitive", opts) \in BOOLEAN
  BY ChosenHasValue DEF Options, Values
<1>2. opts.age \in Words
  BY DEF WriteOptions
<1> QED
  BY <1>1, <1>2, LifetimeIsWord DEF Finalized, WriteOptions
-----------------------------------------------------------------------------
(***************************************************************************)
(* The invariant holds at first and is kept by every action.               *)
(***************************************************************************)

\* newCandidate: the hook has had no word yet.
LEMMA InitHolds == Init => IInv
<1> SUFFICES ASSUME Init PROVE IInv
  OBVIOUS
<1>1. request.ttl \in Words /\ request.swr \in Words /\ request.sie \in Words /\ request.sensitive \in BOOLEAN
  BY RequestAssumption DEF Init
<1>2. PartOf(set)
  <2>1. set = Overrides(request)
    BY DEF Init
  <2>2. DOMAIN set = Settable
    BY <2>1 DEF Overrides
  <2>3. ASSUME NEW o \in Settable PROVE set[o] = Unset \/ set[o] \in Values(o)
    BY <1>1, <2>1 DEF Overrides, NonZero, Values, Settable, Options
  <2> QED
    BY <2>2, <2>3 DEF PartOf
<1>3. PartOf(word) /\ \A o \in Settable : word[o] = Unset
  BY DEF Init, PartOf
<1>4. TypeOK
  <2>1. calls \in 0 .. MaxCalls /\ age \in Nat
    BY SecsAssumption DEF Init
  <2>2. /\ host \in Suggestions /\ request \in Requests /\ headerKeys \in SUBSET Keys
        /\ prepared \in Prepared /\ refused \in BOOLEAN
    BY DEF Init
  <2>3. /\ memo \in WriteOptions \cup {Unset} /\ storage \in Actions \cup {Unset}
        /\ stored \in Outcomes \cup {Unset} /\ found \in WriteOptions \cup {Unset}
    BY DEF Init
  <2> QED
    BY <1>2, <1>3, <2>1, <2>2, <2>3 DEF TypeOK
<1>5. WordInv
  BY <1>3 DEF WordInv, Settable
<1> QED
  BY <1>4, <1>5, UnsetAssumption DEF Init, IInv, MemoInv, StorageInv, StoredInv, Actions

\* What every call of the hook leaves alone.
LEMMA CallKeeps ==
  ASSUME IInv, Call
  PROVE  /\ stored' = Unset /\ StoredInv'
         /\ calls' \in 0 .. MaxCalls
         /\ prepared' = prepared /\ request' = request /\ age' = age /\ found' = found
BY SecsAssumption DEF IInv, TypeOK, Call, StoredInv

\* A changed header does not touch what the hook was shown.
LEMMA ChangeHeaderKeeps ==
  ASSUME IInv, ChangeHeader
  PROVE  IInv'
<1>1. Call
  BY DEF ChangeHeader
<1>2. TypeOK'
  BY <1>1, CallKeeps DEF IInv, TypeOK, ChangeHeader, Call, PartOf
<1>3. MemoInv' /\ WordInv' /\ StorageInv'
  BY <1>1, CallKeeps DEF IInv, ChangeHeader, MemoInv, WordInv, Remaining, StorageInv
<1> QED
  BY <1>1, <1>2, <1>3, CallKeeps DEF IInv

\* The suggestion is kept once it was shown.
LEMMA ReadKeeps ==
  ASSUME IInv, NEW o \in Options, Read(o)
  PROVE  IInv'
<1>1. Call
  BY DEF Read
<1>2. PICK opts : opts = getSuggestedCacheWriteOptions
  OBVIOUS
<1>3. opts \in WriteOptions /\ opts # Unset /\ request.keys \subseteq opts.keys
  BY <1>2, SuggestionIsWhole DEF IInv
<1>4. memo # Unset => opts = memo
  BY <1>2 DEF getSuggestedCacheWriteOptions
<1>5. /\ memo' = (IF set[o] # Unset THEN memo ELSE opts)
      /\ word' = [word EXCEPT ![o] = Chosen(o, opts)]
      /\ UNCHANGED <<host, headerKeys, set, storage, refused>>
  BY <1>2 DEF Read
<1>6. Chosen(o, opts) \in Values(o)
  BY <1>3, ChosenHasValue DEF IInv
<1>7. o \in Settable /\ DOMAIN word = Settable /\ o # "ttl"
  BY DEF IInv, TypeOK, PartOf, Settable, Options
<1>8. PartOf(word')
  BY <1>5, <1>6, <1>7 DEF IInv, TypeOK, PartOf
<1>9. TypeOK'
  BY <1>1, <1>3, <1>5, <1>8, CallKeeps DEF IInv, TypeOK
<1>10. MemoInv'
  BY <1>1, <1>3, <1>5, CallKeeps DEF IInv, MemoInv
<1>11. memo # Unset => memo' = memo
  BY <1>4, <1>5
<1>12. WordInv'
  <2>1. ASSUME NEW p \in Options
        PROVE  /\ word'[p] # Unset /\ set[p] # Unset => word'[p] = set[p]
               /\ word'[p] # Unset /\ set[p] = Unset => memo' # Unset /\ word'[p] = memo'[p]
    <3>1. CASE p = o
      BY <1>3, <1>5, <1>7, <3>1 DEF Chosen
    <3>2. CASE p # o
      <4>1. word'[p] = word[p]
        BY <1>5, <1>7, <3>2 DEF Settable
      <4> QED
        BY <1>11, <4>1 DEF IInv, WordInv
    <3> QED
      BY <3>1, <3>2
  <2>2. word'["ttl"] = word["ttl"]
    BY <1>5, <1>7 DEF Settable
  <2>3. word'["ttl"] # Unset => memo' # Unset /\ word'["ttl"] = Remaining(memo')
    BY <1>11, <2>2 DEF IInv, WordInv
  <2> QED
    BY <1>5, <2>1, <2>3 DEF WordInv, Remaining
<1> QED
  BY <1>1, <1>5, <1>9, <1>10, <1>12, CallKeeps DEF IInv, StorageInv

\* What TTLRemaining tells is what remains of the suggestion it keeps.
LEMMA TTLRemainingKeeps ==
  ASSUME IInv, TTLRemaining
  PROVE  IInv'
<1>1. Call
  BY DEF TTLRemaining
<1>2. PICK opts : opts = getSuggestedCacheWriteOptions
  OBVIOUS
<1>3. opts \in WriteOptions /\ opts # Unset /\ request.keys \subseteq opts.keys
  BY <1>2, SuggestionIsWhole DEF IInv
<1>4. memo # Unset => opts = memo
  BY <1>2 DEF getSuggestedCacheWriteOptions
<1>5. /\ memo' = opts
      /\ word' = [word EXCEPT !["ttl"] = Remaining(opts)]
      /\ UNCHANGED <<host, headerKeys, set, storage, refused>>
  BY <1>2 DEF TTLRemaining
<1>6. Remaining(opts) \in Values("ttl")
  BY <1>3, LifetimeIsWord DEF IInv, Values
<1>7. "ttl" \in Settable /\ DOMAIN word = Settable
  BY DEF IInv, TypeOK, PartOf, Settable
<1>8. PartOf(word')
  BY <1>5, <1>6, <1>7 DEF IInv, TypeOK, PartOf
<1>9. TypeOK'
  BY <1>1, <1>3, <1>5, <1>8, CallKeeps DEF IInv, TypeOK
<1>10. MemoInv'
  BY <1>1, <1>3, <1>5, CallKeeps DEF MemoInv
<1>11. WordInv'
  <2>1. \A p \in Options : word'[p] = word[p]
    BY <1>5, <1>7 DEF Settable, Options
  <2>2. word'["ttl"] = Remaining(opts)
    BY <1>5, <1>7
  <2> QED
    BY <1>3, <1>4, <1>5, <2>1, <2>2 DEF IInv, WordInv, Remaining
<1> QED
  BY <1>1, <1>5, <1>9, <1>10, <1>11, CallKeeps DEF IInv, StorageInv

\* What the hook sets is its word; a new TTL has to be asked for again.
LEMMA SetKeeps ==
  ASSUME IInv, NEW o \in Settable, NEW v \in Values(o), Set(o, v)
  PROVE  IInv'
<1>1. Call
  BY DEF Set
<1>2. PICK w : w = IF o = "ttl" THEN Unset ELSE v
  OBVIOUS
<1>3. /\ set' = [set EXCEPT ![o] = v] /\ word' = [word EXCEPT ![o] = w]
      /\ UNCHANGED <<host, headerKeys, memo, storage, refused>>
  BY <1>2 DEF Set
<1>4. DOMAIN set = Settable /\ DOMAIN word = Settable /\ v # Unset
  BY UnsetAssumption DEF IInv, TypeOK, PartOf
<1>5. PartOf(set')
  BY <1>3, <1>4 DEF IInv, TypeOK, PartOf
<1>6. PartOf(word')
  BY <1>2, <1>3, <1>4 DEF IInv, TypeOK, PartOf
<1>7. TypeOK'
  BY <1>1, <1>3, <1>5, <1>6, CallKeeps DEF IInv, TypeOK
<1>8. MemoInv'
  BY <1>1, <1>3, CallKeeps DEF IInv, MemoInv
<1>9. WordInv'
  <2>1. \A p \in Settable : p # o => set'[p] = set[p] /\ word'[p] = word[p]
    BY <1>3, <1>4
  <2>2. set'[o] = v /\ word'[o] = w
    BY <1>3, <1>4
  <2>3. "ttl" \in Settable /\ "ttl" \notin Options /\ Options \subseteq Settable
    BY DEF Settable, Options
  <2>4. ASSUME NEW p \in Options
        PROVE  /\ word'[p] # Unset /\ set'[p] # Unset => word'[p] = set'[p]
               /\ word'[p] # Unset /\ set'[p] = Unset => memo' # Unset /\ word'[p] = memo'[p]
    <3>1. CASE p = o
      BY <1>2, <1>4, <2>2, <2>3, <3>1
    <3>2. CASE p # o
      BY <1>3, <2>1, <2>3, <3>2 DEF IInv, WordInv
    <3> QED
      BY <3>1, <3>2
  <2>5. word'["ttl"] # Unset => memo' # Unset /\ word'["ttl"] = Remaining(memo)'
    <3>1. CASE o = "ttl"
      BY <1>2, <2>2, <3>1
    <3>2. CASE o # "ttl"
      BY <1>3, <2>1, <2>3, <3>2 DEF IInv, WordInv, Remaining
    <3> QED
      BY <3>1, <3>2
  <2> QED
    BY <2>4, <2>5 DEF WordInv
<1> QED
  BY <1>1, <1>3, <1>7, <1>8, <1>9, CallKeeps DEF IInv, StorageInv

\* SetCacheable keeps an update an update; who refuses is on record.
LEMMA StorageKeeps ==
  ASSUME IInv, SetCacheable \/ \E action \in Actions : SetUncacheable(action)
  PROVE  IInv'
<1>1. Call /\ UNCHANGED <<host, headerKeys, memo, set, word>>
  BY DEF SetCacheable, SetUncacheable
<1>2. storage' \in Actions /\ refused' \in BOOLEAN
  BY DEF IInv, TypeOK, SetCacheable, SetUncacheable, Actions
<1>3. TypeOK'
  BY <1>1, <1>2, CallKeeps DEF IInv, TypeOK, PartOf
<1>4. MemoInv' /\ WordInv'
  BY <1>1, CallKeeps DEF IInv, MemoInv, WordInv, Remaining
<1>5. StorageInv'
  <2>1. CASE SetCacheable
    <3>1. prepared \in Prepared /\ storage \in Actions \cup {Unset}
      BY DEF IInv, TypeOK
    <3>2. /\ storage' = (IF (IF storage = Unset THEN SuggestedStorageAction ELSE storage) = "update"
                         THEN "update" ELSE "insert")
          /\ refused' = refused
      BY <2>1 DEF SetCacheable
    <3> QED
      BY <1>1, <3>1, <3>2, CallKeeps
      DEF IInv, StorageInv, SuggestedStorageAction, Prepared, Actions
  <2>2. CASE \E action \in Actions : SetUncacheable(action)
    BY <2>2 DEF SetUncacheable, StorageInv
  <2> QED
    BY <2>1, <2>2
<1> QED
  BY <1>1, <1>3, <1>4, <1>5, CallKeeps DEF IInv

\* The entry is made of what the hook has left.
LEMMA FinalizeKeeps ==
  ASSUME IInv, finalizeOptions \/ finalizeFails
  PROVE  IInv'
<1>1. UNCHANGED <<hookVars, prepared, request, calls, found>>
  BY DEF finalizeOptions, finalizeFails
<1>2. MemoInv' /\ WordInv' /\ StorageInv'
  BY <1>1 DEF IInv, MemoInv, WordInv, Remaining, StorageInv, hookVars
<1>3. CASE finalizeOptions
  <2>1. PICK opts \in WriteOptions : opts = Finalized(getSuggestedCacheWriteOptions)
    BY SuggestionIsWhole, FinalizedIsWhole DEF IInv
  <2>2. PICK action : action = IF storage = Unset THEN SuggestedStorageAction ELSE storage
    OBVIOUS
  <2>3. action \in Actions
    BY <2>2 DEF IInv, TypeOK, SuggestedStorageAction, Prepared, Actions
  <2>4. stored' = [action |-> action, options |-> opts] /\ age' = u32sTou64ns(opts.age)
    BY <1>3, <2>1, <2>2 DEF finalizeOptions
  <2>5. age' \in Nat
    <3>1. opts.age \in Nat /\ Second \in Nat
      BY UnitAssumption DEF WriteOptions, Words
    <3> QED
      BY <2>4, <3>1 DEF u32sTou64ns
  <2>6. stored' \in Outcomes
    BY <2>3, <2>4 DEF Outcomes
  <2>7. TypeOK'
    BY <1>1, <2>5, <2>6 DEF IInv, TypeOK, hookVars, PartOf
  <2>8. /\ Finalized(getSuggestedCacheWriteOptions)' = Finalized(getSuggestedCacheWriteOptions)
        /\ (IF storage = Unset THEN SuggestedStorageAction ELSE storage)' = action
    BY <1>1, <2>2 DEF hookVars, Finalized, Lifetime, Chosen, getSuggestedCacheWriteOptions, BuildFresh,
                      Suggested, HTTPCacheGetSuggestedCacheOptions, loadFromABI, SuggestedStorageAction
  <2>9. StoredInv'
    BY <2>1, <2>4, <2>8 DEF StoredInv
  <2> QED
    BY <1>2, <2>7, <2>9 DEF IInv
<1>4. CASE finalizeFails
  <2>1. TypeOK'
    BY <1>1, <1>4 DEF IInv, TypeOK, hookVars, PartOf, finalizeFails, Outcomes
  <2> QED
    BY <1>2, <1>4, <2>1 DEF IInv, StoredInv, finalizeFails
<1> QED
  BY <1>3, <1>4

\* The entry's life: nothing of the options changes.
LEMMA EntryKeeps ==
  ASSUME IInv, Tick \/ GetFoundResponse \/ UNCHANGED vars
  PROVE  IInv'
<1>1. UNCHANGED <<hookVars, prepared, request, calls, stored>>
  BY DEF Tick, GetFoundResponse, vars
<1>2. MemoInv' /\ WordInv' /\ StorageInv'
  BY <1>1 DEF IInv, MemoInv, WordInv, Remaining, StorageInv, hookVars
<1>3. StoredInv'
  BY <1>1 DEF IInv, StoredInv, hookVars, Finalized, Lifetime, Chosen, getSuggestedCacheWriteOptions,
              BuildFresh, Suggested, HTTPCacheGetSuggestedCacheOptions, loadFromABI, SuggestedStorageAction
<1>4. age' \in Nat
  BY DEF IInv, TypeOK, Tick, GetFoundResponse, vars
<1>5. found' \in WriteOptions \cup {Unset}
  <2>1. CASE GetFoundResponse
    <3>1. PICK opts \in WriteOptions : opts = stored.options
      BY <2>1 DEF IInv, TypeOK, GetFoundResponse, IsEntry, Outcomes
    <3>2. /\ u32sTou64ns(opts.maxAge) \in Nat /\ u32sTou64ns(opts.swr) \in Nat
          /\ u32sTou64ns(opts.sie) \in Nat
      <4>1. opts.maxAge \in Nat /\ opts.swr \in Nat /\ opts.sie \in Nat /\ Second \in Nat
        BY UnitAssumption DEF WriteOptions, Words
      <4> QED
        BY <4>1 DEF u32sTou64ns
    <3>3. /\ HTTPCacheGetMaxAgeNs = u32sTou64ns(opts.maxAge)
          /\ HTTPCacheGetStaleWhileRevalidateNs = u32sTou64ns(opts.swr)
          /\ HTTPCacheGetStaleIfErrorNs = u32sTou64ns(opts.sie)
          /\ HTTPCacheGetSensitiveData = opts.sensitive /\ HTTPCacheGetSurrogateKeys = opts.keys
          /\ HTTPCacheGetVaryRule = opts.vary
      BY <3>1 DEF HTTPCacheGetMaxAgeNs, HTTPCacheGetStaleWhileRevalidateNs, HTTPCacheGetStaleIfErrorNs,
                  HTTPCacheGetSensitiveData, HTTPCacheGetSurrogateKeys, HTTPCacheGetVaryRule,
                  EntryOptions, flushToABI, WriteOptions
    <3>4. /\ u64nsTou32s(HTTPCacheGetMaxAgeNs) \in Words /\ u64nsTou32s(HTTPCacheGetAgeNs) \in Words
          /\ u64nsTou32s(HTTPCacheGetStaleWhileRevalidateNs) \in Words
          /\ u64nsTou32s(HTTPCacheGetStaleIfErrorNs) \in Words
      BY <3>2, <3>3, SecondsAreWords DEF IInv, TypeOK, HTTPCacheGetAgeNs
    <3>5. loadFromHandle \in WriteOptions
      BY <3>3, <3>4 DEF loadFromHandle, WriteOptions
    <3> QED
      BY <2>1, <3>5 DEF GetFoundResponse
  <2>2. CASE ~GetFoundResponse
    BY <2>2 DEF IInv, TypeOK, Tick, vars
  <2> QED
    BY <2>1, <2>2
<1>6. TypeOK'
  BY <1>1, <1>4, <1>5 DEF IInv, TypeOK, hookVars, PartOf
<1> QED
  BY <1>2, <1>3, <1>6 DEF IInv

\* Every step keeps the invariant.
LEMMA NextKeeps ==
  ASSUME IInv, [Next]_vars
  PROVE  IInv'
<1>1. CASE ChangeHeader \/ TTLRemaining
  BY <1>1, ChangeHeaderKeeps, TTLRemainingKeeps
<1>2. CASE \E o \in Options : Read(o)
  BY <1>2, ReadKeeps
<1>3. CASE \E o \in Settable : \E v \in Values(o) : Set(o, v)
  BY <1>3, SetKeeps
<1>4. CASE SetCacheable \/ \E action \in Actions : SetUncacheable(action)
  BY <1>4, StorageKeeps
<1>5. CASE finalizeOptions \/ finalizeFails
  BY <1>5, FinalizeKeeps
<1>6. CASE Tick \/ GetFoundResponse \/ UNCHANGED vars
  BY <1>6, EntryKeeps
<1> QED
  BY <1>1, <1>2, <1>3, <1>4, <1>5, <1>6 DEF Next

\* Every call of an AfterSend hook and finalizeOptions keep the invariant.
THEOREM Invariance == Spec => []IInv
BY InitHolds, NextKeeps, PTL DEF Spec
-----------------------------------------------------------------------------
(***************************************************************************)
(* The theorems.                                                           *)
(***************************************************************************)

\* The overrides, the suggestion, and what is stored and found keep their types.
THEOREM TypeCorrect == Spec => []TypeOK
<1>1. IInv => TypeOK
  BY DEF IInv
<1> QED
  BY <1>1, Invariance, PTL

\* What is stored is made of the overrides and of the suggestion.
LEMMA EntryIsFinalized ==
  ASSUME IInv, IsEntry
  PROVE  /\ stored.action = IF storage = Unset THEN SuggestedStorageAction ELSE storage
         /\ stored.options = Finalized(getSuggestedCacheWriteOptions)
         /\ memo # Unset => stored.options = Finalized(memo)
BY DEF IInv, StoredInv, IsEntry, getSuggestedCacheWriteOptions

\* finalizeOptions writes what the hook has read of an option, or has set it to,
\* whatever the hook changes in the headers in between.
THEOREM TheHookHasTheLastWord == Spec => []HookHasLastWord
<1>1. ASSUME IInv, IsEntry, NEW o \in Options, word[o] # Unset
      PROVE  stored.options[o] = word[o]
  <2>1. \A opts : Finalized(opts)[o] = Chosen(o, opts)
    BY DEF Finalized, Options
  <2>2. stored.options = Finalized(getSuggestedCacheWriteOptions)
        /\ (memo # Unset => stored.options = Finalized(memo))
    BY <1>1, EntryIsFinalized
  <2>3. CASE set[o] # Unset
    BY <1>1, <2>1, <2>2, <2>3 DEF IInv, WordInv, Chosen
  <2>4. CASE set[o] = Unset
    BY <1>1, <2>1, <2>2, <2>4 DEF IInv, WordInv, Chosen
  <2> QED
    BY <2>3, <2>4
<1>2. IInv => HookHasLastWord
  BY <1>1 DEF HookHasLastWord
<1> QED
  BY <1>2, Invariance, PTL

\* The surrogate keys of the request's CacheOptions are on the entry, unless
\* SetSurrogateKeys has replaced them.
THEOREM RequestKeysAreStored == Spec => []RequestKeysStored
<1>1. ASSUME IInv, IsEntry, set["keys"] = Unset
      PROVE  request.keys \subseteq stored.options.keys
  <2>1. PICK opts : opts = getSuggestedCacheWriteOptions
    OBVIOUS
  <2>2. request.keys \subseteq opts.keys
    BY <1>1, <2>1, SuggestionIsWhole DEF IInv
  <2>3. Finalized(opts).keys = opts.keys
    BY <1>1 DEF Finalized, Chosen
  <2> QED
    BY <1>1, <2>1, <2>2, <2>3, EntryIsFinalized
<1>2. IInv => RequestKeysStored
  BY <1>1 DEF RequestKeysStored
<1> QED
  BY <1>2, Invariance, PTL

\* SetCacheable never makes an insert of a response that only revalidates.
THEOREM RevalidationsAreNoInserts == Spec => []RevalidationIsNoInsert
<1>1. ASSUME IInv, stored # Unset, stored.action = "insert", prepared.action = "update"
      PROVE  prepared.cookie \/ refused
  <2>1. IsEntry
    BY <1>1 DEF IsEntry
  <2>2. "insert" = IF storage = Unset THEN SuggestedStorageAction ELSE storage
    BY <1>1, <2>1, EntryIsFinalized
  <2>3. CASE storage = Unset
    BY <1>1, <2>2, <2>3 DEF SuggestedStorageAction
  <2>4. CASE storage # Unset
    BY <1>1, <2>2, <2>4 DEF IInv, StorageInv
  <2> QED
    BY <2>3, <2>4
<1>2. IInv => RevalidationIsNoInsert
  BY <1>1 DEF RevalidationIsNoInsert
<1> QED
  BY <1>2, Invariance, PTL

\* The entry finalizeOptions makes is fresh no longer than TTLRemaining has told
\* the hook, and exactly as long unless the age is taken off a TTL that was set.
THEOREM TheTTLIsAsTold == Spec => []TTLAsTold
<1>1. ASSUME IInv, IsEntry, word["ttl"] # Unset
      PROVE  \/ Outlived /\ word["ttl"] = 0
             \/ /\ FreshFor <= word["ttl"]
                /\ (set["ttl"] = Unset \/ stored.options.age = 0) /\ FreshFor >= 0 => FreshFor = word["ttl"]
  <2>1. memo # Unset /\ word["ttl"] = Remaining(memo)
    BY <1>1 DEF IInv, WordInv
  <2>2. stored.options = Finalized(memo)
    BY <1>1, <2>1, EntryIsFinalized
  <2>3. FreshFor = Lifetime(memo) - memo.age /\ stored.options.age = memo.age
    BY <2>2 DEF Finalized, FreshFor
  <2>4. memo.age \in Nat /\ memo.maxAge \in Nat
    BY <1>1, <2>1 DEF IInv, TypeOK, WriteOptions, Words
  <2>5. CASE set["ttl"] = Unset
    BY <2>1, <2>3, <2>4, <2>5 DEF Lifetime, Remaining
  <2>6. CASE set["ttl"] # Unset
    <3>1. set["ttl"] \in Words
      BY <1>1, <2>6 DEF IInv, TypeOK, PartOf, Settable, Values
    <3>2. set["ttl"] \in Nat
      BY <3>1, UnitAssumption DEF Words
    <3>3. CASE set["ttl"] < memo.age
      BY <2>1, <2>3, <2>4, <2>6, <3>2, <3>3 DEF Remaining, Outlived
    <3>4. CASE set["ttl"] >= memo.age
      BY <2>1, <2>3, <2>4, <2>6, <3>2, <3>4 DEF Lifetime, Remaining
    <3> QED
      BY <2>4, <3>2, <3>3, <3>4
  <2> QED
    BY <2>5, <2>6
<1>2. IInv => TTLAsTold
  BY <1>1 DEF TTLAsTold
<1> QED
  BY <1>2, Invariance, PTL

\* Whole units in a duration.
LEMMA WholeUnits ==
  ASSUME NEW a \in Nat, NEW d \in Nat \ {0}
  PROVE  a \div d \in Nat /\ d * (a \div d) <= a /\ a < d * (a \div d) + d
<1>1. a \div d \in Nat
  OBVIOUS
<1>2. d * (a \div d) <= a
  OBVIOUS
<1>3. a < d * (a \div d) + d
  OBVIOUS
<1> QED
  BY <1>1, <1>2, <1>3

\* A uint32 of seconds comes back as it was written.
LEMMA SecondsComeBack ==
  ASSUME NEW s \in Words
  PROVE  u64nsTou32s(u32sTou64ns(s)) = s
<1> DEFINE q == (s * Second) \div Second
<1>1. s \in Nat /\ Second \in Nat \ {0} /\ s * Second \in Nat
  BY UnitAssumption DEF Words
<1>2. q \in Nat /\ Second * q <= s * Second /\ s * Second < Second * q + Second
  BY <1>1, WholeUnits
<1> HIDE DEF q
<1>3. q = s
  BY <1>1, <1>2
<1>4. s % U32 = s
  BY UnitAssumption DEF Words
<1> QED
  BY <1>3, <1>4 DEF u64nsTou32s, u32sTou64ns, q

\* While an entry is fresh, Response.TTL is what is left of its life, rounded
\* up to whole seconds: uint32 arithmetic does not wrap around.
THEOREM FreshTTLIsTheRest == Spec => FreshTTL
<1>1. ASSUME IInv, [Next]_vars, found' # found, u32sTou64ns(stored.options.maxAge) - age >= 0
      PROVE  /\ u32sTou64ns(stored.options.maxAge) - age <= u32sTou64ns(ResponseTTL')
             /\ u32sTou64ns(ResponseTTL') < u32sTou64ns(stored.options.maxAge) - age + Second
  <2>1. GetFoundResponse
    BY <1>1 DEF Next, vars, ChangeHeader, TTLRemaining, SetCacheable, Read, Set, SetUncacheable, Call,
                finalizeOptions, finalizeFails, Tick
  <2>2. PICK opts \in WriteOptions : opts = stored.options
    BY <1>1, <2>1 DEF IInv, TypeOK, GetFoundResponse, IsEntry, Outcomes
  <2>3. PICK m \in Words : m = opts.maxAge
    BY DEF WriteOptions
  <2>4. HTTPCacheGetMaxAgeNs = u32sTou64ns(m)
    BY <2>2, <2>3 DEF HTTPCacheGetMaxAgeNs, EntryOptions, flushToABI, WriteOptions
  <2>5. found'.maxAge = m /\ found'.age = u64nsTou32s(age)
    BY <2>1, <2>3, <2>4, SecondsComeBack DEF GetFoundResponse, loadFromHandle, HTTPCacheGetAgeNs
  <2>6. PICK a \in Nat : a = age
    BY <1>1 DEF IInv, TypeOK
  <2>7. PICK q \in Nat : q = a \div Second
    BY UnitAssumption, WholeUnits
  <2>8. Second * q <= a /\ a < Second * q + Second
    BY <2>7, UnitAssumption, WholeUnits
  <2>9. m \in Nat /\ m < U32 /\ a <= m * Second
    <3>1. m \in Nat /\ m < U32 /\ m * Second \in Int
      BY UnitAssumption DEF Words
    <3>2. u32sTou64ns(stored.options.maxAge) = m * Second
      BY <2>2, <2>3 DEF u32sTou64ns
    <3> QED
      BY <1>1, <2>6, <3>1, <3>2
  <2>10. q <= m
    BY <2>8, <2>9, UnitAssumption
  <2>11. found'.age = q
    BY <2>5, <2>6, <2>7, <2>9, <2>10, UnitAssumption DEF u64nsTou32s
  <2>12. ResponseTTL' = m - q
    BY <2>5, <2>9, <2>10, <2>11, UnitAssumption DEF ResponseTTL
  <2>13. (m - q) * Second = m * Second - Second * q
    BY <2>9, UnitAssumption
  <2>14. u32sTou64ns(ResponseTTL') = m * Second - Second * q
    BY <2>12, <2>13 DEF u32sTou64ns
  <2>15. u32sTou64ns(stored.options.maxAge) - age = m * Second - a
    BY <2>2, <2>3, <2>6 DEF u32sTou64ns
  <2>16. m * Second \in Int /\ Second * q \in Int /\ Second \in Int
    BY <2>9, UnitAssumption
  <2> QED
    BY <2>8, <2>14, <2>15, <2>16
<1>2. IInv /\ [Next]_vars =>
        [LET left == u32sTou64ns(stored.options.maxAge) - age
         IN  found' # found /\ left >= 0 =>
               /\ left <= u32sTou64ns(ResponseTTL')
               /\ u32sTou64ns(ResponseTTL') < left + Second]_vars
  BY <1>1
<1> QED
  BY <1>2, Invariance, PTL DEF Spec, FreshTTL
-----------------------------------------------------------------------------
(***************************************************************************)
(* HostReads.                                                              *)
(***************************************************************************)

\* The attributes of the host, and the steps of a read.  Only the first may end
\* it for want of a value.
Kinds == {"buffer", "scalar", "flag", "category", "probe", "shared"}
Attrs == {a \in [kind : Kinds, cap : Nat, grows : BOOLEAN] : a.kind = "shared" => ~a.grows}
Policies == {"required", "optional", "none_stops", "false_stops", "best_effort"}
Steps == [attr : Attrs, on : Policies]
LaterSteps == [attr : Attrs, on : Policies \ {"none_stops"}]

\* Something is read, and only the first step ends the read without a value.
GoodPlan(p) ==
  /\ p \in Seq(Steps) /\ Len(p) > 0
  /\ \A i \in 1 .. Len(p) : p[i].on = "none_stops" => i = 1

\* The goroutine is at one of its steps; it has the mutex.
Running == {"asking", "locked", "filled"}
Inside == {"locked", "filled"}

\* A goroutine at a step has a function to run, and values for the steps before.
ProgressInv(r) ==
  /\ pc[r] = "idle" => got[r] = <<>> /\ err[r] = "ok"
  /\ pc[r] \in Running => plan[r] \in Plans /\ Len(got[r]) < Len(plan[r])

\* The values so far are whole.
WholeInv(r) ==
  /\ Len(got[r]) <= Len(plan[r])
  /\ \A i \in 1 .. Len(got[r]) : Whole(r, i)

\* A value too long is one of a buffer that does not grow, and the read has
\* ended where it may.
ErrorInv(r) ==
  /\ err[r] = "buf_len" => \E i \in DOMAIN plan[r] : ~plan[r][i].attr.grows
  /\ pc[r] = "done" => Len(got[r]) = Len(plan[r]) \/ Stopped(r) \/ (err[r] # "ok" /\ got[r] = <<>>)

\* Who is inside has the mutex, and the value in the buffer is its own.
BufferInv(r) ==
  /\ pc[r] \in Inside => mu = r /\ Shares(r)
  /\ pc[r] = "filled" => asked[r] # Absent /\ valueBuf = <<r, asked[r]>>

ReaderInv(r) == ProgressInv(r) /\ WholeInv(r) /\ ErrorInv(r) /\ BufferInv(r)

HostReadsInv == ReadsTypeOK /\ \A r \in Readers : ReaderInv(r)

-----------------------------------------------------------------------------
\* Buffers, out parameters and probes are attributes, and the buffer of the
\* dictionary does not grow.
LEMMA KindsOfAttributes ==
  /\ \A n \in Nat : Adaptive(n) \in Attrs /\ Fixed(n) \in Attrs /\ Shared(n) \in Attrs
  /\ Scalar \in Attrs /\ Flag \in Attrs /\ Category \in Attrs /\ Probe \in Attrs
<1>1. \A n \in Nat : Adaptive(n) \in Attrs /\ Fixed(n) \in Attrs /\ Shared(n) \in Attrs
  BY DEF Adaptive, Fixed, Shared, Attrs, Kinds
<1>2. Scalar \in Attrs /\ Probe \in Attrs
  BY BufferAssumption DEF Scalar, Probe, Attrs, Kinds
<1>3. ASSUME NEW s \in Attrs, s.kind = "scalar", NEW k \in {"flag", "category"}
      PROVE  [s EXCEPT !.kind = k] \in Attrs
  <2>1. PICK t : t = [s EXCEPT !.kind = k]
    OBVIOUS
  <2>2. t.kind = k /\ t \in [kind : Kinds, cap : Nat, grows : BOOLEAN]
    BY <2>1 DEF Attrs, Kinds
  <2> QED
    BY <2>1, <2>2 DEF Attrs
<1>4. Flag \in Attrs /\ Category \in Attrs
  BY <1>2, <1>3 DEF Flag, Category, Scalar
<1> QED
  BY <1>1, <1>2, <1>4

\* A policy makes one step of every attribute.
LEMMA OnIsSequence ==
  ASSUME NEW policy \in Policies \ {"none_stops"}, NEW attrs \in Seq(Attrs)
  PROVE  On(policy, attrs) \in Seq(LaterSteps) /\ Len(On(policy, attrs)) = Len(attrs)
<1>1. PICK p : p = On(policy, attrs)
  OBVIOUS
<1>2. p = [i \in 1 .. Len(attrs) |-> [attr |-> attrs[i], on |-> policy]]
  BY <1>1 DEF On
<1>3. \A i \in 1 .. Len(attrs) : [attr |-> attrs[i], on |-> policy] \in LaterSteps
  BY DEF LaterSteps
<1> QED
  BY <1>1, <1>2, <1>3

\* Steps that are no first steps make a plan.
LEMMA LaterStepsAreGood ==
  ASSUME NEW p \in Seq(LaterSteps), Len(p) > 0
  PROVE  GoodPlan(p)
<1>1. \A s \in LaterSteps : s \in Steps /\ s.on # "none_stops"
  BY DEF LaterSteps, Steps
<1>2. \A i \in 1 .. Len(p) : p[i] \in LaterSteps
  OBVIOUS
<1>3. p \in Seq(Steps)
  BY <1>1
<1> QED
  BY <1>1, <1>2, <1>3 DEF GoodPlan

\* A plan can be followed by steps that are no first steps.
LEMMA GoodPlansGrow ==
  ASSUME NEW p, GoodPlan(p), NEW q \in Seq(LaterSteps)
  PROVE  GoodPlan(p \o q)
<1>1. \A s \in LaterSteps : s \in Steps /\ s.on # "none_stops"
  BY DEF LaterSteps, Steps
<1>2. q \in Seq(Steps) /\ p \in Seq(Steps) /\ Len(p) > 0
  BY <1>1 DEF GoodPlan
<1>3. /\ p \o q \in Seq(Steps) /\ Len(p \o q) = Len(p) + Len(q)
      /\ \A i \in 1 .. Len(p) + Len(q) :
           (p \o q)[i] = IF i <= Len(p) THEN p[i] ELSE q[i - Len(p)]
  BY <1>2, ConcatProperties
<1>4. ASSUME NEW i \in 1 .. Len(p \o q), (p \o q)[i].on = "none_stops" PROVE i = 1
  <2>1. CASE i <= Len(p)
    BY <1>2, <1>3, <1>4, <2>1 DEF GoodPlan
  <2>2. CASE i > Len(p)
    <3>1. i - Len(p) \in 1 .. Len(q)
      BY <1>2, <1>3, <2>2
    <3>2. q[i - Len(p)] \in LaterSteps
      BY <3>1
    <3> QED
      BY <1>1, <1>2, <1>3, <1>4, <2>2, <3>2
  <2> QED
    BY <1>2, <2>1, <2>2
<1> QED
  BY <1>2, <1>3, <1>4 DEF GoodPlan

\* TLSClientCertificateInfo, ResVPNProxyData: a first step that may end the read.
LEMMA FirstStepIsGood ==
  ASSUME NEW a \in Attrs
  PROVE  GoodPlan(NoneStops(<<a>>))
<1>1. PICK p : p = NoneStops(<<a>>)
  OBVIOUS
<1>2. p = << [attr |-> a, on |-> "none_stops"] >>
  BY <1>1 DEF NoneStops, On
<1>3. [attr |-> a, on |-> "none_stops"] \in Steps
  BY DEF Steps, Policies
<1>4. p \in Seq(Steps) /\ Len(p) = 1
  BY <1>2, <1>3
<1>5. \A i \in 1 .. Len(p) : i = 1
  BY <1>4
<1>6. GoodPlan(p)
  BY <1>4, <1>5 DEF GoodPlan
<1> QED
  BY <1>1, <1>6

\* The plans and the parts of plans a policy makes.
LEMMA PolicyPlans ==
  ASSUME NEW attrs \in Seq(Attrs)
  PROVE  /\ Required(attrs) \in Seq(LaterSteps) /\ Len(Required(attrs)) = Len(attrs)
         /\ Optional(attrs) \in Seq(LaterSteps) /\ Len(Optional(attrs)) = Len(attrs)
         /\ FalseStops(attrs) \in Seq(LaterSteps) /\ Len(FalseStops(attrs)) = Len(attrs)
         /\ BestEffort(attrs) \in Seq(LaterSteps) /\ Len(BestEffort(attrs)) = Len(attrs)
         /\ attrs # <<>> => /\ GoodPlan(Required(attrs)) /\ GoodPlan(Optional(attrs))
                           /\ GoodPlan(FalseStops(attrs))
<1>1. /\ Required(attrs) \in Seq(LaterSteps) /\ Len(Required(attrs)) = Len(attrs)
      /\ Optional(attrs) \in Seq(LaterSteps) /\ Len(Optional(attrs)) = Len(attrs)
      /\ FalseStops(attrs) \in Seq(LaterSteps) /\ Len(FalseStops(attrs)) = Len(attrs)
      /\ BestEffort(attrs) \in Seq(LaterSteps) /\ Len(BestEffort(attrs)) = Len(attrs)
  BY OnIsSequence DEF Required, Optional, FalseStops, BestEffort, Policies
<1>2. attrs # <<>> => Len(attrs) > 0
  OBVIOUS
<1> QED
  BY <1>1, <1>2, LaterStepsAreGood

\* Every function of the SDK that reads attributes reads something, and ends
\* for want of a value at its first step only.
LEMMA PlansAreGood ==
  ASSUME NEW p \in Plans
  PROVE  GoodPlan(p)
<1> USE BufferAssumption, KindsOfAttributes
<1>1. GoodPlan(newClientRequest) /\ GoodPlan(TLSInfo)
  <2>1. <<Method, URI, Version, ClientIPAddr, ServerIPAddr>> \in Seq(Attrs)
    BY DEF Method, URI, Version, ClientIPAddr, ServerIPAddr
  <2>2. <<TLSProtocol, TLSClientHello, TLSClientServername,
          TLSCipherOpenSSLName, TLSJA3MD5, TLSJA4>> \in Seq(Attrs)
    BY DEF TLSProtocol, TLSClientHello, TLSClientServername, TLSCipherOpenSSLName, TLSJA3MD5, TLSJA4
  <2> QED
    BY <2>1, <2>2, PolicyPlans DEF newClientRequest, TLSInfo
<1>2. GoodPlan(FastlyMeta)
  <2>1. /\ <<RequestID>> \in Seq(Attrs) /\ <<H2Fingerprint, OHFingerprint>> \in Seq(Attrs)
        /\ <<DDOSDetected, FastlyKeyIsValid>> \in Seq(Attrs)
    BY DEF RequestID, H2Fingerprint, OHFingerprint, DDOSDetected, FastlyKeyIsValid
  <2> QED
    BY <2>1, PolicyPlans, GoodPlansGrow DEF FastlyMeta
<1>3. GoodPlan(TLSClientCertificateInfo)
  <2>1. /\ TLSRawClientCertificate \in Attrs /\ <<TLSClientCertVerifyResult>> \in Seq(Attrs)
    BY DEF TLSRawClientCertificate, TLSClientCertVerifyResult
  <2> QED
    BY <2>1, PolicyPlans, FirstStepIsGood, GoodPlansGrow DEF TLSClientCertificateInfo
<1>4. GoodPlan(ResVPNProxyData)
  <2>1. /\ ResVPNProxyIsAnonymous \in Attrs
        /\ ResVPNProxyConnection \in Seq(Attrs) /\ ResVPNProxyNetwork \in Seq(Attrs)
        /\ <<VPNServiceName>> \in Seq(Attrs)
    BY DEF ResVPNProxyIsAnonymous, ResVPNProxyConnection, ResVPNProxyNetwork, VPNServiceName
  <2>2. ResVPNProxyConnection \o ResVPNProxyNetwork \o <<VPNServiceName>> \in Seq(Attrs)
    BY <2>1, ConcatProperties
  <2> QED
    BY <2>1, <2>2, PolicyPlans, FirstStepIsGood, GoodPlansGrow DEF ResVPNProxyData
<1>5. GoodPlan(BotDetection)
  <2>1. <<BotAnalyzed, BotDetected>> \in Seq(Attrs)
    BY DEF BotAnalyzed, BotDetected
  <2>2. <<BotName, BotCategoryName, BotCategory, BotVerified>> \in Seq(Attrs)
    BY DEF BotName, BotCategoryName, BotCategory, BotVerified
  <2> QED
    BY <2>1, <2>2, PolicyPlans, GoodPlansGrow DEF BotDetection
<1>6. GoodPlan(Inspect) /\ GoodPlan(RemoteAddr) /\ GoodPlan(CandidateHeader) /\ GoodPlan(Compute)
  <2>1. /\ <<InspectVerdict>> \in Seq(Attrs) /\ <<AddrDestIP, AddrDestPort>> \in Seq(Attrs)
        /\ <<ResponseHeaderValue>> \in Seq(Attrs) /\ <<VCPUMilliseconds, HeapMiB>> \in Seq(Attrs)
    BY DEF InspectVerdict, AddrDestIP, AddrDestPort, ResponseHeaderValue, VCPUMilliseconds, HeapMiB
  <2> QED
    BY <2>1, PolicyPlans DEF Inspect, RemoteAddr, CandidateHeader, Compute
<1>7. /\ GoodPlan(ConfigStoreGet) /\ GoodPlan(ConfigStoreHasKey)
      /\ GoodPlan(DictionaryGet) /\ GoodPlan(DictionaryHasKey) /\ GoodPlan(Plaintext)
  <2>1. /\ <<ConfigStoreHandle, ConfigStoreValue>> \in Seq(Attrs)
        /\ <<ConfigStoreHandle, ConfigStoreHas>> \in Seq(Attrs)
        /\ <<DictionaryHandle, DictionaryValue>> \in Seq(Attrs)
        /\ <<DictionaryHandle, DictionaryHas>> \in Seq(Attrs)
    BY DEF ConfigStoreHandle, ConfigStoreValue, ConfigStoreHas, DictionaryHandle, DictionaryValue, DictionaryHas
  <2>2. <<SecretStoreHandle, SecretHandle, SecretPlaintext>> \in Seq(Attrs)
    BY DEF SecretStoreHandle, SecretHandle, SecretPlaintext
  <2> QED
    BY <2>1, <2>2, PolicyPlans DEF ConfigStoreGet, ConfigStoreHasKey, DictionaryGet, DictionaryHasKey, Plaintext
<1>8. /\ GoodPlan(GeoLookup) /\ GoodPlan(DeviceLookup) /\ GoodPlan(ACLLookup) /\ GoodPlan(Shield)
      /\ GoodPlan(UserMetadata)
  <2>1. /\ <<GeoData>> \in Seq(Attrs) /\ <<DeviceData>> \in Seq(Attrs)
        /\ <<ACLHandle, ACLBody>> \in Seq(Attrs) /\ <<ShieldInfo, ShieldBackend>> \in Seq(Attrs)
        /\ <<CoreUserMetadata>> \in Seq(Attrs)
    BY DEF GeoData, DeviceData, ACLHandle, ACLBody, ShieldInfo, ShieldBackend, CoreUserMetadata
  <2> QED
    BY <2>1, PolicyPlans DEF GeoLookup, DeviceLookup, ACLLookup, Shield, UserMetadata
<1>9. ASSUME NEW wasHit \in BOOLEAN
      PROVE  GoodPlan(httpCacheGetFoundResponse(wasHit))
  <2>1. /\ FoundResponse \in Attrs
        /\ <<FoundHits>> \in Seq(Attrs) /\ <<FoundLength>> \in Seq(Attrs) /\ <<StatusCode>> \in Seq(Attrs)
        /\ <<FoundSensitiveData, FoundStaleIfError>> \in Seq(Attrs)
    BY DEF FoundResponse, FoundHits, FoundLength, StatusCode, FoundSensitiveData, FoundStaleIfError
  <2>2. <<FoundMaxAge, FoundVaryRule, FoundAge, FoundStaleWhileRevalidate, FoundSurrogateKeys>>
          \in Seq(Attrs)
    BY DEF FoundMaxAge, FoundVaryRule, FoundAge, FoundStaleWhileRevalidate, FoundSurrogateKeys
  <2>3. loadFromHandlePlan \in Seq(LaterSteps)
    BY <2>1, <2>2, PolicyPlans, ConcatProperties DEF loadFromHandlePlan
  <2>4. PICK hits : hits = IF wasHit THEN Required(<<FoundHits>>) ELSE <<>>
    OBVIOUS
  <2>5. <<>> \in Seq(LaterSteps)
    OBVIOUS
  <2>6. hits \in Seq(LaterSteps)
    BY <2>1, <2>4, <2>5, PolicyPlans
  <2>7. GoodPlan(NoneStops(<<FoundResponse>>) \o hits \o loadFromHandlePlan \o Required(<<StatusCode>>))
    BY <2>1, <2>3, <2>6, PolicyPlans, FirstStepIsGood, GoodPlansGrow
  <2> QED
    BY <2>4, <2>7 DEF httpCacheGetFoundResponse
<1>10. GoodPlan(newFound)
  <2>1. <<CoreMaxAge, CoreLength, CoreAge, CoreStaleWhileRevalidate, CoreHits, CoreBody>>
          \in Seq(Attrs)
    BY DEF CoreMaxAge, CoreLength, CoreAge, CoreStaleWhileRevalidate, CoreHits, CoreBody
  <2> QED
    BY <2>1, PolicyPlans DEF newFound
<1> QED
  BY <1>1, <1>2, <1>3, <1>4, <1>5, <1>6, <1>7, <1>8, <1>9, <1>10 DEF Plans
-----------------------------------------------------------------------------
\* What a step gives, what the host has, and both.
ReadValues == {Zero, Unknown} \cup (Readers \X Nat)
Answers == (0 .. Longest) \cup {Absent}
Results == [value : ReadValues, host : Answers]

Places == {"idle", "asking", "locked", "filled", "done"}

\* What a step of one goroutine leaves of the others, and the types it keeps.
Moves(r) ==
  /\ pc' \in [Readers -> Places] /\ plan' \in [Readers -> Plans \cup {<<>>}]
  /\ got' \in [Readers -> Seq(Results)]
  /\ cap' \in [Readers -> Nat] /\ now' \in [Readers -> Answers]
  /\ \A k \in Readers \ {r} : pc'[k] = pc[k] /\ plan'[k] = plan[k] /\ got'[k] = got[k]

\* Whole, for a step, its value and the error by then.
WholeEntry(r, s, g, e) ==
  \/ s.attr.kind = "probe" /\ g.value = <<r, IF g.host = Absent THEN 0 ELSE 1>>
  \/ s.attr.kind # "probe" /\ g.host # Absent /\ g.value = <<r, g.host>>
  \/ s.on = "optional" /\ g.host = Absent /\ g.value = Zero
  \/ s.on = "best_effort" /\ e # "ok" /\ g.value \in {Zero, Unknown}

\* Whole is about the step, its value and the error by then.
LEMMA WholeIsWholeEntry ==
  ASSUME NEW r, NEW i
  PROVE  /\ Whole(r, i) = WholeEntry(r, plan[r][i], got[r][i], err[r])
         /\ Whole(r, i)' = WholeEntry(r, plan'[r][i], got'[r][i], err'[r])
BY DEF Whole, WholeEntry

\* The goroutines that take no part in a step.
LEMMA OtherReadersKeep ==
  ASSUME NEW k, ReaderInv(k),
         pc'[k] = pc[k], plan'[k] = plan[k], got'[k] = got[k], err'[k] = err[k], asked'[k] = asked[k],
         pc[k] \in Inside => mu' = mu /\ valueBuf' = valueBuf
  PROVE  ReaderInv(k)'
<1>1. ProgressInv(k)'
  BY DEF ReaderInv, ProgressInv
<1>2. WholeInv(k)'
  BY WholeIsWholeEntry DEF ReaderInv, WholeInv
<1>3. ErrorInv(k)'
  BY DEF ReaderInv, ErrorInv, Stopped
<1>4. BufferInv(k)'
  BY DEF ReaderInv, BufferInv, Shares, Attr, Step, Inside
<1> QED
  BY <1>1, <1>2, <1>3, <1>4 DEF ReaderInv

\* What the host has is a number, the length of a value, or nothing.
LEMMA HeldAnswers ==
  ASSUME NEW attr
  PROVE  Held(attr) \subseteq Answers
BY LengthAssumption, BufferAssumption DEF Held, Answers

\* A new hostcall: its buffer, and what the host has for it.
LEMMA AsksTypes ==
  ASSUME ReadsTypeOK, NEW r \in Readers, NEW attr \in Attrs, Asks(r, attr)
  PROVE  /\ pc' = [pc EXCEPT ![r] = "asking"]
         /\ cap' \in [Readers -> Nat] /\ now' \in [Readers -> Answers]
<1>1. attr.cap \in Nat
  BY DEF Attrs
<1>2. PICK v \in Held(attr) : now' = [now EXCEPT ![r] = v]
  BY DEF Asks
<1>3. v \in Answers
  BY HeldAnswers
<1> QED
  BY <1>1, <1>2, <1>3 DEF Asks, ReadsTypeOK, Answers

\* A goroutine that reads is at a step of its plan.
LEMMA StepOfPlan ==
  ASSUME ReadsTypeOK, NEW r \in Readers, ReaderInv(r), pc[r] \in Running
  PROVE  /\ GoodPlan(plan[r]) /\ got[r] \in Seq(Results)
         /\ Len(got[r]) + 1 \in 1 .. Len(plan[r])
         /\ Step(r) \in Steps
<1>1. plan[r] \in Plans /\ Len(got[r]) < Len(plan[r])
  BY DEF ReaderInv, ProgressInv
<1>2. GoodPlan(plan[r])
  BY <1>1, PlansAreGood
<1>3. got[r] \in Seq(Results)
  BY DEF ReadsTypeOK, Results, ReadValues, Answers
<1>4. Len(got[r]) + 1 \in 1 .. Len(plan[r])
  BY <1>1, <1>2, <1>3 DEF GoodPlan
<1> QED
  BY <1>2, <1>3, <1>4 DEF GoodPlan, Step

\* A step that gives a whole value leaves a whole result, and the read goes on
\* or ends where it may.
LEMMA GivesKeeps ==
  ASSUME ReadsTypeOK, NEW r \in Readers, ReaderInv(r), pc[r] \in Running,
         NEW v \in ReadValues, NEW h \in Answers, Gives(r, v, h),
         err[r] # "ok" => err'[r] = err[r],
         WholeEntry(r, Step(r), [value |-> v, host |-> h], err'[r]),
         err'[r] = "buf_len" => err[r] = "buf_len" \/ ~Attr(r).grows
  PROVE  ReaderInv(r)' /\ Moves(r)
<1>1. PICK n \in Nat : n = Len(got[r])
  BY StepOfPlan
<1>2. PICK g \in Results : g = [value |-> v, host |-> h]
  BY DEF Results
<1>3. /\ GoodPlan(plan[r]) /\ got[r] \in Seq(Results) /\ n + 1 \in 1 .. Len(plan[r]) /\ Step(r) \in Steps
      /\ Step(r) = plan[r][n + 1]
  BY <1>1, StepOfPlan DEF Step
<1>4. got' = [got EXCEPT ![r] = Append(got[r], g)] /\ plan' = plan /\ DOMAIN got = Readers
  BY <1>2 DEF Gives, ReadsTypeOK
<1>5. PICK s : s = Append(got[r], g)
  OBVIOUS
<1>6. /\ s \in Seq(Results) /\ Len(s) = n + 1 /\ s[n + 1] = g
      /\ \A i \in 1 .. n : s[i] = got[r][i]
  BY <1>1, <1>3, <1>5
<1>7. got'[r] = s /\ got' \in [Readers -> Seq(Results)] /\ \A k \in Readers \ {r} : got'[k] = got[k]
  BY <1>4, <1>5, <1>6 DEF ReadsTypeOK, Results, ReadValues, Answers
<1>8. WholeInv(r)'
  <2>1. \A i \in 1 .. n : WholeEntry(r, plan[r][i], got[r][i], err[r])
    BY <1>1, WholeIsWholeEntry DEF ReaderInv, WholeInv
  <2>2. \A i \in 1 .. n : WholeEntry(r, plan[r][i], s[i], err'[r])
    BY <1>6, <2>1 DEF WholeEntry
  <2>3. \A i \in 1 .. n + 1 : WholeEntry(r, plan[r][i], s[i], err'[r])
    BY <1>1, <1>2, <1>3, <1>6, <2>2
  <2> QED
    BY <1>3, <1>4, <1>6, <1>7, <2>3, WholeIsWholeEntry DEF WholeInv
<1>9. CASE Ends(r) /\ (n + 1 = Len(plan[r]) \/ (Step(r).on = "false_stops" /\ v = <<r, 0>>))
  <2>1. /\ pc' = [pc EXCEPT ![r] = "done"] /\ cap' = cap /\ now' = now
    BY <1>9 DEF Ends
  <2>2. pc'[r] = "done" /\ pc' \in [Readers -> Places]
        /\ \A k \in Readers \ {r} : pc'[k] = pc[k]
    BY <2>1 DEF ReadsTypeOK, Places
  <2>3. ProgressInv(r)' /\ BufferInv(r)'
    BY <2>2 DEF ProgressInv, BufferInv, Running, Inside
  <2>4. Len(s) = Len(plan[r]) \/ (s # <<>> /\ plan[r][Len(s)].on = "false_stops" /\ s[Len(s)].value = <<r, 0>>)
    BY <1>2, <1>3, <1>6, <1>9
  <2>5. ErrorInv(r)'
    BY <1>3, <1>4, <1>7, <2>4 DEF ErrorInv, Stopped, ReaderInv, Attr, GoodPlan
  <2> QED
    BY <1>4, <1>7, <1>8, <2>1, <2>2, <2>3, <2>5 DEF ReaderInv, Moves, ReadsTypeOK, Answers
<1>10. CASE n + 1 # Len(plan[r]) /\ Asks(r, plan[r][n + 2].attr)
  <2>1. n + 2 \in 1 .. Len(plan[r]) /\ plan[r][n + 2].attr \in Attrs
    <3>1. n + 2 \in 1 .. Len(plan[r]) /\ plan[r] \in Seq(Steps)
      BY <1>3, <1>10 DEF GoodPlan
    <3>2. plan[r][n + 2] \in Steps
      BY <3>1
    <3> QED
      BY <3>1, <3>2 DEF Steps
  <2>2. /\ pc' = [pc EXCEPT ![r] = "asking"]
        /\ cap' \in [Readers -> Nat] /\ now' \in [Readers -> Answers]
    BY <1>10, <2>1, AsksTypes
  <2>3. pc'[r] = "asking" /\ pc' \in [Readers -> Places]
        /\ \A k \in Readers \ {r} : pc'[k] = pc[k]
    BY <2>2 DEF ReadsTypeOK, Places
  <2>4. ProgressInv(r)' /\ BufferInv(r)'
    BY <1>4, <1>6, <1>7, <2>1, <2>3 DEF ReaderInv, ProgressInv, BufferInv, Running, Inside
  <2>5. ErrorInv(r)'
    BY <1>3, <1>4, <2>3 DEF ErrorInv, ReaderInv, Attr, GoodPlan
  <2> QED
    BY <1>4, <1>7, <1>8, <2>2, <2>3, <2>4, <2>5 DEF ReaderInv, Moves, ReadsTypeOK
<1> QED
  BY <1>1, <1>9, <1>10 DEF Gives

\* An error ends the read with nothing, or is kept with a value that is not there.
LEMMA ErrorsKeep ==
  ASSUME ReadsTypeOK, NEW r \in Readers, ReaderInv(r), pc[r] \in Running,
         NEW e \in {"none", "buf_len", "failed"}, Errors(r, e), e = "buf_len" => ~Attr(r).grows
  PROVE  /\ ReaderInv(r)' /\ Moves(r)
         /\ err' \in [Readers -> {"ok", "none", "buf_len", "failed"}]
         /\ \A k \in Readers \ {r} : err'[k] = err[k]
<1>1. err \in [Readers -> {"ok", "none", "buf_len", "failed"}] /\ now[r] \in Answers
  BY DEF ReadsTypeOK, Answers
<1>2. CASE Step(r).on = "best_effort"
  <2>1. PICK v \in {Zero, Unknown} : v = Lost(r)
    BY DEF Lost
  <2>2. err' = [err EXCEPT ![r] = IF err[r] = "ok" THEN e ELSE err[r]] /\ Gives(r, v, now[r])
    BY <1>2, <2>1 DEF Errors
  <2>3. /\ err' \in [Readers -> {"ok", "none", "buf_len", "failed"}]
        /\ \A k \in Readers \ {r} : err'[k] = err[k]
        /\ err'[r] = IF err[r] = "ok" THEN e ELSE err[r]
    BY <1>1, <2>2
  <2>4. v \in ReadValues /\ WholeEntry(r, Step(r), [value |-> v, host |-> now[r]], err'[r])
    BY <1>2, <2>3 DEF WholeEntry, ReadValues
  <2> QED
    BY <1>1, <2>2, <2>3, <2>4, GivesKeeps
<1>3. CASE Step(r).on # "best_effort"
  <2>1. /\ err' = [err EXCEPT ![r] = e] /\ got' = [got EXCEPT ![r] = <<>>] /\ plan' = plan
        /\ pc' = [pc EXCEPT ![r] = "done"] /\ cap' = cap /\ now' = now
    BY <1>3 DEF Errors, Ends
  <2>2. <<>> \in Seq(Results)
    OBVIOUS
  <2>3. Moves(r)
    BY <2>1, <2>2 DEF Moves, ReadsTypeOK, Places, Results, ReadValues, Answers
  <2>4. /\ err' \in [Readers -> {"ok", "none", "buf_len", "failed"}] /\ err'[r] = e
        /\ \A k \in Readers \ {r} : err'[k] = err[k]
    BY <1>1, <2>1
  <2>5. pc'[r] = "done" /\ got'[r] = <<>>
    BY <2>1 DEF ReadsTypeOK
  <2>6. GoodPlan(plan[r]) /\ Len(got[r]) + 1 \in 1 .. Len(plan[r])
    BY StepOfPlan
  <2>7. ProgressInv(r)' /\ BufferInv(r)'
    BY <2>5 DEF ProgressInv, BufferInv, Running, Inside
  <2>8. WholeInv(r)'
    BY <2>1, <2>5, <2>6 DEF WholeInv, GoodPlan
  <2>9. ErrorInv(r)'
    BY <2>1, <2>4, <2>5, <2>6 DEF ErrorInv, Attr, Step, GoodPlan
  <2> QED
    BY <2>3, <2>4, <2>7, <2>8, <2>9 DEF ReaderInv
<1> QED
  BY <1>2, <1>3

\* The invariant of the goroutine that moves, and one buffer for all.
LEMMA MoveKeeps ==
  ASSUME HostReadsInv, NEW r \in Readers, ReaderInv(r)', Moves(r),
         err' \in [Readers -> {"ok", "none", "buf_len", "failed"}],
         \A k \in Readers \ {r} : err'[k] = err[k] /\ asked'[k] = asked[k],
         asked' \in [Readers -> Answers], mu' \in Readers \cup {Free},
         valueBuf' \in (Readers \cup {Free}) \X Nat,
         (mu' = mu /\ valueBuf' = valueBuf) \/ mu \in {r, Free}
  PROVE  HostReadsInv'
<1>1. ReadsTypeOK'
  BY DEF ReadsTypeOK, Moves, Places, Results, ReadValues, Answers
<1>2. ASSUME NEW k \in Readers \ {r} PROVE ReaderInv(k)'
  <2>1. ReaderInv(k)
    BY DEF HostReadsInv
  <2>2. pc[k] \in Inside => mu' = mu /\ valueBuf' = valueBuf
    BY <2>1, ReaderAssumption DEF ReaderInv, BufferInv
  <2> QED
    BY <2>1, <2>2, OtherReadersKeep DEF Moves
<1> QED
  BY <1>1, <1>2 DEF HostReadsInv

\* A step that leaves the buffer of the dictionary alone.
LEMMA BufferTypes ==
  ASSUME HostReadsInv, UNCHANGED <<asked, mu, valueBuf>>
  PROVE  /\ \A k \in Readers : asked'[k] = asked[k]
         /\ asked' \in [Readers -> Answers] /\ mu' \in Readers \cup {Free}
         /\ valueBuf' \in (Readers \cup {Free}) \X Nat
         /\ mu' = mu /\ valueBuf' = valueBuf
BY DEF HostReadsInv, ReadsTypeOK, Answers

\* A step that leaves the errors alone.
LEMMA ErrorTypes ==
  ASSUME HostReadsInv, UNCHANGED err
  PROVE  /\ err' \in [Readers -> {"ok", "none", "buf_len", "failed"}]
         /\ \A k \in Readers : err'[k] = err[k]
BY DEF HostReadsInv, ReadsTypeOK
-----------------------------------------------------------------------------
\* A function is called: its first attribute is asked for.
LEMMA BeginKeeps ==
  ASSUME HostReadsInv, NEW r \in Readers, Begin(r)
  PROVE  HostReadsInv'
<1>1. PICK p \in PlansOf(r) : plan' = [plan EXCEPT ![r] = p] /\ Asks(r, p[1].attr)
  BY DEF Begin
<1>2. p \in Plans
  BY DEF PlansOf, Plans
<1>3. GoodPlan(p)
  BY <1>2, PlansAreGood
<1>4. p[1] \in Steps
  BY <1>3 DEF GoodPlan
<1>5. p[1].attr \in Attrs
  BY <1>4 DEF Steps
<1>6. /\ pc' = [pc EXCEPT ![r] = "asking"]
      /\ cap' \in [Readers -> Nat] /\ now' \in [Readers -> Answers]
  BY <1>1, <1>5, AsksTypes DEF HostReadsInv
<1>7. pc[r] = "idle" /\ got' = got /\ UNCHANGED <<asked, mu, valueBuf>> /\ UNCHANGED err
  BY DEF Begin
<1>8. Moves(r)
  BY <1>1, <1>2, <1>6, <1>7 DEF Moves, HostReadsInv, ReadsTypeOK, Places, Results, ReadValues, Answers
<1>9. pc'[r] = "asking" /\ plan'[r] = p /\ got'[r] = <<>> /\ err'[r] = "ok"
  BY <1>1, <1>6, <1>7 DEF HostReadsInv, ReadsTypeOK, ReaderInv, ProgressInv
<1>10. ReaderInv(r)'
  <2>1. ProgressInv(r)'
    BY <1>2, <1>3, <1>9 DEF ProgressInv, GoodPlan
  <2>2. WholeInv(r)' /\ ErrorInv(r)' /\ BufferInv(r)'
    BY <1>3, <1>9 DEF WholeInv, ErrorInv, BufferInv, Inside, GoodPlan
  <2> QED
    BY <2>1, <2>2 DEF ReaderInv
<1> QED
  BY <1>7, <1>8, <1>10, MoveKeeps, BufferTypes, ErrorTypes

\* The host may change its mind at any time before it answers.
LEMMA HostChangesKeeps ==
  ASSUME HostReadsInv, NEW r \in Readers, HostChanges(r)
  PROVE  HostReadsInv'
<1>1. UNCHANGED <<pc, plan, got, err, cap, asked, mu, valueBuf>>
  BY DEF HostChanges
<1>2. now' \in [Readers -> Answers]
  <2>1. PICK v \in Held(Attr(r)) : now' = [now EXCEPT ![r] = v]
    BY DEF HostChanges
  <2>2. v \in Answers
    BY HeldAnswers DEF Answers
  <2> QED
    BY <2>1, <2>2 DEF HostReadsInv, ReadsTypeOK, Answers
<1>3. ReadsTypeOK'
  BY <1>1, <1>2 DEF HostReadsInv, ReadsTypeOK, Answers
<1>4. ASSUME NEW k \in Readers PROVE ReaderInv(k)'
  BY <1>1, OtherReadersKeep DEF HostReadsInv
<1> QED
  BY <1>3, <1>4 DEF HostReadsInv

\* The host has written all of the value.
LEMMA FitsKeeps ==
  ASSUME HostReadsInv, NEW r \in Readers, Fits(r)
  PROVE  HostReadsInv'
<1>1. /\ pc[r] \in Running /\ UNCHANGED <<asked, mu, valueBuf>> /\ UNCHANGED err
      /\ now[r] # Absent /\ now[r] \in Answers /\ ReadsTypeOK /\ ReaderInv(r)
  BY DEF HostReadsInv, Fits, Calls, Running, ReadsTypeOK, Answers
<1>2. PICK v \in ReadValues : /\ Gives(r, v, now[r])
                         /\ WholeEntry(r, Step(r), [value |-> v, host |-> now[r]], err[r])
  <2>1. CASE Attr(r).kind = "probe" /\ Gives(r, <<r, 1>>, now[r])
    <3>1. <<r, 1>> \in ReadValues
      BY DEF ReadValues
    <3>2. WholeEntry(r, Step(r), [value |-> <<r, 1>>, host |-> now[r]], err[r])
      BY <1>1, <2>1 DEF WholeEntry, Attr
    <3> QED
      BY <2>1, <3>1, <3>2
  <2>2. CASE Attr(r).kind # "probe" /\ Gives(r, <<r, now[r]>>, now[r])
    <3>1. <<r, now[r]>> \in ReadValues
      BY <1>1 DEF ReadValues, Answers
    <3>2. WholeEntry(r, Step(r), [value |-> <<r, now[r]>>, host |-> now[r]], err[r])
      BY <1>1, <2>2 DEF WholeEntry, Attr
    <3> QED
      BY <2>2, <3>1, <3>2
  <2> QED
    BY <2>1, <2>2 DEF Fits
<1>3. ReaderInv(r)' /\ Moves(r)
  BY <1>1, <1>2, GivesKeeps
<1> QED
  BY <1>1, <1>3, MoveKeeps, BufferTypes, ErrorTypes

\* What an error leaves, where the buffer of the dictionary is not used.
LEMMA ErrorStepKeeps ==
  ASSUME HostReadsInv, NEW r \in Readers, pc[r] \in Running,
         NEW e \in {"none", "buf_len", "failed"}, Errors(r, e), e = "buf_len" => ~Attr(r).grows,
         UNCHANGED <<asked, mu, valueBuf>>
  PROVE  HostReadsInv'
<1>1. ReadsTypeOK /\ ReaderInv(r)
  BY DEF HostReadsInv
<1>2. /\ ReaderInv(r)' /\ Moves(r)
      /\ err' \in [Readers -> {"ok", "none", "buf_len", "failed"}]
      /\ \A k \in Readers \ {r} : err'[k] = err[k]
  BY <1>1, ErrorsKeep
<1> QED
  BY <1>2, MoveKeeps, BufferTypes

\* withAdaptiveBuffer asks again with a buffer that is as long as it has to be;
\* a buffer that does not grow is an error.
LEMMA ShortBufferKeeps ==
  ASSUME HostReadsInv, NEW r \in Readers, TooSmall(r)
  PROVE  HostReadsInv'
<1>1. pc[r] \in Running /\ UNCHANGED <<asked, mu, valueBuf>> /\ now[r] # Absent
  BY DEF TooSmall, Calls, Running
<1>2. CASE Attr(r).grows
  <2>1. cap' = [cap EXCEPT ![r] = now[r]] /\ UNCHANGED <<pc, plan, got, err, now>>
    BY <1>2 DEF TooSmall, Grown
  <2>2. now[r] \in Nat
    BY <1>1, BufferAssumption DEF HostReadsInv, ReadsTypeOK
  <2>3. ReadsTypeOK'
    BY <1>1, <2>1, <2>2 DEF HostReadsInv, ReadsTypeOK
  <2>4. ASSUME NEW k \in Readers PROVE ReaderInv(k)'
    BY <1>1, <2>1, OtherReadersKeep DEF HostReadsInv
  <2> QED
    BY <2>3, <2>4 DEF HostReadsInv
<1>3. CASE ~Attr(r).grows
  BY <1>1, <1>3, ErrorStepKeeps DEF TooSmall
<1> QED
  BY <1>2, <1>3

\* The host has no value: false, Go's zero value, the end of the read or an error.
LEMMA MissingKeeps ==
  ASSUME HostReadsInv, NEW r \in Readers, Missing(r)
  PROVE  HostReadsInv'
<1>1. pc[r] \in Running /\ UNCHANGED <<asked, mu, valueBuf>> /\ now[r] = Absent /\ Absent \in Answers
  BY DEF Missing, Calls, Running, Answers
<1>2. ReadsTypeOK /\ ReaderInv(r)
  BY DEF HostReadsInv
<1>3. CASE Attr(r).kind = "probe" /\ Gives(r, <<r, 0>>, Absent) /\ UNCHANGED err
  <2>1. <<r, 0>> \in ReadValues
    BY DEF ReadValues
  <2>2. WholeEntry(r, Step(r), [value |-> <<r, 0>>, host |-> Absent], err'[r])
    BY <1>3 DEF WholeEntry, Attr
  <2>3. ReaderInv(r)' /\ Moves(r)
    BY <1>1, <1>2, <1>3, <2>1, <2>2, GivesKeeps
  <2> QED
    BY <1>1, <1>3, <2>3, MoveKeeps, BufferTypes, ErrorTypes
<1>4. CASE Step(r).on = "optional" /\ Gives(r, Zero, Absent) /\ UNCHANGED err
  <2>1. Zero \in ReadValues
    BY DEF ReadValues
  <2>2. WholeEntry(r, Step(r), [value |-> Zero, host |-> Absent], err'[r])
    BY <1>4 DEF WholeEntry
  <2>3. ReaderInv(r)' /\ Moves(r)
    BY <1>1, <1>2, <1>4, <2>1, <2>2, GivesKeeps
  <2> QED
    BY <1>1, <1>4, <2>3, MoveKeeps, BufferTypes, ErrorTypes
<1>5. CASE Step(r).on = "none_stops" /\ Ends(r) /\ UNCHANGED <<plan, got, err>>
  <2>1. pc' = [pc EXCEPT ![r] = "done"] /\ cap' = cap /\ now' = now
        /\ plan' = plan /\ got' = got /\ UNCHANGED err
    BY <1>5 DEF Ends
  <2>2. Moves(r) /\ pc'[r] = "done"
    BY <1>2, <2>1 DEF Moves, ReadsTypeOK, Places, Results, ReadValues, Answers
  <2>3. GoodPlan(plan[r]) /\ got[r] \in Seq(Results) /\ Len(got[r]) + 1 \in 1 .. Len(plan[r])
    BY <1>1, <1>2, StepOfPlan
  <2>4. Len(got[r]) + 1 = 1
    BY <1>5, <2>3 DEF GoodPlan, Step
  <2>5. got[r] = <<>> /\ plan[r][1].on = "none_stops"
    BY <1>5, <2>3, <2>4 DEF Step
  <2>6. ProgressInv(r)' /\ BufferInv(r)'
    BY <2>2 DEF ProgressInv, BufferInv, Running, Inside
  <2>7. WholeInv(r)'
    BY <1>2, <2>1, WholeIsWholeEntry DEF ReaderInv, WholeInv
  <2>8. ErrorInv(r)'
    BY <1>2, <2>1, <2>5 DEF ReaderInv, ErrorInv, Stopped
  <2>9. ReaderInv(r)'
    BY <2>6, <2>7, <2>8 DEF ReaderInv
  <2> QED
    BY <1>1, <2>1, <2>2, <2>9, MoveKeeps, BufferTypes, ErrorTypes
<1>6. CASE Errors(r, "none")
  BY <1>1, <1>6, ErrorStepKeeps
<1> QED
  BY <1>3, <1>4, <1>5, <1>6 DEF Missing

\* Any other error of the host.
LEMMA FailedCallKeeps ==
  ASSUME HostReadsInv, NEW r \in Readers, Fails(r)
  PROVE  HostReadsInv'
<1>1. pc[r] \in Running /\ UNCHANGED <<asked, mu, valueBuf>> /\ Errors(r, "failed")
  BY DEF Fails, Calls, Running
<1> QED
  BY <1>1, ErrorStepKeeps

\* The mutex of the dictionary is free: no goroutine is inside.
LEMMA LockKeeps ==
  ASSUME HostReadsInv, NEW r \in Readers, Lock(r)
  PROVE  HostReadsInv'
<1>1. ReadsTypeOK /\ ReaderInv(r)
  BY DEF HostReadsInv
<1>2. /\ pc[r] = "asking" /\ Shares(r) /\ mu = Free /\ mu' = r /\ pc' = [pc EXCEPT ![r] = "locked"]
      /\ plan' = plan /\ got' = got /\ cap' = cap /\ now' = now /\ valueBuf' = valueBuf /\ asked' = asked
      /\ UNCHANGED err
  BY DEF Lock
<1>3. Moves(r) /\ pc'[r] = "locked"
  BY <1>1, <1>2 DEF Moves, ReadsTypeOK, Places, Results, ReadValues, Answers
<1>4. ProgressInv(r)' /\ BufferInv(r)'
  BY <1>1, <1>2, <1>3 DEF ReaderInv, ProgressInv, BufferInv, Running, Inside, Shares, Attr, Step
<1>5. WholeInv(r)'
  BY <1>1, <1>2, WholeIsWholeEntry DEF ReaderInv, WholeInv
<1>6. ErrorInv(r)'
  BY <1>1, <1>2, <1>3 DEF ReaderInv, ErrorInv
<1>7. ReaderInv(r)'
  BY <1>4, <1>5, <1>6 DEF ReaderInv
<1>8. /\ asked' \in [Readers -> Answers]
      /\ mu' \in Readers \cup {Free} /\ valueBuf' \in (Readers \cup {Free}) \X Nat
  BY <1>1, <1>2 DEF ReadsTypeOK, Answers
<1> QED
  BY <1>2, <1>3, <1>7, <1>8, MoveKeeps, ErrorTypes

\* Who holds the mutex fills the buffer with its own value, or gives up.
LEMMA FillKeeps ==
  ASSUME HostReadsInv, NEW r \in Readers, Fill(r)
  PROVE  HostReadsInv'
<1>1. ReadsTypeOK /\ ReaderInv(r) /\ pc[r] = "locked" /\ pc[r] \in Running
  BY DEF HostReadsInv, Fill, Running
<1>2. mu = r /\ Shares(r)
  BY <1>1 DEF ReaderInv, BufferInv, Inside
<1>3. CASE Filled(r)
  <2>1. /\ now[r] # Absent /\ valueBuf' = <<r, now[r]>> /\ asked' = [asked EXCEPT ![r] = now[r]]
        /\ pc' = [pc EXCEPT ![r] = "filled"] /\ mu' = mu
        /\ plan' = plan /\ got' = got /\ cap' = cap /\ now' = now /\ UNCHANGED err
    BY <1>3 DEF Filled
  <2>2. Moves(r) /\ pc'[r] = "filled" /\ asked'[r] = now[r]
    BY <1>1, <2>1 DEF Moves, ReadsTypeOK, Places, Results, ReadValues, Answers
  <2>3. ProgressInv(r)' /\ BufferInv(r)'
    BY <1>1, <1>2, <2>1, <2>2 DEF ReaderInv, ProgressInv, BufferInv, Running, Inside, Shares, Attr, Step
  <2>4. WholeInv(r)'
    BY <1>1, <2>1, WholeIsWholeEntry DEF ReaderInv, WholeInv
  <2>5. ErrorInv(r)'
    BY <1>1, <2>1, <2>2 DEF ReaderInv, ErrorInv
  <2>6. ReaderInv(r)'
    BY <2>3, <2>4, <2>5 DEF ReaderInv
  <2>7. /\ asked' \in [Readers -> Answers] /\ \A k \in Readers \ {r} : asked'[k] = asked[k]
        /\ mu' \in Readers \cup {Free} /\ valueBuf' \in (Readers \cup {Free}) \X Nat
    BY <1>1, <2>1 DEF ReadsTypeOK, Answers
  <2> QED
    BY <1>2, <2>1, <2>2, <2>6, <2>7, MoveKeeps, ErrorTypes
<1>4. CASE \E e \in FillErrors(r) : Errors(r, e) /\ Unlock /\ UNCHANGED <<asked, valueBuf>>
  <2>1. PICK e \in {"none", "buf_len", "failed"} : Errors(r, e) /\ Unlock /\ UNCHANGED <<asked, valueBuf>>
    BY <1>4 DEF FillErrors
  <2>2. ~Attr(r).grows
    <3>1. Step(r) \in Steps
      BY <1>1, StepOfPlan
    <3>2. Attr(r) \in Attrs
      BY <3>1 DEF Attr, Steps
    <3> QED
      BY <1>2, <3>2 DEF Shares, Attrs
  <2>3. /\ ReaderInv(r)' /\ Moves(r)
        /\ err' \in [Readers -> {"ok", "none", "buf_len", "failed"}]
        /\ \A k \in Readers \ {r} : err'[k] = err[k]
    BY <1>1, <2>1, <2>2, ErrorsKeep
  <2>4. /\ asked' = asked /\ asked' \in [Readers -> Answers]
        /\ mu' \in Readers \cup {Free} /\ valueBuf' \in (Readers \cup {Free}) \X Nat
    BY <1>1, <2>1 DEF ReadsTypeOK, Answers, Unlock
  <2> QED
    BY <1>2, <2>3, <2>4, MoveKeeps
<1> QED
  BY <1>3, <1>4 DEF Fill

\* What is copied is what was asked for: nobody else has been inside.
LEMMA CopyKeeps ==
  ASSUME HostReadsInv, NEW r \in Readers, Copy(r)
  PROVE  HostReadsInv'
<1>1. ReadsTypeOK /\ ReaderInv(r) /\ pc[r] = "filled" /\ pc[r] \in Running
  BY DEF HostReadsInv, Copy, Running
<1>2. mu = r /\ Shares(r) /\ asked[r] # Absent /\ valueBuf = <<r, asked[r]>> /\ asked[r] \in Answers
  BY <1>1 DEF ReaderInv, BufferInv, Inside, ReadsTypeOK, Answers
<1>3. valueBuf \in ReadValues
  BY <1>2 DEF ReadValues, Answers
<1>4. /\ Gives(r, valueBuf, asked[r]) /\ asked' = [asked EXCEPT ![r] = Absent] /\ mu' = Free
      /\ UNCHANGED err /\ valueBuf' = valueBuf
  BY DEF Copy, Unlock
<1>5. WholeEntry(r, Step(r), [value |-> valueBuf, host |-> asked[r]], err'[r])
  BY <1>2 DEF WholeEntry, Shares, Attr
<1>6. ReaderInv(r)' /\ Moves(r)
  BY <1>1, <1>2, <1>3, <1>4, <1>5, GivesKeeps
<1>7. /\ asked' \in [Readers -> Answers] /\ \A k \in Readers \ {r} : asked'[k] = asked[k]
      /\ mu' \in Readers \cup {Free} /\ valueBuf' \in (Readers \cup {Free}) \X Nat
  BY <1>1, <1>4 DEF ReadsTypeOK, Answers
<1> QED
  BY <1>2, <1>4, <1>6, <1>7, MoveKeeps, ErrorTypes

\* The caller has its result, and the goroutine is as it was at first.
LEMMA ReturnKeeps ==
  ASSUME HostReadsInv, NEW r \in Readers, Return(r)
  PROVE  HostReadsInv'
<1>1. ReadsTypeOK /\ <<>> \in Seq(Results)
  BY DEF HostReadsInv
<1>2. /\ pc' = [pc EXCEPT ![r] = "idle"] /\ plan' = [plan EXCEPT ![r] = <<>>] /\ got' = [got EXCEPT ![r] = <<>>]
      /\ err' = [err EXCEPT ![r] = "ok"] /\ cap' = [cap EXCEPT ![r] = 0] /\ now' = [now EXCEPT ![r] = Absent]
      /\ UNCHANGED <<asked, mu, valueBuf>>
  BY DEF Return
<1>3. Moves(r) /\ pc'[r] = "idle" /\ got'[r] = <<>> /\ plan'[r] = <<>>
  BY <1>1, <1>2 DEF Moves, ReadsTypeOK, Places, Results, ReadValues, Answers
<1>4. /\ err' \in [Readers -> {"ok", "none", "buf_len", "failed"}] /\ err'[r] = "ok"
      /\ \A k \in Readers \ {r} : err'[k] = err[k]
  BY <1>1, <1>2 DEF ReadsTypeOK
<1>5. ReaderInv(r)'
  BY <1>3, <1>4 DEF ReaderInv, ProgressInv, WholeInv, ErrorInv, BufferInv, Running, Inside
<1> QED
  BY <1>2, <1>3, <1>4, <1>5, MoveKeeps, BufferTypes

\* No goroutine reads yet.
LEMMA HostReadsInit == ReadsInit => HostReadsInv
<1> SUFFICES ASSUME ReadsInit PROVE HostReadsInv
  OBVIOUS
<1>1. ReadsTypeOK
  BY DEF ReadsInit, ReadsTypeOK
<1>2. ASSUME NEW r \in Readers PROVE ReaderInv(r)
  BY DEF ReadsInit, ReaderInv, ProgressInv, WholeInv, ErrorInv, BufferInv, Running, Inside
<1> QED
  BY <1>1, <1>2 DEF HostReadsInv

\* The invariant is kept by every step of every goroutine and of the host.
LEMMA HostReadsStep ==
  ASSUME HostReadsInv, [ReadsNext]_readsVars
  PROVE  HostReadsInv'
<1>1. CASE UNCHANGED readsVars
  <2>1. ReadsTypeOK'
    BY <1>1 DEF readsVars, HostReadsInv, ReadsTypeOK
  <2>2. ASSUME NEW k \in Readers PROVE ReaderInv(k)'
    BY <1>1, OtherReadersKeep DEF HostReadsInv, readsVars
  <2> QED
    BY <2>1, <2>2 DEF HostReadsInv
<1> QED
  BY <1>1, BeginKeeps, HostChangesKeeps, FitsKeeps, ShortBufferKeeps, MissingKeeps, FailedCallKeeps, LockKeeps,
     FillKeeps, CopyKeeps, ReturnKeeps DEF ReadsNext, HostAnswers

\* Every goroutine has whole values for the steps it has behind it, and one at
\* most is inside the buffer of the dictionary, for any number of goroutines.
THEOREM HostReadsInvariance == ReadsSpec => []HostReadsInv
<1>1. HostReadsInv /\ [ReadsNext]_readsVars => HostReadsInv'
  BY HostReadsStep
<1> QED
  BY <1>1, HostReadsInit, PTL DEF ReadsSpec

\* A read has the plan of a function, values and errors of the right kind.
THEOREM HostReadsTypeCorrect == ReadsSpec => []ReadsTypeOK
<1>1. HostReadsInv => ReadsTypeOK
  BY DEF HostReadsInv
<1> QED
  BY <1>1, HostReadsInvariance, PTL

\* What newClientRequest, FastlyMeta, Dictionary.GetBytes... return is all or
\* nothing: every value is complete and the reader's own, none is missing
\* without an error, and one is too long only for a buffer that cannot grow.
THEOREM ResultsAreWhole == ReadsSpec => []ResultWhole
<1>1. ASSUME HostReadsInv, NEW r \in Readers
      PROVE  /\ \A i \in DOMAIN got[r] : Whole(r, i)
             /\ pc[r] = "done" =>
                  /\ Len(got[r]) = Len(plan[r]) \/ Stopped(r) \/ (err[r] # "ok" /\ got[r] = <<>>)
                  /\ err[r] = "buf_len" => \E i \in DOMAIN plan[r] : ~plan[r][i].attr.grows
  <2>1. DOMAIN got[r] = 1 .. Len(got[r])
    BY <1>1 DEF HostReadsInv, ReadsTypeOK
  <2> QED
    BY <1>1, <2>1 DEF HostReadsInv, ReaderInv, WholeInv, ErrorInv
<1>2. HostReadsInv => ResultWhole
  BY <1>1 DEF ResultWhole
<1> QED
  BY <1>2, HostReadsInvariance, PTL

\* A step of a read brings one value.
LEMMA GivesAdvances ==
  ASSUME ReadsTypeOK, NEW r \in Readers, NEW v, NEW h, Gives(r, v, h)
  PROVE  Ahead(r)
<1>1. PICK s : s = got[r]
  OBVIOUS
<1>2. PICK g : g = [value |-> v, host |-> h]
  OBVIOUS
<1>3. got' = [got EXCEPT ![r] = Append(s, g)] /\ DOMAIN got = Readers
  BY <1>1, <1>2 DEF Gives, ReadsTypeOK
<1>4. \E S : s \in Seq(S)
  BY <1>1 DEF ReadsTypeOK
<1>5. Len(Append(s, g)) = Len(s) + 1
  BY <1>4
<1> QED
  BY <1>1, <1>3, <1>5 DEF Ahead

\* An error ends the read, or counts as a value.
LEMMA ErrorsAdvance ==
  ASSUME ReadsTypeOK, NEW r \in Readers, NEW e, Errors(r, e)
  PROVE  Ahead(r)
<1>1. CASE Gives(r, Lost(r), now[r])
  BY <1>1, GivesAdvances
<1>2. CASE Ends(r)
  BY <1>2 DEF Ends, Ahead, ReadsTypeOK
<1> QED
  BY <1>1, <1>2 DEF Errors

\* No answer of the host is in vain.
LEMMA AnswersAdvance ==
  ASSUME HostReadsInv, NEW r \in Readers, HostAnswers(r)
  PROVE  Ahead(r)
<1>1. ReadsTypeOK
  BY DEF HostReadsInv
<1>2. CASE Fits(r)
  BY <1>1, <1>2, GivesAdvances DEF Fits
<1>3. CASE TooSmall(r)
  <2>1. CASE Attr(r).grows
    <3>1. /\ cap' = [cap EXCEPT ![r] = now[r]] /\ UNCHANGED <<pc, got>>
          /\ now[r] # Absent /\ now[r] > cap[r]
      BY <1>3, <2>1 DEF TooSmall, Grown
    <3>2. now[r] \in 0 .. Longest /\ cap'[r] = now[r]
      BY <1>1, <3>1 DEF ReadsTypeOK
    <3> QED
      BY <1>1, <3>1, <3>2, BufferAssumption DEF Ahead, ReadsTypeOK
  <2>2. CASE ~Attr(r).grows
    BY <1>1, <1>3, <2>2, ErrorsAdvance DEF TooSmall
  <2> QED
    BY <2>1, <2>2
<1>4. CASE Missing(r)
  <2>1. CASE Gives(r, <<r, 0>>, Absent) \/ Gives(r, Zero, Absent)
    BY <1>1, <2>1, GivesAdvances
  <2>2. CASE Ends(r)
    BY <1>1, <2>2 DEF Ends, Ahead, ReadsTypeOK
  <2>3. CASE Errors(r, "none")
    BY <1>1, <2>3, ErrorsAdvance
  <2> QED
    BY <1>4, <2>1, <2>2, <2>3 DEF Missing
<1>5. CASE Fill(r)
  <2>1. CASE Filled(r)
    BY <1>1, <1>5, <2>1 DEF Fill, Filled, Ahead, ReadsTypeOK
  <2>2. CASE \E e \in FillErrors(r) : Errors(r, e)
    BY <1>1, <2>2, ErrorsAdvance
  <2> QED
    BY <1>5, <2>1, <2>2 DEF Fill
<1>6. CASE Copy(r)
  BY <1>1, <1>6, GivesAdvances DEF Copy
<1> QED
  BY <1>2, <1>3, <1>4, <1>5, <1>6 DEF HostAnswers

\* A step of a goroutine leaves the reads of the others where they are.
LEMMA OthersStay ==
  ASSUME HostReadsInv, NEW r \in Readers, NEW k \in Readers \ {r},
         Begin(r) \/ HostChanges(r) \/ HostAnswers(r) \/ Fails(r) \/ Lock(r) \/ Return(r)
  PROVE  UNCHANGED <<pc[k], plan[k], got[k], cap[k]>>
<1> DEFINE Stay == pc'[k] = pc[k] /\ plan'[k] = plan[k] /\ got'[k] = got[k] /\ cap'[k] = cap[k]
<1>1. ReadsTypeOK
  BY DEF HostReadsInv
<1>2. ASSUME NEW v, NEW h, Gives(r, v, h) PROVE Stay
  BY <1>1, <1>2 DEF Gives, Ends, Asks, ReadsTypeOK
<1>3. ASSUME NEW e, Errors(r, e) PROVE Stay
  <2>1. CASE Gives(r, Lost(r), now[r])
    BY <1>2, <2>1
  <2>2. CASE got' = [got EXCEPT ![r] = <<>>] /\ Ends(r) /\ UNCHANGED plan
    BY <1>1, <2>2 DEF Ends, ReadsTypeOK
  <2> QED
    BY <1>3, <2>1, <2>2 DEF Errors
<1>4. CASE Begin(r) \/ HostChanges(r) \/ Lock(r) \/ Return(r)
  BY <1>1, <1>4 DEF Begin, Asks, HostChanges, Lock, Return, ReadsTypeOK
<1>5. CASE Fits(r) \/ Copy(r)
  BY <1>2, <1>5 DEF Fits, Copy
<1>6. CASE TooSmall(r)
  BY <1>1, <1>3, <1>6 DEF TooSmall, Grown, ReadsTypeOK
<1>7. CASE Missing(r)
  <2>1. CASE Ends(r) /\ UNCHANGED <<plan, got, err>>
    BY <1>1, <2>1 DEF Ends, ReadsTypeOK
  <2> QED
    BY <1>2, <1>3, <1>7, <2>1 DEF Missing
<1>8. CASE Fill(r)
  BY <1>1, <1>3, <1>8 DEF Fill, Filled, ReadsTypeOK
<1>9. CASE Fails(r)
  BY <1>3, <1>9 DEF Fails
<1> QED
  BY <1>4, <1>5, <1>6, <1>7, <1>8, <1>9 DEF HostAnswers

\* A goroutine at a step of its read moves ahead or stays.
LEMMA ReadsAdvance ==
  ASSUME HostReadsInv, NEW r \in Readers, pc[r] \in Running,
         Begin(r) \/ HostChanges(r) \/ HostAnswers(r) \/ Fails(r) \/ Lock(r) \/ Return(r)
  PROVE  Ahead(r) \/ UNCHANGED <<pc[r], plan[r], got[r], cap[r]>>
<1>1. ReadsTypeOK
  BY DEF HostReadsInv
<1>2. ~Begin(r) /\ ~Return(r)
  BY DEF Begin, Return, Running
<1>3. CASE HostChanges(r)
  BY <1>3 DEF HostChanges
<1>4. CASE Fails(r)
  BY <1>1, <1>4, ErrorsAdvance DEF Fails
<1>5. CASE Lock(r)
  BY <1>1, <1>5 DEF Lock, Ahead, ReadsTypeOK
<1> QED
  BY <1>2, <1>3, <1>4, <1>5, AnswersAdvance

\* However often the host's values change and whoever else reads, a read does
\* not go back, and each answer brings it a value, its end, the buffer of the mutex
\* or a longer buffer (withAdaptiveBuffer, Dictionary.GetBytes).
THEOREM LookupsAdvance == ReadsSpec => LookupAdvances
<1>1. ASSUME HostReadsInv, [ReadsNext]_readsVars, NEW r \in Readers
      PROVE  /\ HostAnswers(r) => Ahead(r)
             /\ pc[r] \in Running => Ahead(r) \/ UNCHANGED <<pc[r], plan[r], got[r], cap[r]>>
  <2>1. HostAnswers(r) => Ahead(r)
    BY <1>1, AnswersAdvance
  <2>2. CASE UNCHANGED readsVars
    BY <2>1, <2>2 DEF readsVars
  <2>3. CASE ReadsNext
    <3>1. PICK k \in Readers :
            Begin(k) \/ HostChanges(k) \/ HostAnswers(k) \/ Fails(k) \/ Lock(k) \/ Return(k)
      BY <2>3 DEF ReadsNext
    <3>2. CASE k = r
      BY <1>1, <2>1, <3>1, <3>2, ReadsAdvance
    <3>3. CASE k # r
      BY <1>1, <2>1, <3>1, <3>3, OthersStay
    <3> QED
      BY <3>2, <3>3
  <2> QED
    BY <1>1, <2>2, <2>3
<1>2. HostReadsInv /\ [ReadsNext]_readsVars =>
        [\A r \in Readers :
           /\ HostAnswers(r) => Ahead(r)
           /\ pc[r] \in {"asking", "locked", "filled"} =>
                Ahead(r) \/ UNCHANGED <<pc[r], plan[r], got[r], cap[r]>>]_readsVars
  BY <1>1 DEF Running
<1> QED
  BY <1>2, HostReadsInvariance, PTL DEF ReadsSpec, LookupAdvances
=============================================================================
