-------------------------- MODULE CandidateOptions --------------------------
(***************************************************************************)
(* The cache write options of a CandidateResponse (fsthttp/cache.go): what *)
(* the host suggests, what an AfterSend hook reads and sets in any order,  *)
(* what finalizeOptions makes of it, and what a Response found in the      *)
(* cache later says of the entry.                                          *)
(***************************************************************************)
EXTENDS Integers

CONSTANTS Second,       \* a second in the host's unit of time (10^9 ns)
          U32,          \* 2^32
          Rules,        \* vary rules
          Keys,         \* surrogate keys
          Unset,        \* what is not there, or not used
          Suggestions,  \* bound: what the host suggests for some headers
          Requests,     \* bound: the CacheOptions of the request
          Secs,         \* bound: the durations the hook sets
          MaxCalls,     \* bound: the hook's calls
          MaxTicks      \* bound: the age of an entry, in the host's unit

Words == 0 .. U32 - 1

ASSUME UnitAssumption == Second \in Nat \ {0} /\ U32 \in Nat \ {0}
ASSUME SuggestionAssumption ==
  Suggestions \subseteq [maxAge : Nat, age : Nat, swr : Nat, sie : Nat, vary : Rules, keys : SUBSET Keys]
ASSUME RequestAssumption ==
  Requests \subseteq [ttl : Words, swr : Words, sie : Words, sensitive : BOOLEAN, keys : SUBSET Keys]
ASSUME SecsAssumption == Secs \subseteq Words /\ MaxCalls \in Nat /\ MaxTicks \in Nat

VARIABLES host,         \* what the host suggests for the response as it is now
          headerKeys,   \* the values of the response's surrogate-key header
          prepared,     \* what HTTPCachePrepareResponseForStorage and the cookies said
          request,      \* the CacheOptions of the request
          memo,         \* suggestedCacheWriteOptions
          set,          \* the override of each option, where it is used
          storage,      \* overrideStorageAction, where useStorageAction
          word,         \* ghost: what the hook has last read of an option, or set
          refused,      \* ghost: the hook has called a SetUncacheable
          calls,        \* ghost: the hook's calls so far
          stored,       \* the action and the options applied
          age,          \* the entry's age now, in the host's unit
          found         \* the options of a Response found in the cache

hookVars == <<host, headerKeys, memo, set, storage, word, refused>>
vars == <<hookVars, prepared, request, calls, stored, age, found>>

Actions == {"insert", "update", "do_not_store", "record_uncacheable"}

\* The options a hook reads and sets, and its TTL, which it sets.
Options == {"swr", "sie", "vary", "keys", "sensitive"}
Settable == Options \cup {"ttl"}

Values(o) == CASE o \in {"ttl", "swr", "sie"} -> Words
               [] o = "vary" -> Rules
               [] o = "keys" -> SUBSET Keys
               [] o = "sensitive" -> BOOLEAN

PartOf(f) == DOMAIN f = Settable /\ \A o \in Settable : f[o] = Unset \/ f[o] \in Values(o)

WriteOptions == [maxAge : Words, age : Words, swr : Words, sie : Words,
                 vary : Rules, keys : SUBSET Keys, sensitive : BOOLEAN]

\* HTTPCachePrepareResponseForStorage, and whether there is a set-cookie header.
Prepared == [action : Actions, cookie : BOOLEAN]

\* The host may fail to suggest anything when the options are finalized.
Outcomes == [action : Actions, options : WriteOptions] \cup {[action |-> "error"]}

ASSUME UnsetAssumption ==
  /\ \A o \in Settable : \A v \in Values(o) : v # Unset
  /\ Unset \notin Actions /\ Unset \notin WriteOptions /\ Unset \notin Outcomes

TypeOK ==
  /\ host \in Suggestions /\ request \in Requests
  /\ headerKeys \in SUBSET Keys
  /\ prepared \in Prepared
  /\ memo \in WriteOptions \cup {Unset}
  /\ PartOf(set) /\ PartOf(word)
  /\ storage \in Actions \cup {Unset}
  /\ refused \in BOOLEAN /\ calls \in 0 .. MaxCalls
  /\ stored \in Outcomes \cup {Unset}
  /\ age \in Nat
  /\ found \in WriteOptions \cup {Unset}

\* Durations of the program are uint32 seconds, the host's are uint64 ns.
u64nsTou32s(ns) == (ns \div Second) % U32
u32sTou64ns(s) == s * Second
-----------------------------------------------------------------------------
\* An option of the request's CacheOptions counts unless it is zero.
NonZero(v, zero) == IF v = zero THEN Unset ELSE v

Overrides(r) ==
  [o \in Settable |-> IF o \in {"ttl", "swr", "sie"} THEN NonZero(r[o], 0)
                      ELSE IF o = "sensitive" THEN NonZero(r.sensitive, FALSE) ELSE Unset]

\* newCandidate.
Init ==
  /\ host \in Suggestions /\ request \in Requests
  /\ headerKeys \in SUBSET Keys
  /\ prepared \in Prepared
  /\ memo = Unset /\ storage = Unset /\ set = Overrides(request)
  /\ word = [o \in Settable |-> Unset] /\ refused = FALSE /\ calls = 0
  /\ stored = Unset /\ age = 0 /\ found = Unset

\* A response that sets cookies is not stored, if the hook says nothing.
SuggestedStorageAction ==
  IF prepared.cookie /\ prepared.action # "do_not_store" THEN "record_uncacheable" ELSE prepared.action

\* The mask of the result is the mask of the question, which asks for
\* everything: the flag for sensitive data among it.
HTTPCacheGetSuggestedCacheOptions ==
  [maxAge |-> host.maxAge, age |-> host.age, swr |-> host.swr, sie |-> host.sie,
   vary |-> host.vary, keys |-> host.keys, sensitive |-> TRUE]

loadFromABI(abi) ==
  [abi EXCEPT !.maxAge = u64nsTou32s(@), !.age = u64nsTou32s(@), !.swr = u64nsTou32s(@), !.sie = u64nsTou32s(@)]

Suggested == loadFromABI(HTTPCacheGetSuggestedCacheOptions)

\* Mutant: only the header's keys.
FreshWithoutExtra == [Suggested EXCEPT !.keys = @ \cup headerKeys]

\* buildFreshSuggestedCacheWriteOptions adds the request's keys and the header's.
BuildFresh == [Suggested EXCEPT !.keys = @ \cup request.keys \cup headerKeys]

getSuggestedCacheWriteOptions == IF memo = Unset THEN BuildFresh ELSE memo

Chosen(o, opts) == IF set[o] # Unset THEN set[o] ELSE opts[o]
-----------------------------------------------------------------------------
(***************************************************************************)
(* The hook.                                                               *)
(***************************************************************************)
Call ==
  /\ stored = Unset /\ calls < MaxCalls
  /\ calls' = calls + 1
  /\ UNCHANGED <<prepared, request, stored, age, found>>

\* SetHeader, DelHeader, SetStatus: the host would suggest something else from now on.
ChangeHeader ==
  /\ Call
  /\ host' \in Suggestions /\ headerKeys' \in SUBSET Keys
  /\ UNCHANGED <<memo, set, storage, word, refused>>

\* StaleWhileRevalidate, StaleIfError, Vary, SurrogateKeys, Sensitive: an
\* override is returned without asking the host.  A getter whose hostcall
\* fails changes nothing.
Read(o) ==
  /\ Call
  /\ memo' = IF set[o] # Unset THEN memo ELSE getSuggestedCacheWriteOptions
  /\ word' = [word EXCEPT ![o] = Chosen(o, getSuggestedCacheWriteOptions)]
  /\ UNCHANGED <<host, headerKeys, set, storage, refused>>

\* Mutant: a TTL that was set is not looked at.
RemainingOfSuggestion(opts) == IF opts.age >= opts.maxAge THEN 0 ELSE opts.maxAge - opts.age

Remaining(opts) ==
  LET maxAge == IF set.ttl # Unset THEN set.ttl ELSE opts.maxAge
  IN  IF opts.age >= maxAge THEN 0 ELSE maxAge - opts.age

\* TTLRemaining, TTL; Age and MaxAge ask for the same suggestion.
TTLRemaining ==
  /\ Call
  /\ memo' = getSuggestedCacheWriteOptions
  /\ word' = [word EXCEPT !["ttl"] = Remaining(getSuggestedCacheWriteOptions)]
  /\ UNCHANGED <<host, headerKeys, set, storage, refused>>

\* SetTTL, SetStaleWhileRevalidate, SetStaleIfError, SetVary,
\* SetSurrogateKeys, SetSensitive.
Set(o, v) ==
  /\ Call
  /\ o \in {"ttl", "swr", "sie"} => v \in Secs
  /\ set' = [set EXCEPT ![o] = v]
  /\ word' = [word EXCEPT ![o] = IF o = "ttl" THEN Unset ELSE v]
  /\ UNCHANGED <<host, headerKeys, memo, storage, refused>>

\* Mutant: SetCacheable means insert.
SetCacheableInserts ==
  /\ Call
  /\ storage' = "insert"
  /\ UNCHANGED <<host, headerKeys, memo, set, word, refused>>

SetCacheable ==
  /\ Call
  /\ LET was == IF storage = Unset THEN SuggestedStorageAction ELSE storage
     IN  storage' = IF was = "update" THEN "update" ELSE "insert"
  /\ UNCHANGED <<host, headerKeys, memo, set, word, refused>>

\* SetUncacheable, SetUncacheableDisableCollapsing.
SetUncacheable(action) ==
  /\ Call
  /\ action \in {"do_not_store", "record_uncacheable"}
  /\ storage' = action /\ refused' = TRUE
  /\ UNCHANGED <<host, headerKeys, memo, set, word>>
-----------------------------------------------------------------------------
(***************************************************************************)
(* finalizeOptions, and the entry it makes.                                *)
(***************************************************************************)
Lifetime(opts) == IF set.ttl # Unset /\ set.ttl >= opts.age THEN set.ttl - opts.age ELSE opts.maxAge

\* The length is found out but never told to the host (flushToABI).
Finalized(opts) ==
  [maxAge |-> Lifetime(opts), age |-> opts.age,
   swr |-> Chosen("swr", opts), sie |-> Chosen("sie", opts), vary |-> Chosen("vary", opts),
   keys |-> Chosen("keys", opts), sensitive |-> Chosen("sensitive", opts)]

\* Mutant: the options are built again from the response as it is now.
FinalizeFresh ==
  /\ stored = Unset
  /\ stored' = [action |-> IF storage = Unset THEN SuggestedStorageAction ELSE storage,
                options |-> Finalized(BuildFresh)]
  /\ age' = u32sTou64ns(stored'.options.age)
  /\ UNCHANGED <<hookVars, prepared, request, calls, found>>

finalizeOptions ==
  /\ stored = Unset
  /\ stored' = [action |-> IF storage = Unset THEN SuggestedStorageAction ELSE storage,
                options |-> Finalized(getSuggestedCacheWriteOptions)]
  /\ age' = u32sTou64ns(stored'.options.age)
  /\ UNCHANGED <<hookVars, prepared, request, calls, found>>

\* buildFreshSuggestedCacheWriteOptions asks the host, which may fail.
finalizeFails ==
  /\ stored = Unset /\ memo = Unset
  /\ stored' = [action |-> "error"]
  /\ UNCHANGED <<hookVars, prepared, request, calls, age, found>>

IsEntry == stored # Unset /\ stored.action \in {"insert", "update"}

flushToABI(opts) ==
  [opts EXCEPT !.maxAge = u32sTou64ns(@), !.age = u32sTou64ns(@), !.swr = u32sTou64ns(@), !.sie = u32sTou64ns(@)]

Tick ==
  /\ IsEntry /\ age < MaxTicks
  /\ age' = age + 1
  /\ UNCHANGED <<hookVars, prepared, request, calls, stored, found>>

\* What the host says of an entry that was found.
EntryOptions == flushToABI(stored.options)
HTTPCacheGetMaxAgeNs == EntryOptions.maxAge
HTTPCacheGetStaleWhileRevalidateNs == EntryOptions.swr
HTTPCacheGetStaleIfErrorNs == EntryOptions.sie
HTTPCacheGetAgeNs == age
HTTPCacheGetSensitiveData == EntryOptions.sensitive
HTTPCacheGetSurrogateKeys == EntryOptions.keys
HTTPCacheGetVaryRule == EntryOptions.vary

loadFromHandle ==
  [maxAge |-> u64nsTou32s(HTTPCacheGetMaxAgeNs), age |-> u64nsTou32s(HTTPCacheGetAgeNs),
   swr |-> u64nsTou32s(HTTPCacheGetStaleWhileRevalidateNs), sie |-> u64nsTou32s(HTTPCacheGetStaleIfErrorNs),
   vary |-> HTTPCacheGetVaryRule, keys |-> HTTPCacheGetSurrogateKeys, sensitive |-> HTTPCacheGetSensitiveData]

\* Mutant: the age is rounded up.
FoundRoundsUp ==
  /\ IsEntry
  /\ found' = [loadFromHandle EXCEPT !.age = ((age + Second - 1) \div Second) % U32]
  /\ UNCHANGED <<hookVars, prepared, request, calls, stored, age>>

\* httpCacheGetFoundResponse.
GetFoundResponse ==
  /\ IsEntry
  /\ found' = loadFromHandle
  /\ UNCHANGED <<hookVars, prepared, request, calls, stored, age>>

\* Response.TTL
ResponseTTL == (found.maxAge - found.age) % U32

Next ==
  \/ ChangeHeader \/ TTLRemaining \/ SetCacheable
  \/ \E o \in Options : Read(o)
  \/ \E o \in Settable : \E v \in Values(o) : Set(o, v)
  \/ \E action \in Actions : SetUncacheable(action)
  \/ finalizeOptions \/ finalizeFails \/ Tick \/ GetFoundResponse

Spec == Init /\ [][Next]_vars
-----------------------------------------------------------------------------
(***************************************************************************)
(* Properties.                                                             *)
(***************************************************************************)

\* What the hook has read of an option, or set it to, is what is written,
\* whatever it changes in the headers in between: the suggestion it was shown
\* is not replaced by a newer one when the options are finalized.
HookHasLastWord ==
  IsEntry => \A o \in Options : word[o] # Unset => stored.options[o] = word[o]

\* The surrogate keys the request asks for are on the entry, unless the hook
\* has set others: a purge by such a key finds it.
RequestKeysStored ==
  IsEntry /\ set.keys = Unset => request.keys \subseteq stored.options.keys

\* A response that revalidates an entry has no body, and never becomes an
\* insert because the hook calls it cacheable; only a hook that has refused it
\* first, or a cookie, makes it one.
RevalidationIsNoInsert ==
  stored # Unset /\ stored.action = "insert" /\ prepared.action = "update" => prepared.cookie \/ refused

\* How long the entry is fresh from the moment it is written: its age counts.
FreshFor == stored.options.maxAge - stored.options.age

Outlived == set.ttl # Unset /\ set.ttl < stored.options.age

\* An entry is fresh no longer than TTLRemaining has told the hook, and as long
\* as that when the freshness is the suggested one or the response has no age
\* yet.  The converse fails for a TTL set for a response with an age: finalizeOptions
\* takes the age off it, and the entry starts with that age, so it is taken off
\* twice.  A TTL that the response has already outlived gives way to the
\* suggestion, and the hook was told that nothing remains.
TTLAsTold ==
  IsEntry /\ word.ttl # Unset =>
    \/ Outlived /\ word.ttl = 0
    \/ /\ FreshFor <= word.ttl
       /\ (set.ttl = Unset \/ stored.options.age = 0) /\ FreshFor >= 0 => FreshFor = word.ttl

\* As long as the entry is fresh, the TTL of a Response found in the cache is
\* what is left of its life, in seconds begun.
FreshTTL ==
  [][LET left == u32sTou64ns(stored.options.maxAge) - age
     IN  found' # found /\ left >= 0 =>
           /\ left <= u32sTou64ns(ResponseTTL')
           /\ u32sTou64ns(ResponseTTL') < left + Second]_vars
=============================================================================
