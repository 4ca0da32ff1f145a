# Verification of the Fastly Compute SDK for Go

`compute-sdk-go` is the library a Go (or TinyGo) program uses inside a Fastly
Compute sandbox: a WebAssembly instance that gets HTTP requests from clients,
sends requests to backends, and shares a cache and several stores with every
other sandbox of the same POP. This directory holds TLA+ models of the parts in
which order, failure and concurrency matter, TLC runs over small instances, and
TLAPS proofs for instances of any size. Paths are relative to `src/`.

## 1. The system

### 1.1 How a program runs

A sandbox is one WebAssembly instance with one thread. Goroutines take turns
where the Go scheduler can switch: a channel, a sleep, a wait group, user code
that contains one of these, a collection of garbage. A *hostcall* blocks the
whole instance.
Sandboxes run beside each other and meet only in the host: its cache, its
stores, the backends. A sandbox may panic or be killed at any instruction; the
host then drops its handles.

### 1.2 Components, state, operations

| Component | Source | State it keeps | Operations | Interacts with |
|---|---|---|---|---|
| `Request.Send` | `fsthttp/request.go` | `sent`, `abi.req`, `abi.body`, the body's streaming bit, the channel `errc`, the package variable `useGuestCaching` | `Send`, `constructABIRequest`, `setABIRequestOptions`, `shouldUseGuestCaching`, `copyBody` (a goroutine), `pendingToABIResponse` | the host's request and pending-request hostcalls; calls the guest cache and the Image Optimizer |
| Guest cache | `fsthttp/request.go` 595-810, `fsthttp/cache.go` | the cache handle, the lookup state, the `CandidateResponse`, the wait group `guestCacheSWRPending` | `sendWithGuestCache`, `sendAsyncForCaching`, `newCandidate`, `applyAndStreamBack`, `applyInBackground`, the user's `BeforeSend`/`AfterSend` | the host's HTTP cache, backends, `Serve`/`ServeMany` (which wait for its goroutines) |
| Host HTTP cache | `internal/abi/fastly/httpcache_guest.go` | (in the host) the entry of a key, who has to provide it, who waits | the `HTTPCacheTransaction…` hostcalls | every sandbox |
| Serving | `fsthttp/handle.go` | `requestCount`, the promise of the next request | `Serve`, `ServeMany`, `serve` | the handler, the ResponseWriter, the guest cache's wait group |
| ResponseWriter | `fsthttp/response.go` | `wroteHeaders`, `closed`, `sendErr`, `trailers`, the header map | `WriteHeader`, `Write`, `Append`, `Close`, `writeTrailers` | `send_downstream`, body hostcalls, `serve` |
| Core cache | `cache/core/core.go`, `internal/abi/fastly/cache_guest.go` | `Transaction` (state, `found`, `ended`), bodies | `Lookup`, `Insert`, `NewTransaction`, `Insert`, `InsertAndStreamBack`, `Update`, `Cancel`, `Close` | the host's core cache |
| Simple cache | `cache/simple/simple.go`, `purge/purge.go` | none of its own | `Get`, `GetOrSet`, `Purge` | Core cache |
| Candidate options | `fsthttp/cache.go` 11-712 | the memoised suggestion, the overrides of a hook, the storage action | the getters and setters of `CandidateResponse`, `finalizeOptions`, `loadFromHandle` | the host's HTTP cache, `AfterSend`, `Response.TTL` |
| Hostcall buffers | `internal/abi/fastly/types.go` 384-507, `adaptivebuf.go` | cursor and buffer of a `Values` iterator | `Values.Next`, `withAdaptiveBuffer` | every getter |
| Metadata and lookups | `fsthttp/bot.go`, `resvpnproxy.go`, `request.go`, `configstore`, `edgedict`, `secretstore`, `geo`, `device`, `acl`, `shielding`, `compute` | a dictionary's mutex and buffer | `FastlyMeta`, `BotDetection`, `Get`, `Lookup`… | the host |
| KV store | `kvstore/kvstore.go` | pending handles, the `ListIter` page and error | `Lookup`, `Insert…`, `Delete`, `List` | the host's store, other sandboxes |
| Dynamic backends | `fsthttp/backend.go` | the builder's mask, fields and errors | the builder's setters, `RegisterDynamicBackend`, `BackendFromName` | the host's names |
| Transport | `fsthttp/transport.go`, `adapter.go` | a map from hosts to backends behind a mutex | `RoundTrip`, `Adapt` | `Request.Send` |
| Rate limiting | `erl/erl.go` | in the host: counters, penalty boxes | `Increment`, `Check`, `Add`, `Has` | the host |
| Everything else | see `PROJECT.json`, `components` | none, or one hostcall each | getters, parsers, loggers | |

### 1.3 What is hard

* **Obligations.** The host makes one transaction per key responsible for
  providing a response and blocks the others. Some ten returns of
  `sendWithGuestCache`, the goroutine of a background revalidation, a panic and
  the end of the program each have to give the obligation back.
* **A blocking hostcall stops the goroutines too.** A lookup that waits for an
  obligation of its own sandbox waits for ever.
* **A goroutine that outlives its caller.** `copyBody` goes on after `Send` has
  returned; its channel has to hold everything it will ever report.
* **State left by a failed call.** `Send` may be called again; what the first
  call had built decides what the second one skips.
* **Implicit calls.** `Write`, `Append`, `Close` and `serve` itself may be the
  first to send the response, and may be the call that fails.
* **Two reads of one map.** Trailer names are taken when the preamble goes out,
  their values at `Close`.
* **Remembered answers.** A candidate keeps the first suggestion of the host
  while its hook goes on changing headers; an iterator keeps a cursor and a
  buffer while the host decides how much it writes and when it says it is done.
* **Sizes that change.** A value may grow or go away between the hostcall that
  says how long it is and the one that fetches it.
* **Work of others between two calls.** Another sandbox writes the entry between
  a `Lookup` and an `Insert`, or a key between two pages of a listing; another
  goroutine registers the backend name.
* **Edges of 32 bits.** Milliseconds of a timeout, seconds of an age, the
  difference of a lifetime and an age.

### 1.4 What makes each component correct

Where the code falls short of one of these, the property makes an exception and
section 5 names it.

* *Guest cache:* the obligation the code acts on is the one the host recorded;
  one request for caching per key in flight; code that stops working for an
  answer leaves an answer or a successor behind; a failed Send keeps nothing;
  the program does not end under a running revalidation; every Send returns.
* *Send:* a truncated stream is never closed as a complete one; a response is
  not returned over a known error of the body; the copying goroutine and Send
  end; a request goes out once, with its header fields, its body, its hooks.
* *Serving:* a started response is ended; a panic over a response happens only
  while a 500 can still be sent; the client gets the announced and the prefixed
  trailers;
  `MaxRequests` holds; a response that could not be sent is reported.
* *Core and Simple cache:* one setter at a time; nobody reads a truncated object
  as a whole one; a call of `GetOrSet` that is over keeps no obligation;
  `GetOrSet` returns and its readers finish; a transaction that gives up leaves
  a successor.
* *Candidate options:* what the hook was shown or has set is stored; the
  request's surrogate keys are on the entry; a revalidation stays one; an entry
  is fresh for as long as the hook was told.
* *Buffers and reads:* an iterator returns each value once, in order, whatever
  the sizes; a result made of several attributes is whole or an error; both end.
* *KV store:* no confirmed update is lost; an error tells whether the operation
  was done; a listing has every key that was there throughout, once.
* *Backends:* what is registered is what the calls said, in whatever order, and
  what a `Backend` says is what is registered.

## 2. The modules

| Module | Models | Lines |
|---|---|---|
| `HTTPCache` | the host's HTTP cache for one key, as the hostcall wrappers show it | operators, no `Next` of its own |
| `GuestCache` | `sendWithGuestCache`, its goroutines, sandboxes that serve and end; extends `HTTPCache` | state machine |
| `MCGuestCache` | instances of `GuestCache` | |
| `Collapsing` | what request collapsing promises its clients: the abstract specification of both caches | state machine |
| `CoreCache` | the Core Cache API over the transactions of `HTTPCache`, with objects and their bodies | operators, no `Next` of its own |
| `SimpleCache` | `Get` and `GetOrSet` beside arbitrary users of the Core API; extends `CoreCache` | state machine |
| `MCSimpleCache` | instances of `SimpleCache` | |
| `HTTPCacheProofs` | lemmas on what the host's transactions do to the lookups | |
| `GuestCacheProofs` | theorems about `GuestCache` | |
| `SimpleCacheProofs` | theorems about `SimpleCache` | |
| `SendRequest` | `Request.Send` apart from the guest cache | state machine |
| `Downstream` | `Serve`, `ServeMany`, `serve`, the ResponseWriter, handoff | state machine |
| `CandidateOptions` | the cache write options of a `CandidateResponse`, and of a `Response` found later | state machine |
| `HeaderFields` | header fields and trailers in the host, and the two nested `Values` iterators that read them | state machine |
| `HostAttributes` | what the guest reads one value at a time, with which buffer, and the plans of the functions that read several | definitions |
| `HostReads` | goroutines that carry out these plans; extends `HostAttributes` | state machine |
| `KVStore` | clients of a KV store and a `ListIter` | state machine |
| `Backends` | the builder of a dynamic backend, its registration and what it says | state machine |
| `MCCandidateOptions`, `MCHeaderFields`, `MCHostReads`, `MCKVStore`, `MCBackends` | their instances | |
| `SendRequestProofs`, `DownstreamProofs`, `KVStoreProofs` | theorems about the module in their name | |
| `FieldsProofs` | theorems about `HeaderFields` and `Backends` | |
| `AttributesProofs` | theorems about `CandidateOptions` and `HostReads` | |

### 2.1 HTTPCache and GuestCache

Keys do not interact in the host, so the model has one. `entry` is what the
cache has for it: nothing, a fresh response, one within stale-while-revalidate
(`swr`) or stale-if-error (`sie`), one beyond both (`stale`), or a hit-for-pass
marker. `holder` is the transaction with the obligation, `lookup[s]` the cache
handle of Send `s` and the `CacheLookupState` flags it got, `stream` the Send
that still writes the entry's body. The host is not in the repository: its
behaviour is what the witx comments over the wrappers say and what
`sendWithGuestCache` relies on. A hostcall that fails has no effect in the host;
the caller's error path is an action of `GuestCache`.

`pc[s]` follows a Send through `sendWithGuestCache`; a step reaches from one
effect on the host's cache to the next. `ReturnCached`,
`ReturnCachedAndRevalidate`, `FetchForCaching` and `SendOriginal` are the four
answers to a lookup (`request.go` 651-741); `CandidateFails` and `ReturnStale`
the two ends of a failed fetch (699-715); `StoreInsert`, `StoreUpdate`,
`DoNotStore` and `RecordUncacheable` the storage actions of
`applyAndStreamBack`; the `Bg…` actions are the goroutine of lines 664-673 with
`applyInBackground`. `ReturnStale` has both ends of `ChooseStale`: the code
ignores its error and returns the stale response all the same. `StopServing`,
`Exit` and `Crash` end a sandbox. The deferred close of the handle is part of
the action that returns.

Scheduling: while a goroutine of a sandbox is in a lookup that has not returned,
no other one runs (`Awake`). Otherwise any goroutine may take the next step: a
handler may call `Send` from several of them
(`_examples/parallel-requests`), hooks and the readers of user bodies yield, and
so does a collection of garbage. A handler returns only when the calls of `Send`
it began have (`StopServing`); one that leaves goroutines inside `Send` behind
is not modelled.

`Role` says what a Send is to the others by where its own code has got, not by
what the host has for it: idle, waiting, leading (it is on a path that still has
to provide a response), stuck (its goroutine has returned with the handle open),
over. `KeepsPromise` maps these roles and the host's `holder` to `Collapsing`.

Abstracted away: cache keys (a Request that is sent again has lost the
`OverrideKey` of its `CacheOptions`, `request.go` 624, and looks another key up),
header and body contents, write options (the host
or `AfterSend` picks any storage action), the number of hostcalls that can fail
in a row (each error return is reached as one alternative).

### 2.2 SendRequest

One `Request`, on which `Send` is called up to `MaxCalls` times; its shape
(kind of body, image options, Pass or PURGE, hooks) is chosen initially. `abi` is
the set of parts of the host's request that exist, so that a second call can
meet what a failed one left. `errc` is the channel with its capacity, `copy` the
goroutine of `copyBody`, `body` what the host has of the body and how it was
ended, `closable` the streaming bit. `Poll` is the default branch of the select
and is possible only when no other case is ready.

`out` is the log of what went to the backend: by which path, with or without the
options, and how much of the body was there when it went; which path runs the
hooks is a matter of the path.
`ToGuestCache` stands for `sendWithGuestCache` (module GuestCache): a result,
with a request of its own that runs the hooks, reads the user's body and closes
it (`spent`: a second `Send` meets a body that is used up), with the original
request passed to the origin, or with none. The Image Optimizer and a request
passed to the origin by the guest cache send `abi.body` as it is: the body of a
reader goes out empty, and the hooks are not run (`GoesUncopied`). The guest
cache's own request panics when the host refuses it a body.

### 2.3 Downstream

`writer` is the `responseWriter`, `header` its header map as far as trailers are
concerned, `client` what the client got. The handler calls anything in any
order. `HeaderSent` is `WriteHeader`; `Implicit` its implicit call by `Write`,
`Append` and `Close`; `CloseOutcomes` is `Close` with `writeTrailers`, used both
by the handler and by `serve`: it sends the header if need be, and then
(`Closings`) does nothing to a response with an error, or appends the first
value of each trailer and ends the body. There is one trailer the handler may
announce and one with the `TrailerPrefix`, each with up to two values. The host
may refuse any of them (`refused`): the loop goes on with the others, the error
is only printed, and the body is ended as if nothing had happened. Every
hostcall fails or succeeds; the host accepts one final preamble, none after a
handoff, and no 1xx code but 103.

### 2.4 CoreCache, SimpleCache and Collapsing

The core cache has the same transactions as the HTTP cache, without
stale-if-error and hit-for-pass, so `CoreCache` builds its operations from those
of `HTTPCache` and adds what the HTTP cache model leaves out: which object the
entry has (`current`), which one a transaction has found (`got`), who writes
which (`writer`), who reads which (`reader`), and how each body was ended
(`object`). An object can be read from the moment it is inserted; one that is
replaced or purged goes on being written and read. A user is a sandbox with one
transaction.

In `SimpleCache` the users in `Simple` call `Get` or `GetOrSet` once, the others
call the Core API in any order (`CoreRun`), which includes an `Insert` outside
any transaction over an entry somebody else is to provide. The deferred
`tx.Close` and `w.Close` are part of the actions that return: `CopyFails` is
`Abandon` first, the deferred `Close` meets a handle that is gone. If `Abandon`
fails, its error is ignored and the deferred `Close` completes what there is; so
it does when the reader that setFn has returned panics (`CopyPanics`). Such an
object is complete with the end `unwound`; one the host refuses to end in any
way is `refused` and open until the sandbox ends. `Crash` is the end of a
sandbox without deferred calls. `ReadBody` stands for reading a body to its end.

`Collapsing` knows only a leader and a phase per client: idle, waiting, leading,
stuck, over. A leader leaves in one of four ways: with an answer for all
(`Fulfil`), to one of those who wait (`HandOn`), with nobody waiting
(`Dissolve`), or without telling anybody (`GetStuck`). The phases of a client are
not read off the host: `GuestCache` and `SimpleCache` each define `Role`, from
the program counter of the code and the flags it read, and their runs check
`KeepsPromise` under it. A return that forgets to close its transaction is a
client that stops leading while the host still holds it to its obligation, and
no step of `Collapsing` (the mutants of both runs are of this kind). The one
place where the code does so is allowed as `GetStuck`, in `GuestCache` only, for
the goroutine of `background_leak`.

### 2.5 CandidateOptions

`host` is what the host would suggest for the response as it is now, `memo` the
suggestion once a getter has asked for it, `set` the overrides (initially those
of the request's `CacheOptions`, `newCandidate`), `storage` the override of the
storage action. `Read`, `TTLRemaining`, `Set`, `SetCacheable`, `SetUncacheable`
and `ChangeHeader` are the hook's calls; `finalizeOptions` makes the entry,
`Tick` ages it, `GetFoundResponse` reads it back through `loadFromHandle`. The
program's durations are words of seconds, the host's are in a finer unit:
`u64nsTou32s` and `u32sTou64ns` are modelled by what they do to both. `word` is
a ghost: what the hook has last read of an option, or set. The entry starts with
the age that is written beside its lifetime (`age`), which is what the host's
`initial_age_ns` and `Response.TTL` make of it. Where `GuestCache`
lets the host or the hook pick any storage action, this module says which.

### 2.6 HeaderFields, HostAttributes and HostReads

An iterator of `HeaderFields` has the capacity of its buffer, the cursor, the
values it holds (`pending`) and the host's word that it is done (`finished`).
The host lists each name that has a value once, in an order of its own (`List`).
The host is as free as the wrapper's comments allow: it writes as many whole
values as it likes if they fit, one at least if there is one, and says that it
is done with the last value or on a further call (`Writes`); it answers
`BufLen` when not even one fits (`TooSmall`); it may fail (`Fails`), and a body
whose trailers are not there yet answers `Again` (`NotReady`). Around it are the
loops of `newClientRequest`, `newResponse` and `Response.Trailers`.

`HostAttributes` has one definition for each attribute with the buffer its
wrapper offers: `Adaptive(n)` grows, `Fixed(n)` does not, `Scalar` is an out
parameter, `Probe` asks without a buffer, `Shared` is the dictionary's. A plan
is the sequence of attributes a function reads, each with what it does when one
is missing: fail, go on with a zero value (`ignoreNoneError`), stop, or keep the
first error and go on (`BotDetection`). `httpCacheGetFoundResponse` is two
plans: it asks for the hits only when it was a hit, and returns neither a
response nor an error when the host has none. `HostReads` carries plans out while the
host's values change at any moment (`HostChanges`); `Lock`, `Fill`, `Copy` are
`Dictionary.GetBytes`.

### 2.7 KVStore

An operation is the hostcall that starts it (`Lookup`, `InsertWithConfig`,
`Delete`), what the host does with it (`HostReads`, `HostChanges`,
`HostRefuses`, and `HostLosesAnswer`, which fails after the work is done), and
the wait (`LookupWait`, `InsertWait`, `DeleteWait`) with the error
`mapFastlyErr` makes. A wait gives the host's answer or a status of the wait
hostcall itself, whatever the host has done by then (`WaitResults`). The caller
of a `Lookup` reads the entry with `Entry.String`, which is the empty string if
the body cannot be read; `whole` remembers whether it was. A value is a sequence
of tokens, one for each insert, so that an append, a prepend and a read-modify-write can be told apart from an
overwrite that loses something. The listing takes the configuration of each
page from the last one (`ListConf`); an empty page is not kept, and ends it.

Assumed of the host: an operation is atomic, generations only grow, a page has
the first keys after the cursor, in order and no more than its limit
(`HostPages`), a page is empty only when nothing is left, and a cursor is the
last key of its page; after a wait that failed the host does not do the operation
any more. Listing with eventual consistency is not modelled.

### 2.8 Backends

`mask` and `opts` are the configuration the setters fill in, `errs` the refused
calls, `said` a ghost of what each option was last set to. Times are integers in
a unit finer than the millisecond, words have `U32` values. The registration
takes the name if nobody has it, this program's other goroutine or the service
itself (`Static`); `populateConfig` then reads whether the backend is dynamic,
its target, which takes the place of the one the program named, and the options.
A getter may fail after that, or be quiet (`None`, or `Unsupported` for times and
versions). Conversions
of a float outside of the word, which Go leaves to the implementation, are kept
out by bounds in `TCPKeepaliveInterval` and `TCPKeepaliveTime`.

## 3. The runs

| Run | Instance | Checks |
|---|---|---|
| `guest_cache_safety` | 2 sandboxes, 3 Sends (two in one sandbox), hooks on two | type; obligation tracked; one fetch in flight; failed Send lets go; revalidations drained; refinement of `Collapsing` |
| `guest_cache_liveness` | 2 sandboxes, 1 Send each, fairness | `SendReturns` |
| `background_leak` | as the first | violation: the goroutine forgets the handle when its revalidation fails |
| `send_request` | every shape, 3 calls, fairness | sends accounted for over failed and repeated calls; truncation of streams visible; reports before answers; the goroutine ends; Send returns |
| `downstream_safety` | `MaxRequests` 2 of 3 clients, 1 early hint, 2 trailers | panic means no response; responses ended; trailers as announced; `MaxRequests` |
| `simple_cache_safety` | 2 users of the Simple API, 1 of the Core API, 2 objects | type; one setter; no truncated read; obligation in use; refinement of `Collapsing` |
| `simple_cache_liveness` | 3 users of the Simple API, 2 objects, fairness | `GetOrSetReturns`, `ReadersFinish` |
| `candidate_options` | 3 calls of a hook, 2 suggestions, 2 kinds of request, words of 4 values, 2 ticks to a second | `HookHasLastWord`, `RequestKeysStored`, `RevalidationIsNoInsert`, `TTLAsTold`, `FreshTTL` |
| `header_fields` | 2 names, values of two sizes, at most 3 to a field, buffers of 1 and 2 | `HeaderComplete`, `NothingLostOrTwice`, `ReadEnds` |
| `host_reads` | one goroutine with every plan, one at the same dictionary, values around every buffer size, fairness | `ResultWhole`, `LookupReturns` |
| `kv_store` | 2 clients with 2 operations each on one of the 2 listed keys, pages of one key, 2 calls of `Next` | `NoLostUpdate`, `ToldTheTruth`, `ListComplete` |
| `backends` | 3 calls of the builder, 5 times around the edges, one other goroutine | `RegisteredAsSaid`, `LastWordOnSwitches`, `BackendTells` |

Bounds. Three Sends over two sandboxes are the smallest instance with a leader,
a waiter in another sandbox and a second Send in the leader's own sandbox, which
covers every pair of roles; the theorems remove the bound. Three calls of Send
are a call that fails or is answered from the cache, one that finds what it left
and one after that. Two trailers are the two ways a trailer gets to the client,
and two values one more than the code sends
(section 5). Three clients exceed `MaxRequests` by one. One early hint
precedes a final preamble, and a second one would meet the same writer state.
Two users of `GetOrSet` are a setter and one that waits for it, the third, of
the Core API, disturbs both from outside, and with two objects one is replaced while it is
written or read; a call that finds no object left takes the way of a failing
insert. Three calls of a hook are a read, a change and a second read or a
setting between them; the suggestions differ in every option, and one is older
than a TTL the hook may set. Fields of three values of sizes one and three, and
buffers smaller than the larger, make a field fit at once, in two parts, and not
at all. The lengths of a value lie below, at and above each buffer. Two clients
with two operations are two read-modify-writes that overlap, or one that is
disturbed by an overwrite, a delete or an append; the listing has two pages, and
the key they write comes, goes or changes before the first, between the two and
after the second, so that a cursor counted in keys instead of naming one would
skip or repeat the other. Three calls of the builder are an option, the
switch it implies and a third that undoes one of them; the times are negative,
below a millisecond, and around 2^32 ms. Deadlock is not checked where the
program ends by itself.

Fairness. `GuestCache`: weak fairness of each sandbox that can run, nothing
about new requests, expiry or crashes: the host schedules live instances.
`SendReturns` excludes the state in which a sandbox waits for its own obligation
(`SelfBlocked`): the code has no way out of it. With one Send in each sandbox the
instance of the liveness run does not reach that state, so what the run shows is
that a Send returns over the failures, leaks and crashes of *other* sandboxes. `SendRequest`: weak fairness of
Send, strong fairness of the goroutine (the poll loop repeatedly wakes and
sleeps, and the scheduler's queue is first in, first out), and the host resolves
a pending request whose body was ended; nothing makes a backend answer before
that.
`SimpleCache`: weak fairness of
every step inside `GetOrSet`, so that setFn and the reader it returns come to an
end, and of reading; nothing about Core users, who may sit on an obligation,
which is why the liveness run has none. `HeaderFields`: weak fairness of the
reading, because hostcalls return and the loops go on; no hostcall has to fail.
`HostReads`: weak fairness of the hostcalls of each goroutine, and strong
fairness of locking, because Go's mutex lets no goroutine wait for ever; the
host may change its values as often as it likes.

Each property of a passing run has a mutant: an operator beside the real one
with a plausible bug of the SDK (a missing `Add`, a forgotten close, a short
channel, a test in the wrong place) under which TLC finds the property violated.

## 4. What is proved

`GuestCacheProofs` proves, for every finite set of Sends, every set of
sandboxes, every assignment of Sends to sandboxes and every choice of hooks:

* `Invariance`: `Spec => []IInv`;
* `TypeCorrect`: the type invariant, with the wait group never negative;
* `ObligationSafe`, `CollapsingSafe`, `FailureSafe`, `DrainSafe`: the four safety
  invariants of `guest_cache_safety`;
* `PromiseKept`: `GuestCache` implements `Collapsing`, with the roles of its code
  for the phases.

Assumptions: `None` is not a Send, `Sends` is finite, `Home` maps Sends to
sandboxes, `Hooks` are Sends. They are evaluated by every run of
`MCGuestCache`.

The argument. None of the safety invariants is inductive alone: that a failed
Send keeps no obligation needs that the obligation is where the code believes it
is, and this needs that a handle is open exactly between lookup and close.
`IInv` is `CoreInv /\ WaitGroupInv`. `CoreInv` conjoins weak types, `SendInv`
(for one Send: how `pc`, handle, goroutine, result and sandbox exclude each
other), `CollapseInv` (waiters only on an entry that collapses, with a holder)
and `ObligationTracked` itself, which makes `holder` a function of the guests'
control states. `WaitGroupInv` says that the counter is the number of active
goroutines; it needs finite-set cardinalities and so its own step lemma. The
steps are grouped by effect: a return that closes (`ReturnClosed`), an operation
that fulfils (`MainFulfils`, `BgFulfils`), one that abandons, the end of a
sandbox (`SandboxEnds`), the lookup, and steps that leave the host alone.

`SimpleCacheProofs` proves, for every set of users, every subset of them that
uses the Simple API and every set of objects:

* `Invariance`: `Spec => []IInv`;
* `TypeCorrect`: the type invariant, with an entry exactly when there is an
  object for it;
* `SetterSafe`, `ReturnSafe`, `ReadSafe`: `OneSetter`, `ObligationInUse` and
  `NoTruncatedRead`;
* `PromiseKept`: `SimpleCache` implements `Collapsing`, with the roles of
  `GetOrSet` for the phases.

Assumptions: `None` is not a user, `NoObject` is not an object, the users of the
Simple API are users. They are evaluated by every run of `MCSimpleCache`.

The argument. `IInv` is `TypeOK /\ ObligationInv /\ ObjectInv`. `OneSetter` is
not inductive: that a user in setFn has the obligation rests on the flag its
lookup was given, so `ObligationInv` adds that an open handle of a user that is
`looking` and flagged to insert is the holder's, that a holder was told
(`HolderTold`), and that the end of a copy meets an open handle without the
obligation, so that closing it hands nothing over. `NoTruncatedRead` rests on
`ObjectInv`: an object that is written has one writer, which `Broken` and
`Completed` therefore end for everybody, and a complete object is whole and
stays complete. The steps are grouped by effect, as above: `CloseKeeps`,
`FulfilKeeps`, `CancelKeeps`, `LookupKeeps`, `LocalKeeps` for the obligation,
`NewObjectKeeps`, `EndObjectKeeps`, `ReadKeeps` for the objects.

The refinements. `Collapsing` is told the phases by `Role`, which reads the
program counter, so each step of the code has to be shown to do to the host what
its change of role says. `RoleFacts` gets from the invariant that the roles agree
with the host before and after the step: whoever leads (or is stuck) is the
holder, whoever waits is in a lookup. Then the steps are grouped by what they are
in `Collapsing`: `FulfilPromise` (an answer for all who wait), `GonePromise` and
`AlonePromise` (whoever leaves passes the lead on, dissolves the collapse, or was
not leading), `LookupPromise` (to lead, to join, or to find an answer),
`SameRoles` (a stutter). In `GuestCacheProofs` the groups meet in `MainPromise`,
`BackgroundPromise` (with `GetStuck` for the goroutine that returns with its
handle open), `EndPromise` and `QuietPromise`, in `SimpleCacheProofs` in
`PromiseNext`. What the host's operations do to the lookups is in the lemmas of
`HTTPCacheProofs` (`HandOverEffect`, `ClosedEffect`, `CompleteCollapseEffect`).

`SendRequestProofs` proves, for any number of calls of `Send` on one `Request`
of any shape: `TruncationIsVisible`, `EverySendIsAccounted`,
`ReportsAreReadFirst` (an action property) and, for the comment on the size of
the error channel, `ReportsAlwaysFit`. Assumption: `MaxCalls` is positive.
`IInv` adds four parts to the types. `HalfBuiltInv` says which parts of the
host's request can exist at each point, and that only a call after a failed one
starts with some of them: without it, `SendsAccounted` cannot tell a first call
from a retry. `OnceInv` says that a call that has not sent yet has one request
left, and two if it goes on with what a failed call left (`Partial`); `OutInv`
that every request in the log is accounted for by facts that later steps cannot
take back. Both rest on one lemma about the four actions that send: each adds
nothing to the log or one request of its own path (`SendingMoves`).
`TruncationVisible` speaks of streamed bodies: one whose copy failed is never
ended as complete. A body of known size whose copy failed has gone out with a
`Content-Length` by then, and nothing but the result of Send says so
(`ReportsComeFirst`).
`CopyInv` relates the goroutine, the body and the channel: at each point
the goroutine has made at most so many reports, and after a failed copy there is
an error in the channel for as long as the poll loop runs, because the loop
leaves as soon as it reads one. A lemma on `Head`, `Tail` and `Append`
(`ErrorStays`) carries it over reads and writes of the channel.

`DownstreamProofs` proves, for any `MaxRequests`, clients and early hints, and
whatever handlers do: `PanicsBeforeResponse`, `EveryResponseEnds`, `BoundIsKept`
and the action property `TrailersAreKept`. Assumption: the bounds are natural
numbers. The heart of `IInv` is `Agree`: what the `responseWriter` believes of
its response (header written, error, closed, trailers announced) is what the
client has of it (`Due` is what is owed of each trailer). Every operation of the
writer is shown to keep `Agree` from any state (`HeaderSentKeeps` and the lemmas after it); `LoopInv` adds who set
the writer's error, `CountInv` that the count is one ahead exactly where a
request may arrive.

`KVStoreProofs` proves, for any clients, keys, operations, page size and calls
of `Next`: `UpdatesAreKept`, `ErrorsAreTrue` and `ListingIsComplete`.
Assumptions: the keys are an interval of numbers, those selected and those
written are among them, the limit is positive, `Absent` is neither a number nor
an entry. That no confirmed update is lost is not inductive: one has to know
that a generation stands for one value of its key for ever (`Within`), also
while the value is at a client, in an insert on its way, or already replaced in
the host (`ReadInv`), and that the token of an insert is in the store, or taken
away on purpose, from the moment the host has done it, before the client is told
(`TokenInv`). `AnswerInv` is the same for the answers. `ListInv` says that every
key that was there all the time and is not beyond the cursor has been returned;
it is kept because a page has the first keys after the cursor.

`FieldsProofs` proves of `HeaderFields`, for any finite set of names, any values
and sizes and any first buffers: `HeadersAreComplete` and
`NothingIsLostOrRepeated`. Assumptions: `Names` is finite, `None` is not a name,
sizes are positive, the buffers and the bound on values are natural numbers.
`IInv` says of an iterator that what waits in its buffer is the stretch of its
list between what it has handed out (`Passed`) and the cursor, and that the host
is done only at the end of the list (`Buffered`); of the names, that those
handed out are in the Header with all their values, but for the one at hand, and
the others with none; of the one at hand, that the Header has its first values.
The list of names needs a lemma about `SetToSeq` (`SetToSeqLists`: every
element, once), the sequence equation one about parts that continue each other
(`ThreeParts`).

`AttributesProofs` proves of `HostReads`, for any goroutines, any set of lengths
and any first buffers, and for all 23 plans: `HostReadsInvariance`,
`HostReadsTypeCorrect`, `ResultsAreWhole` and the action property
`LookupsAdvance`. Assumptions: the buffers are natural numbers, an out parameter
has room for a value, lengths are between 1 and the longest, `Free` is not a
goroutine. `HostReadsInv` is, for each goroutine: a read has values for the
steps behind it and at least one step ahead (`ProgressInv`), the values so far
are whole (`WholeInv`), an error about a buffer comes from a plan with a buffer
that does not grow (`ErrorInv`), and who is inside `getBytesUnlocked` has the
mutex, with its own value in the buffer as soon as it is filled (`BufferInv`).
`ResultWhole` alone is not inductive: without `BufferInv` a step of one
goroutine could change what another is about to copy. The lemma `PlansAreGood`
goes through the plans: each has a step, a shared buffer never grows, and only a
first step may end the read for want of a value (so a read that stops there has
nothing half read). `LookupsAdvance` is the part of `LookupReturns` that needs
no fairness: each answer of the host brings the value, the end, or a buffer that
is longer and no longer than a value, and neither the host's changes nor other
goroutines set a read back. No run lists `LookupAdvances`; TLC found it true on
the instance of `host_reads` before it was proved.

`AttributesProofs` proves of `CandidateOptions`, for any suggestions, requests,
rules, keys and number of calls, every unit of time and every width of a word:
`TheHookHasTheLastWord`, `RequestKeysAreStored`, `RevalidationsAreNoInserts`,
`TheTTLIsAsTold` and the action property `FreshTTLIsTheRest`. Assumptions: the
unit and the width are positive, suggestions and requests have their types,
`Unset` is not a value of anything. `IInv` says that the suggestion, once shown,
has the request's keys (`MemoInv`); that the hook's word is the override where
there is one, and otherwise what the kept suggestion says, which therefore
exists (`WordInv`); where an insert can come from (`StorageInv`); and that what
is stored is a function of what the hook has left (`StoredInv`). `FreshTTL` is
arithmetic: a word of seconds survives the conversion to the host's unit and
back (`SecondsComeBack`), and while `age` is within the lifetime neither the
remainder nor the subtraction wraps.

`FieldsProofs` proves of `Backends`, for any times, units, width of a word,
number of calls: `BackendsInvariance`, `BackendsTypeCorrect`,
`RegistrationIsAsSaid`, `SwitchesHaveTheLastWord` and `BackendsTell`.
Assumptions: a word has more than two values (it holds the TLS versions), a
millisecond is a unit or more and a second is longer, probes fit a word, `Text`,
`Blank` and `Unset` differ from each other and from numbers. `BackendsInv` ties
together what the properties relate only at the registration: as long as no call
was refused, the mask and the options of the builder are what `said` holds of
each option (`BuilderInv`) and the switches are as the last call left them
(`SwitchInv`), after every single call; a registration is the builder's
configuration, without a refused call (`RegisteredInv`), and it stays so because
the builder is not used again; a `Backend` is what `populateConfig` made of the
registration (`BackendInv`). The conversions are lemmas: a time that passes the
check fits its word in milliseconds if it is `Meant`, a keepalive in seconds
always (`MillisecondsFit`, `SecondsFit`).

A module of proofs may be about two modules that have nothing to do with each
other; it extends both, which is why `HostReads` and `Backends` have their own
names for `Init`, `Next`, `Spec` and the type invariant.

Each inductive invariant was model-checked on the instance of its run before it
was proved. The assumptions are evaluated by TLC on every run of the module.

Only model-checked: the liveness properties (`SendReturns`, `CopyTerminates`,
`SendTerminates`, `GetOrSetReturns`, `ReadersFinish`, `ReadEnds`,
`LookupReturns`), because fairness is outside the prover's reach. Every other
property of a passing run is a theorem.

## 5. Disagreements between code and documentation

Shown by a run (`background_leak`): a background revalidation that fails keeps
its cache handle and the obligation until the sandbox ends (`request.go` 669;
the comment at 674 says the goroutine closes it).

Read from the code while modelling it. The models follow the code, and the
properties make exactly these exceptions.

Two of these are mistakes of arithmetic:

* A TTL that a hook sets is reduced by the age of the response before it is
  written as the full lifetime (`cache.go` 665), and the age is written beside
  it (670), so the entry is fresh for the TTL minus twice the age, and may be
  stale at once. The documentation of `MaxAge` (381-386) calls what is written
  the full lifetime, from which the age is not subtracted, and
  `TTLRemaining` (399, 412-413) tells the hook the TTL minus the age once. This
  is why `TTLAsTold` is an upper bound, and exact only without a set TTL or
  without an age. A TTL below the age is dropped and the host's suggestion used
  instead (664), while the hook is told 0. `Response.TTL` of an entry that is no
  longer fresh wraps around (`response.go` 231); `FreshTTL` speaks of fresh ones.
* A `ConnectTimeout` (and each of its kin) of exactly 2^32 ms passes the check
  and is sent as zero, and a negative one wraps (`backend.go` 252); `Meant`
  names both, and the instance of `backends` has such times. A count of no
  probes is not taken for a value (`types.go` 1282): `TCPKeepaliveProbes(0)`
  after `TCPKeepaliveProbes(3)` leaves 3, and alone it turns nothing on
  (documentation at `backend.go` 419).

`Send`:

* A request is marked as sent on the host's path only (`request.go` 501): one
  that went out by the guest cache (462) or the Image Optimizer (451) is sent
  again by the next `Send` (documentation at 425), with a reader that the first
  one may have read and closed. `SendsAccounted` allows a second request only
  there.
* `Send` after a `Send` that failed in `setABIRequestOptions` goes out without
  header fields, cache options and cache key (440), and after one that failed
  at the body it panics on a nil body (928). In the guest cache a request that
  the host refuses a body panics at once, because the error is dropped (757).
* Hooks are looked at only when the request may be cached (841, 875). With `Pass`
  (848), the method PURGE (853), `ImageOptimizerOptions` (451), at the first
  request on a runtime without guest cache (869) and when a hit-for-pass
  entry sends the original request (730), it goes out without its hooks and
  without an error. The documentation (834, 1000, 1040) speaks of an error, of
  mutual exclusion and of hooks that run.
* The Image Optimizer (582) and a request the guest cache passes to the origin
  (730) send the host's body as it is, which is empty if the program's body is a
  reader.
* A body of known size whose copy fails is sent with its `Content-Length`
  nonetheless; the caller of `Send` has the error, the backend has not.
* `ChooseStale` may fail without anybody noticing, and the stale response is
  returned all the same (704).

Responses:

* Of each trailer only the first value is sent (`response.go` 508; documentation
  at 479-480), and one that the host refuses is only printed (509).
* A response that only `serve`'s own `Close` tries to send is lost in silence if
  that fails (`handle.go` 48-52; comment at `response.go` 401), and the `Write`,
  `Append` or `Close` whose implicit `WriteHeader` fails returns success
  (`response.go` 448; comment at 400). `ResponsesEnded` allows a response that
  is not out only with the writer's error set.

Caches:

* The deferred `w.Close` of `GetOrSet` (`simple.go` 84) also runs when the reader
  that setFn has returned panics, and after an `Abandon` that failed: it then
  completes an object that is cut short (the documentation at `core.go` 468 has
  the object "fully written"). `NoTruncatedRead` names both with the end
  `unwound`.
* Callers of `GetOrSet` that wait while another caller's setFn fails do not see
  an error, one of them runs its own setFn (`simple.go` 66-71; documentation at
  57).
* The suggestion says that the data is sensitive whatever the host says, because
  the result is given the mask of the question (`httpcache_guest.go` 716): what
  the hook leaves alone is stored as sensitive data (the documentation at
  `cache.go` 500 says "By default, this is `false`"). The length that
  `finalizeOptions` finds out is never given to the host (`flushToABI`,
  `cache.go` 71-80).

The KV store and the rest:

* `mapFastlyErr` makes `ErrStoreNotFound` and `ErrInvalidKey` of the status of
  any hostcall (`kvstore.go` 400-406), also of the wait (`kvstore_guest.go`
  233-238, 314-319), whose only argument is the handle of the operation: the host
  may have done it (documentation at `kvstore.go` 21 and 28). `ToldTheTruth`
  makes no promise about them (`Unclear`).
* `Entry.String` is empty when the body cannot be read, and there is no error to
  look at (`kvstore.go` 84; documentation at 71): a program that adds to what it
  has read replaces the entry although the generation still matches.
  `NoLostUpdate` counts such an overwrite as one without a condition.
* `ListIter.Next` does not keep an empty page: a caller who calls it again after
  it has returned false asks for the same page again (`kvstore.go` 327).
* `BotDetection` reports the category `None` instead of `Unknown` when the
  category fails after an earlier error (`bot.go` 120).

Noticed, with no document that says otherwise: a sandbox can wait for its own
obligation (`SelfBlocked`); `applyAndStreamBack` leaves the body of an insert
neither closed nor abandoned when the copy fails; after `ErrUnexpected` the
caller of a KV insert or delete cannot know whether it was done (`Unclear`).

## 6. Not modelled, and the plan

Not modelled for good:

* parsing and formatting (`cookie.go`, `headers.go`, `status.go`, `imageopto`,
  the printing of `SendError`): pure functions of text;
* `transport.go`, `adapter.go`: conversions around one call that is modelled;
* `erl`: the counters are the host's, the guest checks its arguments and makes
  one hostcall;
* logging, the stubs for builds without a host, the recorder for tests;
* of modelled components: `Clone`, the ranges of the core cache, the lookup
  options of both caches, `Append` and `Length` of a body, each one hostcall or
  a copy of fields.

Nothing of the plan for the proofs is left but liveness.
