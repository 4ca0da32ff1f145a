---------------------------- MODULE GuestCache -----------------------------
(***************************************************************************)
(* Request.Send with the cache in the guest (fsthttp/request.go,           *)
(* sendWithGuestCache and sendAsyncForCaching; fsthttp/cache.go, the       *)
(* candidate response), run by sandboxes that serve one request after      *)
(* another (fsthttp/handle.go, ServeMany) and share the host's cache       *)
(* (module HTTPCache).                                                     *)
(*                                                                         *)
(* A sandbox is single-threaded, and a hostcall blocks all of it: while    *)
(* one of its goroutines waits in a lookup, no other runs.  At any other   *)
(* time the goroutines (handlers call Send from several of them, and every *)
(* revalidation has one) may take turns between any two steps: they do in  *)
(* hooks, in the readers of user bodies, in whatever else the handler      *)
(* waits for, and where the garbage collector lets another one run.        *)
(*                                                                         *)
(* One step is what the guest does from one effect on the host's cache to  *)
(* the next, the deferred close of the cache handle included.              *)
(***************************************************************************)
EXTENDS HTTPCache

CONSTANTS Sandboxes,
          Home,        \* the sandbox each Send runs in
          Hooks        \* the Sends with BeforeSend and AfterSend hooks

ASSUME HomeAssumption == Home \in [Sends -> Sandboxes]
ASSUME HooksAssumption == Hooks \subseteq Sends

VARIABLES pc,          \* per Send: how far the call has got
          res,         \* per Send: what it returned
          bg,          \* per Send: its background revalidation
          life,        \* per sandbox: serving, draining, exited, crashed
          swrPending   \* per sandbox: the counter of guestCacheSWRPending

guestVars == <<pc, res, bg, life, swrPending>>
vars == <<hostVars, guestVars>>

\* pc: "looking" from the lookup to the decision, "sent" while the backend
\* request is pending, "candidate" in AfterSend, "copying" the body of an
\* insert; "dead" once the sandbox has crashed.
PCs == {"new", "looking", "sent", "candidate", "copying", "done", "dead"}

\* res: a response, from wherever it came, or an error.
Results == {"none", "response", "error"}

\* bg: "spawned" but not scheduled yet, in AfterSend, copying, over with the
\* cache handle closed or left open, or killed with its sandbox.
BgStates == {"off", "spawned", "candidate", "copying", "closed", "leaked", "dead"}

BgActive(s) == bg[s] \in {"spawned", "candidate", "copying"}

SendsOf(x) == {s \in Sends : Home[s] = x}

InSend(s) == pc[s] \in {"looking", "sent", "candidate", "copying"}

TypeOK ==
  /\ HostTypeOK
  /\ pc \in [Sends -> PCs]
  /\ res \in [Sends -> Results]
  /\ bg \in [Sends -> BgStates]
  /\ life \in [Sandboxes -> {"serving", "draining", "exited", "crashed"}]
  /\ swrPending \in [Sandboxes -> Nat]

Init ==
  /\ HostInit
  /\ pc = [s \in Sends |-> "new"]
  /\ res = [s \in Sends |-> "none"]
  /\ bg = [s \in Sends |-> "off"]
  /\ life = [x \in Sandboxes |-> "serving"]
  /\ swrPending = [x \in Sandboxes |-> 0]
-----------------------------------------------------------------------------
(***************************************************************************)
(* Send, in a goroutine of the handler.                                    *)
(***************************************************************************)

\* No goroutine of x is in a lookup that has not returned.
Awake(x) == SendsOf(x) \cap Waiters = {}

\* The handler calls Send.  A Request that is sent again has lost the
\* OverrideKey it had: that is a Send that looks another key up.
Ready(s) ==
  /\ pc[s] = "new"
  /\ life[Home[s]] = "serving"
  /\ Awake(Home[s])

At(s, label) ==
  /\ pc[s] = label
  /\ life[Home[s]] = "serving"
  /\ Awake(Home[s])

\* The lookup has returned with a handle.
Looked(s) ==
  /\ At(s, "looking")
  /\ lookup[s].st = "open"

Goto(s, label) ==
  /\ pc' = [pc EXCEPT ![s] = label]
  /\ UNCHANGED res

\* Send returns r to the handler.
Return(s, r) ==
  /\ pc' = [pc EXCEPT ![s] = "done"]
  /\ res' = [res EXCEPT ![s] = r]

\* The request is not cacheable, and is sent without the cache; or something
\* fails before there is a cache handle.  A request with hooks gets here only
\* to fail: shouldUseGuestCaching refuses it when it is not cacheable.
SendUncacheable(s) ==
  /\ Ready(s)
  /\ \/ s \notin Hooks /\ Return(s, "response")
     \/ Return(s, "error")
  /\ UNCHANGED <<hostVars, bg, life, swrPending>>

\* HTTPCacheTransactionLookup; the sandbox blocks in it while the lookup is
\* collapsed on another transaction.
SendLookup(s) ==
  /\ Ready(s)
  /\ TransactionLookup(s)
  /\ Goto(s, "looking")
  /\ UNCHANGED <<bg, life, swrPending>>

\* Reading the state or the found response fails.
LookupFails(s) ==
  /\ Looked(s)
  /\ TransactionClose(s)
  /\ Return(s, "error")
  /\ UNCHANGED <<bg, life, swrPending>>

\* A usable response and nothing to do about it (one that is usable only
\* because the leader of the collapse failed carries ErrRequestCollapse).
ReturnCached(s) ==
  /\ Looked(s)
  /\ "usable" \in lookup[s].flags
  /\ "must" \notin lookup[s].flags
  /\ TransactionClose(s)
  /\ Return(s, "response")
  /\ UNCHANGED <<bg, life, swrPending>>

\* sendAsyncForCaching fails: in preparing the backend request, in BeforeSend
\* or in sending.
SendForCachingFails(s) ==
  /\ Looked(s)
  /\ "must" \in lookup[s].flags
  /\ TransactionClose(s)
  /\ Return(s, "error")
  /\ UNCHANGED <<bg, life, swrPending>>

\* Mutant: guestCacheSWRPending.Add(1) is missing.
ReturnCachedAndRevalidateNoAdd(s) ==
  /\ Looked(s)
  /\ {"usable", "must"} \subseteq lookup[s].flags
  /\ bg' = [bg EXCEPT ![s] = "spawned"]
  /\ Return(s, "response")
  /\ UNCHANGED <<hostVars, life, swrPending>>

\* Stale-while-revalidate, and this transaction is to revalidate: the backend
\* request is sent, a goroutine takes the handle over, the cached response is
\* returned.
ReturnCachedAndRevalidate(s) ==
  /\ Looked(s)
  /\ {"usable", "must"} \subseteq lookup[s].flags
  /\ bg' = [bg EXCEPT ![s] = "spawned"]
  /\ swrPending' = [swrPending EXCEPT ![Home[s]] = @ + 1]
  /\ Return(s, "response")
  /\ UNCHANGED <<hostVars, life>>

\* Mutant: the obligation is not asked for before the request for caching.
FetchForCachingAlways(s) ==
  /\ Looked(s)
  /\ "usable" \notin lookup[s].flags
  /\ Goto(s, "sent")
  /\ UNCHANGED <<hostVars, bg, life, swrPending>>

\* Nothing usable, and this transaction is to provide a response.
FetchForCaching(s) ==
  /\ Looked(s)
  /\ "usable" \notin lookup[s].flags
  /\ "must" \in lookup[s].flags
  /\ Goto(s, "sent")
  /\ UNCHANGED <<hostVars, bg, life, swrPending>>

\* Nothing usable and no obligation: collapsing is disabled for the key.
SendOriginal(s) ==
  /\ Looked(s)
  /\ lookup[s].flags \cap {"usable", "must"} = {}
  /\ TransactionClose(s)
  /\ \E r \in {"response", "error"} : Return(s, r)
  /\ UNCHANGED <<bg, life, swrPending>>

\* The backend has answered and the response is prepared for storage.
BackendAnswers(s) ==
  /\ At(s, "sent")
  /\ Goto(s, "candidate")
  /\ UNCHANGED <<hostVars, bg, life, swrPending>>

\* The backend request fails, or the preparation, or AfterSend.
NoCandidate(s) ==
  \/ At(s, "sent")
  \/ At(s, "candidate") /\ s \in Hooks

CandidateFails(s) ==
  /\ NoCandidate(s)
  /\ "sie" \notin lookup[s].flags
  /\ TransactionClose(s)
  /\ Return(s, "error")
  /\ UNCHANGED <<bg, life, swrPending>>

\* The same with a stale-if-error response at hand: it is chosen for everyone
\* in the collapse (or for nobody: the error of ChooseStale is ignored, and the
\* deferred close gives the obligation up), and returned unless reading it fails.
ReturnStale(s) ==
  /\ NoCandidate(s)
  /\ "sie" \in lookup[s].flags
  /\ TransactionChooseStale(s, Closed({s})) \/ TransactionClose(s)
  /\ \E r \in {"response", "error"} : Return(s, r)
  /\ UNCHANGED <<bg, life, swrPending>>
-----------------------------------------------------------------------------
(***************************************************************************)
(* applyAndStreamBack: the candidate's storage action, chosen by the host  *)
(* and by AfterSend.  On success Send forgets the cache handle without     *)
(* closing it; on error the deferred close runs.                           *)
(***************************************************************************)

\* Mutant: Send forgets the handle before it looks at applyAndStreamBack's error.
StoreFailsNoClose(s) ==
  /\ At(s, "candidate")
  /\ Return(s, "error")
  /\ UNCHANGED <<hostVars, bg, life, swrPending>>

\* finalizeOptions or the storing hostcall fails.
StoreFails(s) ==
  /\ At(s, "candidate")
  /\ TransactionClose(s)
  /\ Return(s, "error")
  /\ UNCHANGED <<bg, life, swrPending>>

StoreInsert(s) ==
  /\ At(s, "candidate")
  /\ TransactionInsert(s, lookup)
  /\ Goto(s, "copying")
  /\ UNCHANGED <<bg, life, swrPending>>

\* The response is built after the hostcall, and building it may fail.
ReturnStored(s, Store(_, _)) ==
  /\ At(s, "candidate")
  /\ \/ Store(s, lookup) /\ Return(s, "response")
     \/ Store(s, Closed({s})) /\ Return(s, "error")
  /\ UNCHANGED <<bg, life, swrPending>>

StoreUpdate(s) == ReturnStored(s, TransactionUpdate)

DoNotStore(s) == ReturnStored(s, TransactionAbandon)

RecordUncacheable(s) == ReturnStored(s, TransactionRecordNotCacheable)

\* The body is written and closed, and the response read back.
CopyDone(s) ==
  /\ At(s, "copying")
  /\ BodyClose(s)
  /\ \/ UNCHANGED lookup /\ Return(s, "response")
     \/ lookup' = Closed({s}) /\ Return(s, "error")
  /\ UNCHANGED <<entry, holder, bg, life, swrPending>>

\* Mutant: the handle is forgotten before the body is copied.
CopyFailsNoClose(s) ==
  /\ At(s, "copying")
  /\ Return(s, "error")
  /\ UNCHANGED <<hostVars, bg, life, swrPending>>

\* Writing the body fails; the body is left as it is, neither closed nor
\* abandoned.
CopyFails(s) ==
  /\ At(s, "copying")
  /\ TransactionClose(s)
  /\ Return(s, "error")
  /\ UNCHANGED <<bg, life, swrPending>>
-----------------------------------------------------------------------------
(***************************************************************************)
(* The goroutine of a stale-while-revalidate revalidation.                 *)
(***************************************************************************)

BgAt(s, label) ==
  /\ bg[s] = label
  /\ life[Home[s]] \in {"serving", "draining"}
  /\ Awake(Home[s])

BgGoto(s, label) ==
  /\ bg' = [bg EXCEPT ![s] = label]
  /\ UNCHANGED swrPending

\* The goroutine ends: defer guestCacheSWRPending.Done().
BgDone(s, label) ==
  /\ bg' = [bg EXCEPT ![s] = label]
  /\ swrPending' = [swrPending EXCEPT ![Home[s]] = @ - 1]

BgUnchanged == UNCHANGED <<pc, res, life>>

BgAnswer(s) ==
  /\ BgAt(s, "spawned")
  /\ BgGoto(s, "candidate")
  /\ UNCHANGED hostVars
  /\ BgUnchanged

\* Mutant: Done() is called at the end of the goroutine instead of deferred.
BgCandidateFailsNoDone(s) ==
  /\ BgAt(s, "spawned") \/ (BgAt(s, "candidate") /\ s \in Hooks)
  /\ BgGoto(s, "leaked")
  /\ UNCHANGED hostVars
  /\ BgUnchanged

\* newCandidateFromPendingBackendCaching fails: the goroutine returns at once,
\* and the cache handle stays open.
BgCandidateFails(s) ==
  /\ BgAt(s, "spawned") \/ (BgAt(s, "candidate") /\ s \in Hooks)
  /\ BgDone(s, "leaked")
  /\ UNCHANGED hostVars
  /\ BgUnchanged

\* Mutant: an error of applyInBackground skips the close of the handle.
BgStoreFailsNoClose(s) ==
  /\ BgAt(s, "candidate")
  /\ BgDone(s, "closed")
  /\ UNCHANGED hostVars
  /\ BgUnchanged

\* applyInBackground, whose error is ignored, then the close of the handle.
BgStoreFails(s) ==
  /\ BgAt(s, "candidate")
  /\ TransactionClose(s)
  /\ BgDone(s, "closed")
  /\ BgUnchanged

BgStoreInsert(s) ==
  /\ BgAt(s, "candidate")
  /\ TransactionInsert(s, lookup)
  /\ BgGoto(s, "copying")
  /\ BgUnchanged

BgStore(s) ==
  /\ BgAt(s, "candidate")
  /\ \/ TransactionUpdate(s, Closed({s}))
     \/ TransactionAbandon(s, Closed({s}))
     \/ TransactionRecordNotCacheable(s, Closed({s}))
  /\ BgDone(s, "closed")
  /\ BgUnchanged

\* The body is written and closed; or writing it fails and it is left as it is.
BgCopyEnds(s) ==
  /\ BgAt(s, "copying")
  /\ \/ BodyClose(s)
     \/ UNCHANGED stream
  /\ lookup' = Closed({s})
  /\ BgDone(s, "closed")
  /\ UNCHANGED <<entry, holder>>
  /\ BgUnchanged
-----------------------------------------------------------------------------
(***************************************************************************)
(* The life of a sandbox: ServeMany, or Serve with a single request.       *)
(***************************************************************************)

\* The loop ends: MaxRequests, MaxLifetime, Continue, or no next request.  The
\* handlers have returned, and have waited for the calls of Send they began.
StopServing(x) ==
  /\ life[x] = "serving"
  /\ \A s \in SendsOf(x) : ~InSend(s)
  /\ life' = [life EXCEPT ![x] = "draining"]
  /\ UNCHANGED <<hostVars, pc, res, bg, swrPending>>

\* Mutant: nobody waits for the revalidations.
ExitNoWait(x) ==
  /\ life[x] = "draining"
  /\ DropHandles(SendsOf(x))
  /\ life' = [life EXCEPT ![x] = "exited"]
  /\ UNCHANGED <<pc, res, bg, swrPending>>

\* guestCacheSWRPending.Wait() returns and the program ends.
Exit(x) ==
  /\ life[x] = "draining"
  /\ swrPending[x] = 0
  /\ DropHandles(SendsOf(x))
  /\ life' = [life EXCEPT ![x] = "exited"]
  /\ UNCHANGED <<pc, res, bg, swrPending>>

\* The program panics (serve and ServeMany do on a failed hostcall, so does a
\* stale-if-error answer the host does not give) or the host ends it; what the
\* sandbox had in memory is gone.
Crash(x) ==
  /\ life[x] \in {"serving", "draining"}
  /\ DropHandles(SendsOf(x))
  /\ life' = [life EXCEPT ![x] = "crashed"]
  /\ pc' = [s \in Sends |-> IF Home[s] = x THEN "dead" ELSE pc[s]]
  /\ res' = [s \in Sends |-> IF Home[s] = x THEN "none" ELSE res[s]]
  /\ bg' = [s \in Sends |-> IF Home[s] = x THEN "dead" ELSE bg[s]]
  /\ swrPending' = [swrPending EXCEPT ![x] = 0]

Main(s) ==
  \/ SendUncacheable(s)
  \/ SendLookup(s)
  \/ LookupFails(s)
  \/ ReturnCached(s)
  \/ SendForCachingFails(s)
  \/ ReturnCachedAndRevalidate(s)
  \/ FetchForCaching(s)
  \/ SendOriginal(s)
  \/ BackendAnswers(s)
  \/ CandidateFails(s)
  \/ ReturnStale(s)
  \/ StoreFails(s)
  \/ StoreInsert(s)
  \/ StoreUpdate(s)
  \/ DoNotStore(s)
  \/ RecordUncacheable(s)
  \/ CopyDone(s)
  \/ CopyFails(s)

Background(s) ==
  \/ BgAnswer(s)
  \/ BgCandidateFails(s)
  \/ BgStoreFails(s)
  \/ BgStoreInsert(s)
  \/ BgStore(s)
  \/ BgCopyEnds(s)

Next ==
  \/ \E s \in Sends : Main(s) \/ Background(s)
  \/ \E x \in Sandboxes : StopServing(x) \/ Exit(x) \/ Crash(x)
  \/ Expire /\ UNCHANGED guestVars

Spec == Init /\ [][Next]_vars

(***************************************************************************)
(* Fairness: a sandbox that can run, runs.  It goes on with the Send it is *)
(* in and with its goroutines, and ends when it has nothing left to serve. *)
(* Nothing obliges a new request to come, an entry to expire or a sandbox  *)
(* to crash.                                                               *)
(***************************************************************************)
Run(x) ==
  \/ \E s \in SendsOf(x) : (pc[s] # "new" /\ Main(s)) \/ Background(s)
  \/ StopServing(x)
  \/ Exit(x)

FairSpec == Spec /\ \A x \in Sandboxes : WF_vars(Run(x))
-----------------------------------------------------------------------------
(***************************************************************************)
(* Properties.                                                             *)
(***************************************************************************)

\* The guest is on a path on which it still has to provide a response: it
\* acts on the flags it read when the lookup returned (request.go, state).
Working(s) ==
  \/ pc[s] \in {"sent", "candidate"}
  \/ pc[s] = "looking" /\ "must" \in lookup[s].flags
  \/ bg[s] \in {"spawned", "candidate"}

Owes(s) == lookup[s].st = "open" /\ (Working(s) \/ bg[s] = "leaked")

\* What a Send believes it owes is what the host holds it to: the flags read
\* at the lookup are never out of date when the code acts on them, whatever
\* other sandboxes, hooks, crashes and expiry do in between; and no return
\* path of Send or of the goroutine keeps the obligation by accident (the one
\* that does, a failed background revalidation, is the "leaked" case of Owes).
ObligationTracked == \A s \in Sends : holder = s <=> Owes(s)

\* What a Send is to the others that look the key up, by where its code and its
\* goroutine have got, whatever the host thinks of its handle.
Role(s) ==
  IF pc[s] = "new" THEN "idle"
  ELSE IF pc[s] = "looking" /\ lookup[s].st = "waiting" THEN "waiting"
  ELSE IF Working(s) THEN "leading"
  ELSE IF bg[s] = "leaked" /\ life[Home[s]] \in {"serving", "draining"} THEN "stuck"
  ELSE "over"

Promise == INSTANCE Collapsing WITH Clients <- Sends, leader <- holder,
                                    phase <- [s \in Sends |-> Role(s)]

\* Send keeps the promise of request collapsing: in the very step in which its
\* code stops working for an answer, by whichever of its returns, at the end of
\* its goroutine or with its sandbox, the host has an answer for all, another
\* Send at work on it, or knows that nobody is; but for a goroutine that returns
\* with its handle open, whose obligation is stuck until its sandbox ends.
KeepsPromise == Promise!Spec

Fetching(s) == pc[s] = "sent" \/ bg[s] = "spawned"

\* Request collapsing: two requests for caching the same key are never in
\* flight to the backend at the same time (SendAsyncV2 to PendingRequest.Wait).
OneFetchInFlight ==
  \A s, t \in Sends : Fetching(s) /\ Fetching(t) => s = t

\* A Send that returns an error has closed its cache handle and keeps no
\* obligation, at whichever of its error returns it left.
FailedSendLetsGo ==
  \A s \in Sends :
    res[s] = "error" => holder # s /\ lookup[s].st \in {"none", "closed"}

\* Serve and ServeMany return only when the background revalidations of their
\* sandbox are over (guestCacheSWRPending).
RevalidationsDrained ==
  \A s \in Sends : life[Home[s]] = "exited" => ~BgActive(s)

\* A goroutine of the sandbox that has the obligation waits for it itself, and
\* so keeps the goroutine that could fulfil it from running.
SelfBlocked == holder # None /\ ~Awake(Home[holder])

\* A call of Send returns, unless its sandbox crashes, or it is collapsed on a
\* sandbox that is waiting for its own obligation.
SendReturns ==
  \A s \in Sends :
    pc[s] = "looking" ~> pc[s] \in {"done", "dead"} \/ SelfBlocked

\* The comment where Send hands its cache handle over says "let cache handle
\* be closed in goroutine": when the goroutine is over, the handle is closed.
HandleClosedInGoroutine ==
  \A s \in Sends : bg[s] \in {"closed", "leaked"} => lookup[s].st = "closed"
=============================================================================
