---------------------------- MODULE SendRequest ----------------------------
(***************************************************************************)
(* Request.Send of fsthttp/request.go: building the host's request, the    *)
(* choice between Image Optimizer, guest cache and host, and the host path *)
(* with its body copying goroutine, its error channel and its poll loop.   *)
(* The guest cache path is module GuestCache; here it has a result, may    *)
(* send a request, its own or the user's, and may read the user's body.    *)
(*                                                                         *)
(* One Request, on which a handler calls Send again and again, up to       *)
(* MaxCalls times: nothing in the type prevents it.  The sandbox is        *)
(* single-threaded: the goroutine of copyBody runs only while Send sleeps  *)
(* between two polls or after Send has returned.                           *)
(***************************************************************************)
EXTENDS Naturals, Sequences

CONSTANT MaxCalls      \* bound: calls of Send on the Request

ASSUME MaxCallsAssumption == MaxCalls \in Nat \ {0}

VARIABLES
  shape,     \* what the user made the Request like
  guestOn,   \* useGuestCaching, global to the sandbox
  calls,     \* calls of Send so far
  pc,        \* where the current call is
  res,       \* what the last call returned
  abi,       \* the parts of the host's request that exist, and "options" set
  sent,      \* req.sent
  errc,      \* the channel between copyBody and the poll loop
  copy,      \* the copyBody goroutine: where it is, and whether io.Copy failed
  body,      \* the request body as the host has it
  closable,  \* the streaming bit of abi.body
  pending,   \* the host's pending request
  out,       \* the requests that went out to the backend, in their order
  spent,     \* the user's body was used up by the path of an earlier call
  ctxDone    \* the context given to Send is done

reqVars == <<abi, sent, guestOn>>
copyVars == <<errc, copy, body, closable>>
wire == <<out, spent>>
vars == <<shape, guestOn, calls, pc, res, abi, sent, errc, copy, body, closable, pending,
          out, spent, ctxDone>>

\* The body: none, an HTTPBody of the host, a reader of known size, or any
\* other reader.
Shapes == [body : {"none", "abi", "sized", "stream"},
           image : BOOLEAN,     \* ImageOptimizerOptions is set
           bypass : BOOLEAN,    \* CacheOptions.Pass is set, or the method is PURGE
           hooks : BOOLEAN]     \* BeforeSend or AfterSend is set

Streaming == shape.body = "stream"

\* The body is a reader of the user's, which copyBody has to read.
IsReader == shape.body \in {"sized", "stream"}

\* Mutant: a buffer for the two results somebody reads.
ErrcCapTwo == 2

\* The channel is "buffered to the max number of writes in copyBody()".
ErrcCap == 3

CopyStates == {"off", "copying", "closing", "ending", "over"}

\* host's body: how much of the user's body was written, and how it ended.
Bodies == [written : {"none", "part", "all"}, end : {"open", "complete", "abandoned"}]

\* A request on the wire: the path that sent it, whether the options were set,
\* and what the host had of the user's body when it went out.
Requests == [by : {"host", "guest", "image"}, options : BOOLEAN,
             body : {"none", "part", "all", "streamed"}]

TypeOK ==
  /\ shape \in Shapes
  /\ guestOn \in BOOLEAN
  /\ calls \in 0..MaxCalls
  /\ pc \in {"idle", "build", "route", "host", "poll", "sleep", "panic"}
  /\ res \in {"none", "response", "error", "unsupported"}
  /\ abi \subseteq {"req", "body", "options"}
  /\ sent \in BOOLEAN
  /\ errc \in Seq({"nil", "error"}) /\ Len(errc) <= ErrcCap
  /\ copy \in [at : CopyStates, failed : BOOLEAN]
  /\ body \in Bodies
  /\ closable \in BOOLEAN
  /\ pending \in {"none", "waiting", "answered", "failed"}
  /\ out \in Seq(Requests) /\ Len(out) <= calls
  /\ spent \in BOOLEAN
  /\ ctxDone \in BOOLEAN

Init ==
  /\ shape \in Shapes
  /\ guestOn \in BOOLEAN
  /\ calls = 0
  /\ pc = "idle"
  /\ res = "none"
  /\ abi = {}
  /\ sent = FALSE
  /\ errc = <<>>
  /\ copy = [at |-> "off", failed |-> FALSE]
  /\ body = [written |-> "none", end |-> "open"]
  /\ closable = FALSE
  /\ pending = "none"
  /\ out = <<>>
  /\ spent = FALSE
  /\ ctxDone = FALSE
-----------------------------------------------------------------------------
Return(r) == pc' = "idle" /\ res' = r

Goes(by, options, data) ==
  out' = Append(out, [by |-> by, options |-> options, body |-> data])

\* The handler calls Send.
Call ==
  /\ pc = "idle" /\ calls < MaxCalls
  /\ calls' = calls + 1
  /\ IF sent THEN Return("error") ELSE pc' = "build" /\ UNCHANGED res
  /\ UNCHANGED <<shape, reqVars, copyVars, pending, wire, ctxDone>>

\* constructABIRequest fails: at the request, or, having kept the request, at
\* the body, unless the user's body is one already.
ConstructFails ==
  /\ \/ UNCHANGED abi
     \/ shape.body # "abi" /\ abi' = {"req"}
  /\ Return("error")

\* constructABIRequest and setABIRequestOptions; each of their hostcalls may
\* fail.  They are skipped as soon as one half of the host's request exists.
Build ==
  /\ pc = "build"
  /\ \/ /\ abi # {} /\ pc' = "route" /\ UNCHANGED <<abi, res>>
     \/ abi = {} /\ ConstructFails
     \/ /\ abi = {}
        /\ \/ abi' = {"req", "body"} /\ Return("error")
           \/ abi' = {"req", "body", "options"} /\ pc' = "route" /\ UNCHANGED res
  /\ UNCHANGED <<shape, guestOn, sent, calls, copyVars, pending, wire, ctxDone>>

\* Passing a nil abi.body to a hostcall wrapper.
Panics ==
  /\ "body" \notin abi
  /\ pc' = "panic"
  /\ UNCHANGED <<res, wire>>

\* The request goes out with abi.body as it is: nothing is copied into it, and
\* the hooks are not run.  An HTTPBody of the user's is the host's from then on.
GoesUncopied(by) ==
  /\ "body" \in abi
  /\ Goes(by, "options" \in abi, IF IsReader \/ spent THEN "none" ELSE "all")
  /\ spent' = (spent \/ shape.body = "abi")

\* One blocking hostcall, or an error before it.
SendToImageOpto ==
  /\ pc = "route" /\ shape.image
  /\ \/ Return("error") /\ UNCHANGED wire
     \/ (Return("response") \/ Return("error")) /\ GoesUncopied("image")
     \/ Panics
  /\ UNCHANGED <<shape, reqVars, calls, copyVars, pending, ctxDone>>

\* What copyBody can make of the user's body: how much arrives, and what
\* io.Copy returns.  A reader that was read before has little or nothing left,
\* and may be closed; an HTTPBody is not copied.
CopyResults ==
  CASE ~spent /\ ~IsReader -> {<<"all", "nil">>}
    [] ~spent /\ IsReader  -> {<<"all", "nil">>, <<"part", "error">>}
    [] spent /\ IsReader   -> {"none", "part"} \X {"nil", "error"}
    [] OTHER               -> {<<"none", "nil">>}

\* shouldUseGuestCaching.  The host's answer to is_request_cacheable is "yes",
\* "no", "error" or "unsupported", the last for good.
ToHost == pc' = "host" /\ UNCHANGED <<res, wire>>

\* Mutant: the return after the guest cache is missing.
ToGuestCacheFallsThrough ==
  /\ pc' = "host" /\ UNCHANGED res
  /\ GoesUncopied("guest") \/ UNCHANGED wire

\* sendAsyncForCaching: the hooks, the options, copyBody into a body of the
\* request's own, whose reports nobody reads, and SendAsyncV2.  That body is
\* nil when the host refuses one: its error is dropped.
GuestSends ==
  \/ /\ spent' = (spent \/ shape.body # "none")
     /\ \/ Return("error") /\ UNCHANGED out
        \/ \E r \in {"response", "error"}, c \in CopyResults :
             Return(r) /\ Goes("guest", TRUE, c[1])
  \/ /\ shape.body # "abi"
     /\ pc' = "panic" /\ UNCHANGED <<res, wire>>

\* sendWithGuestCache, see GuestCache: an answer from the cache or an error, a
\* request for the cache, or the original one when nothing can be cached.
ToGuestCache ==
  \/ (Return("response") \/ Return("error")) /\ UNCHANGED wire
  \/ GuestSends
  \/ (Return("response") \/ Return("error")) /\ GoesUncopied("guest")
  \/ Panics

Route ==
  /\ pc = "route" /\ ~shape.image
  /\ \/ /\ ~guestOn /\ UNCHANGED guestOn
        /\ IF shape.hooks THEN Return("unsupported") /\ UNCHANGED wire ELSE ToHost
     \/ /\ guestOn /\ shape.bypass /\ UNCHANGED guestOn
        /\ ToHost
     \/ /\ guestOn /\ ~shape.bypass
        /\ \/ guestOn' = FALSE /\ ToHost
           \/ UNCHANGED guestOn /\ Return("error") /\ UNCHANGED wire
           \/ /\ UNCHANGED guestOn
              /\ IF shape.hooks THEN Return("unsupported") /\ UNCHANGED wire ELSE ToHost
           \/ UNCHANGED guestOn /\ ToGuestCache
  /\ UNCHANGED <<shape, abi, sent, calls, copyVars, pending, ctxDone>>
-----------------------------------------------------------------------------
(***************************************************************************)
(* The host path.                                                          *)
(***************************************************************************)

\* SendAsync or SendAsyncStreaming succeeds: the request is out.
Started(data) ==
  /\ pending' = "waiting" /\ pc' = "poll" /\ UNCHANGED <<res, spent>>
  /\ Goes("host", "options" \in abi, data)

NotStarted == Return("error") /\ UNCHANGED <<pending, wire>>

\* Mutant: copyBody is called before the request is sent, not by a goroutine.
SendStreamingInline ==
  /\ pc = "host" /\ Streaming /\ "body" \in abi
  /\ sent' = TRUE
  /\ body' = [body EXCEPT !.written = "all"]
  /\ errc' = <<"nil", "nil", "nil">>
  /\ copy' = [at |-> "over", failed |-> FALSE]
  /\ \/ closable' = TRUE /\ Started("streamed")
     \/ UNCHANGED closable /\ NotStarted
  /\ UNCHANGED <<shape, abi, guestOn, calls, ctxDone>>

\* go copyBody, then SendAsyncStreaming, which sets the streaming bit: the
\* goroutine does not run before the first Sleep.
SendStreaming ==
  /\ pc = "host" /\ Streaming /\ "body" \in abi
  /\ sent' = TRUE
  /\ copy' = [at |-> "copying", failed |-> FALSE]
  /\ \/ closable' = TRUE /\ Started("streamed")
     \/ UNCHANGED closable /\ NotStarted
  /\ UNCHANGED <<shape, abi, guestOn, errc, body, calls, ctxDone>>

\* copyBody in place: without the streaming bit the body's Close and Abandon
\* do nothing, and a nopCloser is around each reader of known size; then
\* SendAsync, whatever the copying gave.
SendBuffered ==
  /\ pc = "host" /\ ~Streaming /\ "body" \in abi
  /\ sent' = TRUE
  /\ \E c \in CopyResults :
       /\ body' = [body EXCEPT !.written = c[1]]
       /\ errc' = IF IsReader THEN <<c[2], "nil", "nil">> ELSE <<"nil">>
       /\ Started(c[1]) \/ NotStarted
  /\ Len(errc') <= ErrcCap
  /\ UNCHANGED <<shape, abi, guestOn, copy, closable, calls, ctxDone>>

\* copyBody, in Send or in its goroutine, dereferences a nil abi.body.
SendHalfBuilt ==
  /\ pc = "host" /\ Panics
  /\ sent' = TRUE
  /\ UNCHANGED <<shape, abi, guestOn, calls, copyVars, pending, ctxDone>>
-----------------------------------------------------------------------------
(***************************************************************************)
(* pendingToABIResponse.  The select takes one of the ready cases, and     *)
(* polls only if none is.                                                  *)
(***************************************************************************)
PollCancelled ==
  /\ pc = "poll" /\ ctxDone
  /\ Return("error")
  /\ UNCHANGED <<shape, reqVars, calls, copyVars, pending, wire, ctxDone>>

PollErrc ==
  /\ pc = "poll" /\ errc # <<>>
  /\ errc' = Tail(errc)
  /\ IF Head(errc) = "error" THEN Return("error") ELSE UNCHANGED <<pc, res>>
  /\ UNCHANGED <<shape, reqVars, calls, copy, body, closable, pending, wire, ctxDone>>

Polled ==
  \/ pending = "waiting" /\ pc' = "sleep" /\ UNCHANGED res
  \/ pending = "failed" /\ Return("error")
  \/ pending = "answered" /\ (Return("response") \/ Return("error"))

\* Mutant: the host is polled before the channel is looked at.
PollFirst ==
  /\ pc = "poll" /\ ~ctxDone
  /\ Polled
  /\ UNCHANGED <<shape, reqVars, calls, copyVars, pending, wire, ctxDone>>

Poll ==
  /\ pc = "poll" /\ ~ctxDone /\ errc = <<>>
  /\ Polled
  /\ UNCHANGED <<shape, reqVars, calls, copyVars, pending, wire, ctxDone>>

WakeUp ==
  /\ pc = "sleep"
  /\ pc' = "poll"
  /\ UNCHANGED <<shape, res, reqVars, calls, copyVars, pending, wire, ctxDone>>
-----------------------------------------------------------------------------
(***************************************************************************)
(* The copyBody goroutine; a send on a full channel blocks.                *)
(***************************************************************************)
Scheduled == pc \in {"idle", "sleep"}

Report(msg) == Len(errc) < ErrcCap /\ errc' = Append(errc, msg)

CopyUnchanged == UNCHANGED <<shape, reqVars, calls, pc, res, closable, pending, wire, ctxDone>>

\* io.Copy gets on, and ends.
CopySome ==
  /\ Scheduled /\ copy.at = "copying" /\ body.written = "none"
  /\ body' = [body EXCEPT !.written = "part"]
  /\ UNCHANGED <<copy, errc>>
  /\ CopyUnchanged

CopyEnds ==
  /\ Scheduled /\ copy.at = "copying"
  /\ \/ /\ body' = IF spent THEN body ELSE [body EXCEPT !.written = "all"]
        /\ copy' = [at |-> "closing", failed |-> FALSE]
        /\ Report("nil")
     \/ /\ copy' = [at |-> "closing", failed |-> TRUE]
        /\ Report("error")
        /\ UNCHANGED body
  /\ CopyUnchanged

\* req.Body.Close()
CloseUserBody ==
  /\ Scheduled /\ copy.at = "closing"
  /\ copy' = [copy EXCEPT !.at = "ending"]
  /\ \E msg \in {"nil", "error"} : Report(msg)
  /\ UNCHANGED body
  /\ CopyUnchanged

\* HTTPBody.Close and HTTPBody.Abandon: both without effect, and without an
\* error, if the streaming bit is not set.
End(how) ==
  \/ /\ body' = IF closable THEN [body EXCEPT !.end = how] ELSE body
     /\ Report("nil")
  \/ closable /\ UNCHANGED body /\ Report("error")

\* Mutant: the body is closed whether or not it was copied.
EndBodyAlwaysClose ==
  /\ Scheduled /\ copy.at = "ending"
  /\ copy' = [copy EXCEPT !.at = "over"]
  /\ End("complete")
  /\ CopyUnchanged

\* abi.body.Close() after a copy, Abandon() after a failed one.
EndBody ==
  /\ Scheduled /\ copy.at = "ending"
  /\ copy' = [copy EXCEPT !.at = "over"]
  /\ End(IF copy.failed THEN "abandoned" ELSE "complete")
  /\ CopyUnchanged
-----------------------------------------------------------------------------
\* The backend answers, perhaps before it has the whole body, or fails.
BackendEnds ==
  /\ pending = "waiting"
  /\ pending' \in {"answered", "failed"}
  /\ UNCHANGED <<shape, reqVars, calls, pc, res, copyVars, wire, ctxDone>>

Cancel ==
  /\ ~ctxDone
  /\ ctxDone' = TRUE
  /\ UNCHANGED <<shape, reqVars, calls, pc, res, copyVars, pending, wire>>

SendStep ==
  \/ Build \/ SendToImageOpto \/ Route
  \/ SendStreaming \/ SendBuffered \/ SendHalfBuilt
  \/ PollCancelled \/ PollErrc \/ Poll \/ WakeUp

CopyStep == CopySome \/ CopyEnds \/ CloseUserBody \/ EndBody

Next == Call \/ SendStep \/ CopyStep \/ BackendEnds \/ Cancel

Spec == Init /\ [][Next]_vars

(***************************************************************************)
(* Fairness.  Send and its goroutine run when they can, and one that can   *)
(* run again and again (the poll loop wakes up before the goroutine gets   *)
(* its turn) runs in the end: the scheduler's queue is first in, first     *)
(* out.  The host resolves a pending request whose body has ended, one way *)
(* or the other; an error that copyBody has reported ends the poll itself. *)
(***************************************************************************)
BodyEnded == ~Streaming \/ body.end # "open"

FairSpec ==
  /\ Spec
  /\ WF_vars(SendStep)
  /\ SF_vars(CopyStep)
  /\ WF_vars(BodyEnded /\ BackendEnds)
-----------------------------------------------------------------------------
(***************************************************************************)
(* Properties.                                                             *)
(***************************************************************************)

\* A streamed body that could not be copied whole is never ended as a complete
\* one: the backend can tell that it is truncated (copyBody, Abandon).  A body
\* of known size is not: whatever arrived of it is sent as if it were all, and
\* only the caller hears of it, see ReportsComeFirst.  Nor can copyBody know
\* that a reader was read before, by the guest cache path of an earlier Send.
TruncationVisible ==
  Streaming /\ body.end = "complete" => ~copy.failed /\ (body.written = "all" \/ spent)

\* Send never returns a response when it could already know that the body did
\* not get through: what copyBody has reported is looked at before the poll.
ReportsComeFirst ==
  [][pc = "poll" /\ pc' = "idle" /\ res' = "response" =>
       ~copy.failed /\ (~Streaming => body.written = "all" \/ spent)]_vars

\* The goroutine ends, whoever reads its reports: also when Send has returned
\* before it, by cancellation, an early answer or a failed send.
CopyTerminates == copy.at = "copying" ~> copy.at = "over"

\* Send returns: a streamed body is always ended, one way or the other, so
\* the backend has something to answer.
SendTerminates == pc = "build" ~> pc \in {"idle", "panic"}

\* What goes out is accounted for, whatever the caller makes of an error.  A
\* call sends once at most, and nothing is sent after a request of the host
\* path (req.sent): only the Image Optimizer and the guest cache let a Request
\* go out again.  It goes out without its options only after a Send that failed
\* at them.  The host path leaves out the hooks only of a request that bypasses
\* the cache, or when the runtime has no guest cache, and the body only of a
\* reader that an earlier Send has used up; the Image Optimizer and a request
\* passed to the origin by the guest cache leave out both.  Send panics only
\* after a Send that failed at the body and kept the rest of the host's
\* request, or in a guest cache that was refused a body for its own request.
SendsAccounted ==
  /\ Len(out) <= calls
  /\ \A i \in 1..Len(out) :
       /\ out[i].by = "host" => i = Len(out)
       /\ ~out[i].options => Len(out) < calls
       /\ out[i].by = "host" /\ shape.hooks => shape.bypass \/ ~guestOn
       /\ out[i].by = "host" /\ out[i].body = "none" => spent
  /\ pc = "panic" => \/ calls > 1 /\ abi = {"req"}
                     \/ guestOn /\ ~shape.image /\ ~shape.bypass
=============================================================================
