---------------------------- MODULE Downstream -----------------------------
(***************************************************************************)
(* The client's side of a sandbox: serve and ServeMany of                  *)
(* fsthttp/handle.go, the ResponseWriter of fsthttp/response.go and the    *)
(* handoff of a request (fsthttp/request.go), with what the client of the  *)
(* request being handled gets to see.  Every hostcall may fail.            *)
(***************************************************************************)
EXTENDS Naturals

CONSTANTS MaxRequests,   \* ServeManyOptions.MaxRequests, 0 for no limit
          MaxHints,      \* bound: early hints the client is sent
          MaxClients     \* bound: requests the host has for this sandbox

ASSUME BoundsAssumption ==
  MaxRequests \in Nat /\ MaxHints \in Nat /\ MaxClients \in Nat \ {0}

VARIABLES
  loop,      \* where serve or ServeMany is
  count,     \* requestCount
  given,     \* requests the host has handed out
  writer,    \* the responseWriter of the current request
  header,    \* the Header of the writer, as far as trailers go
  client,    \* what the client of the current request has got
  touched,   \* the handler has used the ResponseWriter
  cause      \* why the program panicked

vars == <<loop, count, given, writer, header, client, touched, cause>>

\* err is sendErr; trailers says whether the trailer names were saved.
Writers == [wrote : BOOLEAN, closed : BOOLEAN, err : BOOLEAN, trailers : BOOLEAN,
            closable : BOOLEAN]

\* One trailer that the Trailer header may name, and one under a key with the
\* TrailerPrefix.
Trailers == {"named", "prefixed"}

\* declared: the Trailer header names its trailer; values: how many values the
\* header map has for each (bound: two).
Headers == [declared : BOOLEAN, values : [Trailers -> 0..2]]

\* announced: the preamble named the trailer; got: the values of each trailer;
\* refused (a ghost): what the host would not append; end: the body is still
\* open, complete, or could not be closed.
Clients == [hints : 0..MaxHints, preamble : BOOLEAN, announced : BOOLEAN, data : BOOLEAN,
            got : [Trailers -> 0..2], refused : SUBSET Trailers,
            end : {"open", "complete", "broken"}, handed : BOOLEAN]

TypeOK ==
  /\ loop \in {"start", "handling", "next", "waiting", "stopped", "panic"}
  /\ given \in 0..MaxClients
  /\ count \in {given, given + 1}
  /\ writer \in Writers
  /\ header \in Headers
  /\ client \in Clients
  /\ touched \in BOOLEAN
  /\ cause \in {"none", "host", "response"}

NewWriter == [wrote |-> FALSE, closed |-> FALSE, err |-> FALSE, trailers |-> FALSE,
              closable |-> FALSE]

NewHeader == [declared |-> FALSE, values |-> [t \in Trailers |-> 0]]

NewClient == [hints |-> 0, preamble |-> FALSE, announced |-> FALSE, data |-> FALSE,
              got |-> [t \in Trailers |-> 0], refused |-> {}, end |-> "open", handed |-> FALSE]

Init ==
  /\ loop = "start"
  /\ count = 1
  /\ given = 0
  /\ writer = NewWriter
  /\ header = NewHeader
  /\ client = NewClient
  /\ touched = FALSE
  /\ cause = "none"
-----------------------------------------------------------------------------
(***************************************************************************)
(* The ResponseWriter.  An outcome is the writer and the client after a    *)
(* call, ok says whether the host accepts the response.                    *)
(***************************************************************************)
Outcome(w, c) == [w |-> w, c |-> c]

\* SendDownstream: the host takes one final preamble, none after a handoff,
\* and no 1xx code other than early hints.
Accepts(code) == ~client.handed /\ ~client.preamble /\ code # "invalid"

\* What the client gets of a preamble.
Preamble(code, ok) ==
  [client EXCEPT !.hints = IF ok /\ code = "hints" THEN @ + 1 ELSE @,
                 !.preamble = @ \/ (ok /\ code # "hints"),
                 !.announced = IF ok /\ code # "hints" THEN header.declared ELSE @]

\* Mutant: the second call of WriteHeader goes through to the host.
HeaderSentAgain(code, ok) ==
  Outcome([writer EXCEPT !.err = ~ok,
                         !.trailers = header.declared,
                         !.wrote = @ \/ code # "hints",
                         !.closable = @ \/ (ok /\ code # "hints")],
          Preamble(code, ok))

\* Mutant: the trailer names are saved with the first preamble only.
HeaderSentFirstTrailers(code, ok) ==
  IF writer.wrote
    THEN Outcome(writer, client)
    ELSE Outcome([writer EXCEPT !.err = ~ok,
                                !.trailers = IF client.hints = 0 THEN header.declared ELSE @,
                                !.wrote = code # "hints",
                                !.closable = ok /\ code # "hints"],
                 Preamble(code, ok))

\* WriteHeader.  It keeps the error for later calls, and the writer open for
\* another preamble after early hints; the trailer names are saved each time.
HeaderSent(code, ok) ==
  IF writer.wrote
    THEN Outcome(writer, client)
    ELSE Outcome([writer EXCEPT !.err = ~ok,
                                !.trailers = header.declared,
                                !.wrote = code # "hints",
                                !.closable = ok /\ code # "hints"],
                 Preamble(code, ok))

\* The implicit WriteHeader(200) of Write, Append and Close.
Implicit(ok) == IF writer.wrote THEN Outcome(writer, client) ELSE HeaderSent("final", ok)

Outcomes(code) == {ok \in BOOLEAN : ok => Accepts(code)}

WriteHeader(code) ==
  /\ loop = "handling"
  /\ code = "hints" => client.hints < MaxHints
  /\ touched' = TRUE
  /\ \E ok \in Outcomes(code) :
       /\ writer' = HeaderSent(code, ok).w
       /\ client' = HeaderSent(code, ok).c
  /\ UNCHANGED <<loop, count, given, header, cause>>

\* Write and Append: the data goes to the host's body, which the client gets
\* once there is a preamble, unless the body is closed or the hostcall fails.
Write ==
  /\ loop = "handling"
  /\ touched' = TRUE
  /\ \/ writer.err /\ UNCHANGED <<writer, client>>
     \/ /\ ~writer.err
        /\ \E ok \in Outcomes("final") :
             LET o == Implicit(ok) IN
             /\ writer' = o.w
             /\ \/ client.end = "open" /\ client' = [o.c EXCEPT !.data = @ \/ o.c.preamble]
                \/ client' = o.c
  /\ UNCHANGED <<loop, count, given, header, cause>>

Shut(w) == [w EXCEPT !.closed = TRUE]

\* The trailers with a value: the one whose name was saved, and the prefixed one.
Appended(w) == {t \in Trailers : header.values[t] > 0 /\ (t = "prefixed" \/ w.trailers)}

\* writeTrailers: the first value of each; one the host refuses is only printed
\* and the others are appended.  Then the body is closed all the same.
Ended(o, refused, e) ==
  Outcome(Shut(o.w),
          [o.c EXCEPT !.got = [t \in Trailers |-> IF t \in Appended(o.w) \ refused THEN 1 ELSE 0],
                      !.refused = refused, !.end = e])

\* Close: the implicit preamble, the trailers, the end of the body, which has
\* no effect on a body that was never sent.
Closings(o) ==
  IF o.w.closed THEN {o}
  ELSE IF ~o.w.closable THEN {Outcome(Shut(o.w), o.c)}
  ELSE {Ended(o, r, e) : r \in SUBSET Appended(o.w), e \in {"complete", "broken"}}

CloseOutcomes ==
  IF writer.err THEN {Outcome(writer, client)}
  ELSE UNION {Closings(Implicit(ok)) : ok \in Outcomes("final")}

Close ==
  /\ loop = "handling"
  /\ touched' = TRUE
  /\ \E o \in CloseOutcomes : writer' = o.w /\ client' = o.c
  /\ UNCHANGED <<loop, count, given, header, cause>>

\* The handler fills the header map.
SetHeader ==
  /\ loop = "handling"
  /\ header' \in Headers
  /\ UNCHANGED <<loop, count, given, writer, client, touched, cause>>

\* HandoffWebsocket, HandoffFanout.
Handoff ==
  /\ loop = "handling" /\ ~client.preamble
  /\ client' = [client EXCEPT !.handed = TRUE]
  /\ UNCHANGED <<loop, count, given, writer, header, touched, cause>>
-----------------------------------------------------------------------------
(***************************************************************************)
(* serve and ServeMany.                                                    *)
(***************************************************************************)
Panic(why) ==
  /\ loop' = "panic"
  /\ cause' = why
  /\ UNCHANGED <<count, given, writer, header, client, touched>>

\* A request arrives: BodyDownstreamGet, or the promise of the next one.
Begin ==
  /\ given < MaxClients
  /\ given' = given + 1
  /\ loop' = "handling"
  /\ writer' = NewWriter
  /\ header' = NewHeader
  /\ client' = NewClient
  /\ touched' = FALSE
  /\ UNCHANGED <<count, cause>>

\* The handles of the request, its Request or its ResponseWriter fail.
BeginFails == Panic("host")

FirstRequest ==
  /\ loop = "start"
  /\ Begin \/ BeginFails

\* Mutant: serve leaves the closing to the handler.
HandlerReturnsNoClose ==
  /\ loop = "handling"
  /\ \/ writer.err /\ Panic("response")
     \/ /\ ~writer.err
        /\ loop' = "next"
        /\ UNCHANGED <<count, given, writer, header, client, touched, cause>>

\* The handler is done: panic on a response that could not be sent, else close
\* it, without a look at what Close returns.
HandlerReturns ==
  /\ loop = "handling"
  /\ \/ writer.err /\ Panic("response")
     \/ /\ ~writer.err
        /\ \E o \in CloseOutcomes : writer' = o.w /\ client' = o.c
        /\ loop' = "next"
        /\ UNCHANGED <<count, given, header, touched, cause>>

\* Mutant: the count is compared before it is raised.
NextIterationLate ==
  /\ loop = "next"
  /\ \/ /\ count' = count + 1
        /\ \/ MaxRequests # 0 /\ count > MaxRequests /\ loop' = "stopped"
           \/ ~(MaxRequests # 0 /\ count > MaxRequests) /\ loop' \in {"stopped", "waiting"}
        /\ UNCHANGED <<given, writer, header, client, touched, cause>>
     \/ Panic("host")

\* The head of the loop: MaxRequests, MaxLifetime, Continue, then the promise.
\* (Serve has no loop: it stops after the first request.)
NextIteration ==
  /\ loop = "next"
  /\ \/ /\ count' = count + 1
        /\ \/ MaxRequests # 0 /\ count' > MaxRequests /\ loop' = "stopped"
           \/ ~(MaxRequests # 0 /\ count' > MaxRequests) /\ loop' \in {"stopped", "waiting"}
        /\ UNCHANGED <<given, writer, header, client, touched, cause>>
     \/ Panic("host")

\* promise.Wait(): a request, none before the timeout, or an error.
NextRequest ==
  /\ loop = "waiting"
  /\ \/ Begin
     \/ /\ loop' = "stopped"
        /\ UNCHANGED <<count, given, writer, header, client, touched, cause>>
     \/ BeginFails

Next ==
  \/ FirstRequest \/ HandlerReturns \/ NextIteration \/ NextRequest
  \/ \E code \in {"hints", "final", "invalid"} : WriteHeader(code)
  \/ Write \/ Close \/ SetHeader \/ Handoff

Spec == Init /\ [][Next]_vars
-----------------------------------------------------------------------------
(***************************************************************************)
(* Properties.                                                             *)
(***************************************************************************)

\* serve panics over a response only when the handler itself tried to respond
\* and the client has no response yet, so that a 500 can still be sent: never
\* after a response went out, whatever the handler called in which order, and
\* never for a request that was handed off and left alone.
PanicMeansNoResponse ==
  loop = "panic" /\ cause = "response" => ~client.preamble /\ touched

\* When serve is done with a request, its client is not left waiting ("Serve
\* will ensure the ResponseWriter has been closed before returning"): the
\* response is out and its body was closed, with or without the host's consent,
\* or the host refused the response in serve's own Close, the one place where
\* nobody looks at the error the writer has kept.
\* What a handler's Write or Close could not send never gets that far.
ResponsesEnded ==
  loop \in {"next", "waiting", "stopped"} =>
    \/ client.preamble /\ client.end # "open"
    \/ ~client.preamble /\ writer.err

\* With a complete body the client gets a value of a trailer only if the final
\* preamble named it (not an early hint before it) or it carries the
\* TrailerPrefix, and it has one when the response is closed, by the handler or
\* by serve; it misses one of these only if the host refused to append that one,
\* which is no reason to leave the others out (writeTrailers).  That the handler
\* is not told, and that one value of each is all the client gets, is how the
\* code is.
TrailersAsAnnounced ==
  [][client.end = "open" /\ client'.end = "complete" =>
       \A t \in Trailers :
         client'.got[t] > 0 <=>
           /\ header.values[t] > 0 /\ (t = "prefixed" \/ client'.announced)
           /\ t \notin client'.refused]_vars

\* MaxRequests is "the maximum number of requests to serve for a single
\* instance", the first one included.
ServedBound == MaxRequests # 0 => given <= MaxRequests
=============================================================================
