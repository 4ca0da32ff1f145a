-------------------------- MODULE DownstreamProofs --------------------------
(***************************************************************************)
(* The safety of serve, ServeMany and the ResponseWriter, whatever the     *)
(* handlers call in which order, for any number of requests and any        *)
(* MaxRequests.                                                            *)
(***************************************************************************)
EXTENDS Downstream, TLAPS

\* What the responseWriter believes of its response is what the client has:
\* a preamble if one was written without an error, which is also when the body
\* can be closed; the trailer names of that preamble and no other; a body that
\* has ended if it was closed and there was one to end.
Agree(w, c) ==
  /\ w \in Writers /\ c \in Clients
  /\ c.preamble <=> w.wrote /\ ~w.err
  /\ w.closable <=> c.preamble
  /\ c.preamble => (c.announced <=> w.trailers)
  /\ c.end # "open" <=> w.closed /\ c.preamble
  /\ w.closed => w.wrote

\* A trailer that a client has with a complete body.
Due(t, c) ==
  header.values[t] > 0 /\ (t = "prefixed" \/ c.announced) /\ t \notin c.refused

\* The error the writer keeps while the handler runs, and in a panic over the
\* response, comes from a call of the handler.  After that a response has been
\* closed by serve.
LoopInv ==
  /\ loop # "panic" => cause = "none"
  /\ loop = "handling" /\ writer.err => touched
  /\ loop = "panic" /\ cause = "response" => writer.err /\ touched
  /\ loop \in {"next", "waiting", "stopped"} => writer.wrote /\ (writer.err \/ writer.closed)

\* The count runs ahead of the requests where one may arrive, and is never
\* over MaxRequests there.
CountInv ==
  /\ loop \in {"start", "waiting"} => count = given + 1
  /\ loop \in {"handling", "next"} => count = given
  /\ loop \notin {"stopped", "panic"} /\ MaxRequests # 0 => count <= MaxRequests
  /\ MaxRequests # 0 => given <= MaxRequests

IInv == TypeOK /\ Agree(writer, client) /\ LoopInv /\ CountInv

Codes == {"hints", "final", "invalid"}

\* The invariant holds in a new sandbox.
LEMMA InitInv == Init => IInv
<1> SUFFICES ASSUME Init PROVE IInv
  OBVIOUS
<1> USE BoundsAssumption
<1>1. Agree(writer, client)
  BY DEF Init, NewWriter, NewClient, Agree, Writers, Clients
<1>2. TypeOK
  <2>1. given \in 0..MaxClients /\ count \in {given, given + 1}
    BY DEF Init
  <2>2. writer \in Writers /\ client \in Clients /\ header \in Headers
    BY <1>1 DEF Agree, Init, NewHeader, Headers
  <2>3. QED
    BY <2>1, <2>2 DEF Init, TypeOK
<1>3. LoopInv /\ CountInv
  BY DEF Init, LoopInv, CountInv, NewWriter
<1>4. QED
  BY <1>1, <1>2, <1>3 DEF IInv

\* WriteHeader, accepted or not, leaves the writer and the client in agreement.
LEMMA HeaderSentKeeps ==
  ASSUME Agree(writer, client), header \in Headers,
         NEW code \in Codes, NEW ok \in Outcomes(code),
         code = "hints" => client.hints < MaxHints
  PROVE  /\ Agree(HeaderSent(code, ok).w, HeaderSent(code, ok).c)
         /\ HeaderSent(code, ok).c.end = client.end
         /\ code # "hints" => HeaderSent(code, ok).w.wrote
<1> DEFINE w == HeaderSent(code, ok).w
           c == HeaderSent(code, ok).c
<1>1. CASE writer.wrote
  BY <1>1 DEF HeaderSent, Outcome
<1>2. CASE ~writer.wrote
  <2>1. /\ w = [writer EXCEPT !.err = ~ok, !.trailers = header.declared,
                              !.wrote = code # "hints", !.closable = ok /\ code # "hints"]
        /\ c = Preamble(code, ok)
    BY <1>2 DEF HeaderSent, Outcome
  <2>2. /\ w \in Writers
        /\ w.err = ~ok
        /\ w.trailers = header.declared
        /\ w.wrote = (code # "hints")
        /\ w.closable = (ok /\ code # "hints")
        /\ w.closed = writer.closed
    BY <2>1 DEF Agree, Writers, Headers, Outcomes
  <2>3. /\ c \in Clients
        /\ c.preamble = (client.preamble \/ (ok /\ code # "hints"))
        /\ c.announced = (IF ok /\ code # "hints" THEN header.declared ELSE client.announced)
        /\ c.end = client.end
    <3>1. CASE ok /\ code = "hints"
      <4>1. client.hints + 1 \in 0..MaxHints
        BY <3>1, BoundsAssumption DEF Agree, Clients
      <4>2. /\ c = [client EXCEPT !.hints = client.hints + 1, !.preamble = client.preamble,
                                 !.announced = client.announced]
        BY <2>1, <3>1 DEF Preamble, Agree, Clients
      <4>3. QED
        BY <3>1, <4>1, <4>2 DEF Agree, Clients
    <3>2. CASE ~(ok /\ code = "hints")
      BY <2>1, <3>2, BoundsAssumption DEF Preamble, Agree, Clients, Headers, Outcomes
    <3>3. QED
      BY <3>1, <3>2
  <2>4. QED
    BY <1>2, <2>2, <2>3 DEF Agree
<1>3. QED
  BY <1>1, <1>2

\* The implicit WriteHeader(200).
LEMMA ImplicitKeeps ==
  ASSUME Agree(writer, client), header \in Headers, NEW ok \in Outcomes("final")
  PROVE  /\ Agree(Implicit(ok).w, Implicit(ok).c)
         /\ Implicit(ok).c.end = client.end
         /\ Implicit(ok).w.wrote
<1>1. CASE writer.wrote
  BY <1>1 DEF Implicit, Outcome
<1>2. CASE ~writer.wrote
  BY <1>2, HeaderSentKeeps DEF Implicit, Codes
<1>3. QED
  BY <1>1, <1>2

\* Close: whatever comes of it, the two agree on it, a writer without an error
\* ends closed or with one, and a body that is completed has the trailers its
\* preamble named or that have the prefix, but for those that were refused.
LEMMA CloseKeeps ==
  ASSUME Agree(writer, client), header \in Headers, NEW o \in CloseOutcomes
  PROVE  /\ Agree(o.w, o.c)
         /\ ~writer.err => o.w.wrote /\ (o.w.err \/ o.w.closed)
         /\ client.end = "open" /\ o.c.end = "complete" =>
              \A t \in Trailers : o.c.got[t] > 0 <=> Due(t, o.c)
<1>1. CASE writer.err
  BY <1>1 DEF CloseOutcomes, Outcome
<1>2. CASE ~writer.err
  <2>1. PICK ok \in Outcomes("final") : o \in Closings(Implicit(ok))
    BY <1>2 DEF CloseOutcomes
  <2> DEFINE i == Implicit(ok)
  <2>2. Agree(i.w, i.c) /\ i.c.end = client.end /\ i.w.wrote
    BY ImplicitKeeps
  <2>3. CASE i.w.closed
    <3>1. o = i
      BY <2>1, <2>3 DEF Closings
    <3>2. QED
      BY <2>2, <2>3, <3>1 DEF Agree
  <2>4. CASE ~i.w.closed /\ ~i.w.closable
    <3>1. o = Outcome(Shut(i.w), i.c)
      BY <2>1, <2>4 DEF Closings
    <3>2. QED
      BY <2>2, <2>4, <3>1 DEF Agree, Outcome, Shut, Writers
  <2>5. CASE ~i.w.closed /\ i.w.closable
    <3>1. PICK r \in SUBSET Appended(i.w), e \in {"complete", "broken"} : o = Ended(i, r, e)
      BY <2>1, <2>5 DEF Closings
    <3>2. /\ o.w \in Writers /\ o.w.closed
          /\ o.w.wrote = i.w.wrote /\ o.w.err = i.w.err
          /\ o.w.trailers = i.w.trailers /\ o.w.closable = i.w.closable
      BY <2>2, <3>1 DEF Agree, Ended, Outcome, Shut, Writers
    <3> DEFINE got == [t \in Trailers |-> IF t \in Appended(i.w) \ r THEN 1 ELSE 0]
    <3>7. got \in [Trailers -> 0..2] /\ r \in SUBSET Trailers
      BY DEF Appended
    <3>8. o.c = [i.c EXCEPT !.got = got, !.refused = r, !.end = e]
      BY <3>1 DEF Ended, Outcome
    <3>9. \A t \in Trailers : got[t] > 0 <=> t \in Appended(i.w) \ r
      OBVIOUS
    <3> HIDE DEF got
    <3>3. /\ o.c \in Clients /\ o.c.end = e /\ o.c.got = got /\ o.c.refused = r
          /\ o.c.preamble = i.c.preamble /\ o.c.announced = i.c.announced
      BY <2>2, <3>7, <3>8 DEF Agree, Clients
    <3>4. Agree(o.w, o.c)
      BY <2>2, <2>5, <3>2, <3>3 DEF Agree
    <3>10. i.w.trailers <=> i.c.announced
      BY <2>2, <2>5 DEF Agree
    <3>5. \A t \in Trailers : got[t] > 0 <=> Due(t, o.c)
      BY <3>3, <3>9, <3>10 DEF Appended, Due
    <3>6. QED
      BY <2>2, <2>5, <3>2, <3>3, <3>4, <3>5 DEF Agree
  <2>6. QED
    BY <1>2, <2>3, <2>4, <2>5
<1>3. QED
  BY <1>1, <1>2

\* A call of the handler on its ResponseWriter.
LEMMA CallKeeps ==
  ASSUME IInv, loop = "handling", Agree(writer', client'), touched',
         UNCHANGED <<loop, count, given, header, cause>>,
         touched' \in BOOLEAN
  PROVE  IInv'
<1>1. TypeOK'
  BY DEF IInv, TypeOK, Agree
<1>2. LoopInv' /\ CountInv'
  BY DEF IInv, LoopInv, CountInv
<1>3. QED
  BY <1>1, <1>2 DEF IInv

\* The panics of serve, over the host or over the response.
LEMMA PanicKeeps ==
  ASSUME IInv, NEW why \in {"host", "response"}, Panic(why),
         why = "response" => loop = "handling" /\ writer.err
  PROVE  IInv'
<1>1. TypeOK' /\ Agree(writer, client)'
  BY DEF IInv, Panic, TypeOK
<1>2. LoopInv' /\ CountInv'
  BY DEF IInv, Panic, LoopInv, CountInv
<1>3. QED
  BY <1>1, <1>2 DEF IInv

\* A request arrives, the first one or one more.
LEMMA BeginKeeps ==
  ASSUME IInv, Begin, loop \in {"start", "waiting"}
  PROVE  IInv'
<1> USE BoundsAssumption
<1>1. Agree(writer', client')
  BY DEF Begin, NewWriter, NewClient, Agree, Writers, Clients
<1>2. header' \in Headers
  BY DEF Begin, NewHeader, Headers
<1>3. count = given + 1 /\ (MaxRequests # 0 => count <= MaxRequests)
  BY DEF IInv, CountInv
<1>4. given' \in 0..MaxClients /\ count' = given'
  BY <1>3 DEF IInv, TypeOK, Begin
<1>5. TypeOK'
  BY <1>1, <1>2, <1>4 DEF IInv, TypeOK, Begin, Agree
<1>6. LoopInv'
  BY DEF IInv, LoopInv, Begin, NewWriter
<1>7. CountInv'
  BY <1>3, <1>4 DEF Begin, CountInv
<1>8. QED
  BY <1>1, <1>5, <1>6, <1>7 DEF IInv

\* Every step keeps the invariant.
LEMMA StepKeeps ==
  ASSUME IInv, [Next]_vars
  PROVE  IInv'
<1> USE BoundsAssumption
<1>1. CASE FirstRequest
  BY <1>1, BeginKeeps, PanicKeeps DEF FirstRequest, BeginFails
<1>2. CASE HandlerReturns
  <2>1. CASE writer.err
    BY <1>2, <2>1, PanicKeeps DEF HandlerReturns
  <2>2. CASE ~writer.err
    <3>1. PICK o \in CloseOutcomes : writer' = o.w /\ client' = o.c
      BY <1>2, <2>2 DEF HandlerReturns
    <3>2. /\ Agree(writer', client')
          /\ writer'.wrote /\ (writer'.err \/ writer'.closed)
      BY <2>2, <3>1, CloseKeeps DEF IInv, TypeOK
    <3>3. loop = "handling" /\ loop' = "next" /\ UNCHANGED <<count, given, header, touched, cause>>
      BY <1>2, <2>2 DEF HandlerReturns
    <3>4. QED
      BY <3>2, <3>3 DEF IInv, TypeOK, Agree, LoopInv, CountInv
  <2>3. QED
    BY <2>1, <2>2
<1>3. CASE NextIteration
  <2>1. CASE Panic("host")
    BY <2>1, PanicKeeps
  <2>2. CASE ~Panic("host")
    <3>1. /\ loop = "next" /\ loop' \in {"stopped", "waiting"} /\ count' = count + 1
          /\ loop' = "waiting" /\ MaxRequests # 0 => count' <= MaxRequests
          /\ UNCHANGED <<given, writer, header, client, touched, cause>>
      BY <1>3, <2>2 DEF NextIteration, IInv, TypeOK
    <3>2. count = given
      BY <3>1 DEF IInv, CountInv
    <3>3. TypeOK' /\ CountInv'
      BY <3>1, <3>2 DEF IInv, TypeOK, CountInv
    <3>4. LoopInv' /\ Agree(writer', client')
      BY <3>1 DEF IInv, LoopInv
    <3>5. QED
      BY <3>3, <3>4 DEF IInv
  <2>3. QED
    BY <2>1, <2>2
<1>4. CASE NextRequest
  <2>1. CASE loop' = "stopped" /\ UNCHANGED <<count, given, writer, header, client, touched, cause>>
    BY <1>4, <2>1 DEF NextRequest, IInv, TypeOK, LoopInv, CountInv
  <2>2. QED
    BY <1>4, <2>1, BeginKeeps, PanicKeeps DEF NextRequest, BeginFails
<1>5. ASSUME NEW code \in Codes, WriteHeader(code) PROVE IInv'
  BY <1>5, HeaderSentKeeps, CallKeeps DEF WriteHeader, IInv, TypeOK
<1>6. CASE Write
  <2>1. CASE writer.err /\ UNCHANGED <<writer, client>>
    BY <1>6, <2>1, CallKeeps DEF Write, IInv
  <2>2. CASE ~(writer.err /\ UNCHANGED <<writer, client>>)
    <3>1. PICK ok \in Outcomes("final") :
            /\ writer' = Implicit(ok).w
            /\ \/ client' = [Implicit(ok).c EXCEPT !.data = @ \/ Implicit(ok).c.preamble]
               \/ client' = Implicit(ok).c
      BY <1>6, <2>2 DEF Write
    <3>2. Agree(Implicit(ok).w, Implicit(ok).c)
      BY ImplicitKeeps DEF IInv, TypeOK
    <3>3. Agree(writer', client')
      BY <3>1, <3>2 DEF Agree, Clients
    <3>4. QED
      BY <1>6, <3>3, CallKeeps DEF Write
  <2>3. QED
    BY <2>1, <2>2
<1>7. CASE Close
  BY <1>7, CloseKeeps, CallKeeps DEF Close, IInv, TypeOK
<1>8. CASE SetHeader
  BY <1>8 DEF SetHeader, IInv, TypeOK, LoopInv, CountInv
<1>9. CASE Handoff
  <2>1. Agree(writer', client')
    BY <1>9 DEF Handoff, IInv, Agree, Clients
  <2>2. QED
    BY <1>9, <2>1 DEF Handoff, IInv, TypeOK, Agree, LoopInv, CountInv
<1>10. CASE UNCHANGED vars
  BY <1>10 DEF vars, IInv, TypeOK, LoopInv, CountInv
<1>11. QED
  BY <1>1, <1>2, <1>3, <1>4, <1>5, <1>6, <1>7, <1>8, <1>9, <1>10 DEF Next, Codes

\* Whatever the handlers do, the responseWriter believes of its response what the
\* client has of it, and ServeMany counts the requests it was given.
THEOREM Invariance == Spec => []IInv
<1>1. IInv /\ [Next]_vars => IInv'
  BY StepKeeps
<1>2. QED
  BY InitInv, <1>1, PTL DEF Spec

\* The writer, its header map and the loop of ServeMany keep their types.
THEOREM TypeCorrect == Spec => []TypeOK
<1>1. IInv => TypeOK
  BY DEF IInv
<1>2. QED
  BY <1>1, Invariance, PTL

\* serve panics over a response only when the handler itself tried to respond
\* and the client can still be sent a 500.
THEOREM PanicsBeforeResponse == Spec => []PanicMeansNoResponse
<1>1. IInv => PanicMeansNoResponse
  BY DEF IInv, Agree, LoopInv, PanicMeansNoResponse
<1>2. QED
  BY <1>1, Invariance, PTL

\* serve leaves a request with its response ended, or with an error in the
\* writer and nothing sent.
THEOREM EveryResponseEnds == Spec => []ResponsesEnded
<1>1. IInv => ResponsesEnded
  BY DEF IInv, Agree, LoopInv, ResponsesEnded
<1>2. QED
  BY <1>1, Invariance, PTL

\* ServeMany never serves more requests than MaxRequests.
THEOREM BoundIsKept == Spec => []ServedBound
<1>1. IInv => ServedBound
  BY DEF IInv, CountInv, ServedBound
<1>2. QED
  BY <1>1, Invariance, PTL

\* With a complete body the client gets the trailers of its final preamble and
\* the prefixed ones, those that have a value when the response is closed and
\* that the host did not refuse, and no others.
THEOREM TrailersAreKept == Spec => TrailersAsAnnounced
<1> DEFINE Announced == client.end = "open" /\ client'.end = "complete" =>
              \A t \in Trailers : client'.got[t] > 0 <=> Due(t, client')
<1>1. IInv /\ [Next]_vars => Announced
  <2> SUFFICES ASSUME IInv, [Next]_vars, client.end = "open", client'.end = "complete"
               PROVE  \A t \in Trailers : client'.got[t] > 0 <=> Due(t, client')
    OBVIOUS
  <2>1. CASE \E o \in CloseOutcomes : writer' = o.w /\ client' = o.c
    BY <2>1, CloseKeeps DEF IInv, TypeOK
  <2>2. CASE client' = NewClient
    BY <2>2 DEF NewClient
  <2>3. CASE UNCHANGED client
    BY <2>3
  <2>4. ASSUME NEW code \in Codes, WriteHeader(code) PROVE FALSE
    BY <2>4, HeaderSentKeeps DEF WriteHeader, IInv, TypeOK
  <2>5. ASSUME Write, client' # client PROVE FALSE
    <3>1. PICK ok \in Outcomes("final") :
            \/ client' = [Implicit(ok).c EXCEPT !.data = @ \/ Implicit(ok).c.preamble]
            \/ client' = Implicit(ok).c
      BY <2>5 DEF Write
    <3>2. Implicit(ok).c \in Clients /\ Implicit(ok).c.end = "open"
      BY ImplicitKeeps DEF IInv, TypeOK, Agree
    <3>3. QED
      BY <3>1, <3>2 DEF Clients
  <2>6. ASSUME Handoff PROVE FALSE
    BY <2>6 DEF Handoff, IInv, TypeOK, Clients
  <2>7. QED
    BY <2>1, <2>2, <2>3, <2>4, <2>5, <2>6
    DEF Next, Codes, vars, FirstRequest, HandlerReturns, NextIteration, NextRequest, Close,
        SetHeader, Begin, BeginFails, Panic
<1> DEFINE Said ==
      client.end = "open" /\ client'.end = "complete" =>
        \A t \in Trailers :
          client'.got[t] > 0 <=>
            /\ header.values[t] > 0 /\ (t = "prefixed" \/ client'.announced)
            /\ t \notin client'.refused
<1>2. Announced => Said
  BY DEF Due
<1>3. IInv /\ [Next]_vars => Said
  BY <1>1, <1>2
<1> HIDE DEF Announced
<1>4. QED
  BY <1>3, Invariance, PTL DEF Spec, TrailersAsAnnounced
=============================================================================
