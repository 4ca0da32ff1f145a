------------------------- MODULE SendRequestProofs -------------------------
(***************************************************************************)
(* The safety of Request.Send for any number of calls on one Request.      *)
(***************************************************************************)
EXTENDS SendRequest, TLAPS

\* Before the request is out, and while its answer is awaited.
Preparing == {"build", "route", "host"}
Awaiting == {"poll", "sleep"}

\* The host's request grows, and only a call that comes after a failed one
\* goes on with a part of it.
HalfBuiltInv ==
  /\ abi \in {{}, {"req"}, {"req", "body"}, {"req", "body", "options"}}
  /\ calls = 0 => pc = "idle" /\ abi = {}
  /\ calls = 1 /\ pc = "build" => abi = {}
  /\ pc \in {"route", "host"} => abi # {}
  /\ calls = 1 /\ pc \in {"route", "host"} \cup Awaiting => "options" \in abi
  /\ pc = "panic" => \/ calls > 1 /\ abi = {"req"}
                     \/ guestOn /\ ~shape.image /\ ~shape.bypass

\* One of the two halves of the host's request exists, or its options do not.
Partial == abi \notin {{}, {"req", "body", "options"}}

\* A call that has not sent anything yet has one request left, two if it goes on
\* with what a failed call left, and nothing is out by the host path.
OnceInv ==
  /\ pc \in Preparing => Len(out) < calls /\ ~sent
  /\ Partial => Len(out) < calls /\ (pc \in Preparing => Len(out) + 1 < calls)
  /\ ~sent => pc \notin Awaiting
  /\ pc = "host" /\ shape.hooks => shape.bypass \/ ~guestOn

\* What can be said of each request that is out.
Accounted(i) ==
  /\ out[i].by = "host" => sent /\ i = Len(out)
  /\ ~out[i].options => Partial
  /\ out[i].by = "host" /\ shape.hooks => shape.bypass \/ ~guestOn
  /\ out[i].by = "host" /\ out[i].body = "none" => spent

OutInv == \A i \in 1..Len(out) : Accounted(i)

\* How many reports a goroutine may have made on its way to each point.
Reports(at) == CASE at = "closing" -> 1 [] at = "ending" -> 2 [] at = "over" -> 3 [] OTHER -> 0

\* The copying: who copies, how far the body is, and that a failed copy has an
\* error in the channel for as long as the poll loop runs.
CopyInv ==
  /\ ~sent => copy.at = "off" /\ errc = <<>>
  /\ copy.at # "off" => Streaming
  /\ copy.at \in {"off", "copying"} => ~copy.failed
  /\ copy.at # "over" => body.end = "open"
  /\ copy.at \in {"closing", "ending", "over"} /\ ~copy.failed => body.written = "all" \/ spent
  /\ copy.failed => body.end # "complete"
  /\ Streaming => Len(errc) <= Reports(copy.at)
  /\ pc \in Awaiting /\ (copy.failed \/ (~Streaming /\ body.written # "all" /\ ~spent)) =>
       \E i \in 1..Len(errc) : errc[i] = "error"

IInv == TypeOK /\ HalfBuiltInv /\ OnceInv /\ OutInv /\ CopyInv

\* The invariant holds when the handler has made its Request.
LEMMA InitInv == Init => IInv
<1> SUFFICES ASSUME Init PROVE IInv
  OBVIOUS
<1>1. TypeOK
  <2>1. errc \in Seq({"nil", "error"}) /\ Len(errc) <= ErrcCap
    BY DEF Init, ErrcCap
  <2>2. copy \in [at : CopyStates, failed : BOOLEAN] /\ body \in Bodies
    BY DEF Init, CopyStates, Bodies
  <2>3. calls \in 0..MaxCalls /\ out \in Seq(Requests) /\ Len(out) <= calls
    BY MaxCallsAssumption DEF Init
  <2>4. QED
    BY <2>1, <2>2, <2>3 DEF Init, TypeOK
<1>2. HalfBuiltInv /\ OnceInv /\ OutInv
  BY DEF Init, HalfBuiltInv, OnceInv, OutInv, Partial, Preparing, Awaiting
<1>3. CopyInv
  BY DEF Init, CopyInv, Reports, Awaiting
<1>4. QED
  BY <1>1, <1>2, <1>3 DEF IInv

\* An error in the channel stays in it when something else is read, and when
\* something is written.
LEMMA ErrorStays ==
  ASSUME NEW s \in Seq({"nil", "error"}), NEW i \in 1..Len(s), s[i] = "error"
  PROVE  /\ Head(s) # "error" => \E j \in 1..Len(Tail(s)) : Tail(s)[j] = "error"
         /\ \A m : \E j \in 1..Len(Append(s, m)) : Append(s, m)[j] = "error"
<1>1. ASSUME Head(s) # "error" PROVE i - 1 \in 1..Len(Tail(s)) /\ Tail(s)[i - 1] = "error"
  BY <1>1
<1>2. ASSUME NEW m PROVE i \in 1..Len(Append(s, m)) /\ Append(s, m)[i] = "error"
  OBVIOUS
<1>3. QED
  BY <1>1, <1>2

\* A half without its body is the request alone, of an earlier call.
LEMMA HalfIsRequest ==
  ASSUME TypeOK, HalfBuiltInv, pc \in {"route", "host"}, "body" \notin abi
  PROVE  calls > 1 /\ abi = {"req"}
<1>1. abi = {"req"}
  BY DEF HalfBuiltInv
<1>2. calls # 0 /\ calls # 1
  BY <1>1 DEF HalfBuiltInv
<1>3. QED
  BY <1>1, <1>2, MaxCallsAssumption DEF TypeOK

\* What copyBody can make of a body is something the host has, and a report;
\* nothing of it arrives only if it was used up before.
LEMMA CopyResultsType ==
  ASSUME NEW c \in CopyResults, spent \in BOOLEAN
  PROVE  /\ c[1] \in {"none", "part", "all"} /\ c[2] \in {"nil", "error"}
         /\ c[1] = "none" => spent
         /\ c[1] = "part" => IsReader /\ (spent \/ c[2] = "error")
BY DEF CopyResults

\* A request goes out from the present state: it has its options unless a call
\* before has failed at them, and the host path has read the body.
Sends(e) ==
  /\ e \in Requests /\ out' = Append(out, e)
  /\ ~e.options => "options" \notin abi
  /\ e.by = "host" => pc = "host" /\ (e.body = "none" => spent)

\* One request is sent, or none; what was used up stays so.
WireMoves ==
  /\ UNCHANGED out \/ \E e : Sends(e)
  /\ spent' \in BOOLEAN /\ (spent => spent')

\* The actions that send something.
Sending == SendToImageOpto \/ Route \/ SendStreaming \/ SendBuffered

\* Nothing goes out twice in a step.
LEMMA GoesSends ==
  ASSUME NEW by \in {"host", "guest", "image"}, NEW o \in BOOLEAN,
         NEW d \in {"none", "part", "all", "streamed"}, Goes(by, o, d),
         ~o => "options" \notin abi, by = "host" => pc = "host" /\ (d = "none" => spent)
  PROVE  \E e : Sends(e)
<1> DEFINE e == [by |-> by, options |-> o, body |-> d]
<1>1. e \in Requests /\ out' = Append(out, e)
  BY DEF Requests, Goes
<1>2. e.by = by /\ e.options = o /\ e.body = d
  OBVIOUS
<1> HIDE DEF e
<1>3. Sends(e)
  BY <1>1, <1>2 DEF Sends
<1>4. QED
  BY <1>3

\* The paths that copy nothing send one request.
LEMMA UncopiedMoves ==
  ASSUME TypeOK, NEW by \in {"guest", "image"}, GoesUncopied(by)
  PROVE  WireMoves
<1> DEFINE d == IF IsReader \/ spent THEN "none" ELSE "all"
           o == "options" \in abi
<1>1. Goes(by, o, d) /\ d \in {"none", "part", "all", "streamed"}
  BY DEF GoesUncopied
<1>2. o \in BOOLEAN /\ (~o => "options" \notin abi)
  OBVIOUS
<1>3. \E e : Sends(e)
  <2> HIDE DEF d, o
  <2> QED
    BY <1>1, <1>2, GoesSends
<1>4. QED
  BY <1>3 DEF GoesUncopied, WireMoves, TypeOK

\* The guest cache path sends one request, or none.
LEMMA GuestMoves ==
  ASSUME TypeOK, ToGuestCache
  PROVE  /\ WireMoves
         /\ pc' \in {"idle", "panic"} /\ res' \in {res, "response", "error"}
<1>1. CASE UNCHANGED wire /\ (Return("response") \/ Return("error"))
  BY <1>1 DEF wire, Return, WireMoves, TypeOK
<1>2. CASE GuestSends
  <2>1. spent' \in BOOLEAN /\ (spent => spent')
    BY <1>2 DEF GuestSends, wire, TypeOK
  <2>2. CASE UNCHANGED out /\ (Return("error") \/ (pc' = "panic" /\ UNCHANGED res))
    BY <2>1, <2>2 DEF Return, WireMoves
  <2>3. CASE \E r \in {"response", "error"}, c \in CopyResults :
               Return(r) /\ Goes("guest", TRUE, c[1])
    <3>1. PICK r \in {"response", "error"}, c \in CopyResults :
                 Return(r) /\ Goes("guest", TRUE, c[1])
      BY <2>3
    <3>2. c[1] \in {"none", "part", "all", "streamed"}
      BY CopyResultsType DEF TypeOK
    <3>3. \E e : Sends(e)
      BY <3>1, <3>2, GoesSends
    <3>4. QED
      BY <2>1, <3>1, <3>3 DEF WireMoves, Return
  <2>4. QED
    <3>1. \/ UNCHANGED out /\ (Return("error") \/ (pc' = "panic" /\ UNCHANGED res))
          \/ \E r \in {"response", "error"}, c \in CopyResults :
               Return(r) /\ Goes("guest", TRUE, c[1])
      BY <1>2 DEF GuestSends, wire
    <3>2. QED
      BY <3>1, <2>2, <2>3
<1>3. CASE (Return("response") \/ Return("error")) /\ GoesUncopied("guest")
  BY <1>3, UncopiedMoves DEF Return
<1>4. CASE Panics
  BY <1>4 DEF Panics, wire, WireMoves, TypeOK
<1>5. QED
  BY <1>1, <1>2, <1>3, <1>4 DEF ToGuestCache

\* The host path sends one request, or none.
LEMMA HostMoves ==
  ASSUME TypeOK, pc = "host", NEW d \in {"none", "part", "all", "streamed"},
         d = "none" => spent, Started(d) \/ NotStarted
  PROVE  /\ WireMoves
         /\ pc' \in {"idle", "poll"} /\ res' \in {res, "error"}
         /\ pending' \in {pending, "waiting"} /\ UNCHANGED spent
<1>1. CASE Started(d)
  <2> DEFINE o == "options" \in abi
  <2>1. Goes("host", o, d)
    BY <1>1 DEF Started
  <2>4. o \in BOOLEAN /\ (~o => "options" \notin abi)
    OBVIOUS
  <2>2. \E e : Sends(e)
    <3> HIDE DEF o
    <3> QED
      BY <2>1, <2>4, GoesSends
  <2>3. QED
    BY <1>1, <2>2 DEF Started, WireMoves, TypeOK
<1>2. CASE NotStarted
  BY <1>2 DEF NotStarted, Return, wire, WireMoves, TypeOK
<1>3. QED
  BY <1>1, <1>2

\* What SendBuffered's copyBody can make of the body, and its reports.
LEMMA BufferedCopy ==
  ASSUME TypeOK, SendBuffered
  PROVE  \E c \in CopyResults :
           /\ c[1] \in {"none", "part", "all"} /\ c[2] \in {"nil", "error"}
           /\ c[1] = "none" => spent
           /\ c[1] = "part" => IsReader /\ (spent \/ c[2] = "error")
           /\ body' = [body EXCEPT !.written = c[1]]
           /\ errc' = IF IsReader THEN <<c[2], "nil", "nil">> ELSE <<"nil">>
           /\ Started(c[1]) \/ NotStarted
BY CopyResultsType DEF SendBuffered, TypeOK

\* Each path sends at most once, and then Send prepares nothing any more.
LEMMA SendingMoves ==
  ASSUME TypeOK, Sending
  PROVE  /\ WireMoves
         /\ out' # out => pc' \notin Preparing /\ UNCHANGED <<abi, guestOn>>
         /\ pc \in {"route", "host"} /\ UNCHANGED <<calls, shape>> /\ (pc = "host" => sent')
<1>1. CASE SendToImageOpto
  <2>1. CASE GoesUncopied("image") /\ (Return("response") \/ Return("error"))
    BY <1>1, <2>1, UncopiedMoves DEF SendToImageOpto, Return, reqVars, Preparing
  <2>2. CASE UNCHANGED wire
    BY <1>1, <2>2 DEF SendToImageOpto, wire, WireMoves, TypeOK
  <2>3. QED
    BY <1>1, <2>1, <2>2 DEF SendToImageOpto, Panics
<1>2. CASE Route
  <2>1. CASE ToGuestCache /\ UNCHANGED guestOn
    BY <1>2, <2>1, GuestMoves DEF Route, Preparing
  <2>2. CASE UNCHANGED wire
    BY <1>2, <2>2 DEF Route, wire, WireMoves, TypeOK
  <2>3. QED
    BY <1>2, <2>1, <2>2 DEF Route, ToHost
<1>3. CASE SendStreaming
  BY <1>3, HostMoves DEF SendStreaming, Preparing
<1>4. CASE SendBuffered
  <2>1. PICK c \in CopyResults :
          c[1] \in {"none", "part", "all"} /\ (c[1] = "none" => spent) /\ (Started(c[1]) \/ NotStarted)
    BY <1>4, BufferedCopy
  <2>2. pc = "host" /\ sent' /\ UNCHANGED <<calls, shape, abi, guestOn>>
    BY <1>4 DEF SendBuffered
  <2>3. WireMoves /\ pc' \in {"idle", "poll"}
    BY <2>1, <2>2, HostMoves
  <2>4. QED
    BY <2>2, <2>3 DEF Preparing
<1>5. QED
  BY <1>1, <1>2, <1>3, <1>4 DEF Sending

\* Every other step leaves the wire alone.
LEMMA OthersAreQuiet ==
  ASSUME [Next]_vars, ~Sending
  PROVE  UNCHANGED wire
BY DEF Next, Sending, SendStep, CopyStep, Call, Build, SendHalfBuilt, Panics, PollCancelled,
   PollErrc, Poll, WakeUp, CopySome, CopyEnds, CloseUserBody, EndBody, CopyUnchanged, BackendEnds,
   Cancel, vars, wire

\* The types of the wire: no more requests than there were calls.
LEMMA WireKeepsType ==
  ASSUME TypeOK, OnceInv, [Next]_vars
  PROVE  out' \in Seq(Requests) /\ Len(out') <= calls' /\ spent' \in BOOLEAN
<1>1. CASE Sending
  <2>1. WireMoves /\ Len(out) < calls /\ UNCHANGED calls
    BY <1>1, SendingMoves DEF OnceInv, Preparing
  <2>2. CASE UNCHANGED out
    BY <2>1, <2>2 DEF WireMoves, TypeOK
  <2>3. CASE \E e : Sends(e)
    <3>1. PICK e : Sends(e)
      BY <2>3
    <3>2. out' = Append(out, e) /\ e \in Requests /\ out \in Seq(Requests) /\ calls \in Nat
      BY <3>1, MaxCallsAssumption DEF Sends, TypeOK
    <3>3. out' \in Seq(Requests) /\ Len(out') = Len(out) + 1
      BY <3>2
    <3>4. QED
      BY <2>1, <3>2, <3>3 DEF WireMoves
  <2>4. QED
    BY <2>1, <2>2, <2>3 DEF WireMoves
<1>2. CASE ~Sending
  <2>1. UNCHANGED wire
    BY <1>2, OthersAreQuiet
  <2>2. calls' = calls \/ calls' = calls + 1
    BY DEF Next, SendStep, CopyStep, Call, Build, SendToImageOpto, Route, SendStreaming, SendBuffered,
       SendHalfBuilt, PollCancelled, PollErrc, Poll, WakeUp, CopySome, CopyEnds, CloseUserBody,
       EndBody, CopyUnchanged, BackendEnds, Cancel, vars
  <2>3. QED
    BY <2>1, <2>2, MaxCallsAssumption DEF wire, TypeOK
<1>3. QED
  BY <1>1, <1>2

\* Every variable but the wire keeps its type.
LEMMA TypeKeeps ==
  ASSUME TypeOK, OnceInv, [Next]_vars
  PROVE  TypeOK'
<1> USE MaxCallsAssumption
<1>0. out' \in Seq(Requests) /\ Len(out') <= calls' /\ spent' \in BOOLEAN
  BY WireKeepsType
<1>1. CASE Call
  BY <1>0, <1>1 DEF Call, Return, reqVars, copyVars, TypeOK
<1>2. CASE Build
  <2>1. abi' \subseteq {"req", "body", "options"}
    BY <1>2 DEF Build, ConstructFails, TypeOK
  <2>2. pc' \in {"idle", "route"} /\ res' \in {res, "error"}
    BY <1>2 DEF Build, ConstructFails, Return
  <2>3. QED
    BY <1>0, <1>2, <2>1, <2>2 DEF Build, copyVars, TypeOK
<1>3. CASE SendToImageOpto
  <2>1. pc' \in {"idle", "panic"} /\ res' \in {res, "response", "error"}
    BY <1>3 DEF SendToImageOpto, Panics, Return
  <2>2. QED
    BY <1>0, <1>3, <2>1 DEF SendToImageOpto, reqVars, copyVars, TypeOK
<1>4. CASE Route
  <2>1. guestOn' \in BOOLEAN
    BY <1>4 DEF Route, TypeOK
  <2>2. pc' \in {"idle", "host", "panic"} /\ res' \in {res, "response", "error", "unsupported"}
    <3>1. CASE ToGuestCache
      BY <3>1, GuestMoves
    <3>2. CASE ToHost \/ Return("unsupported") \/ Return("error")
      BY <3>2 DEF ToHost, Return
    <3>3. QED
      BY <1>4, <3>1, <3>2 DEF Route
  <2>3. QED
    BY <1>0, <1>4, <2>1, <2>2 DEF Route, copyVars, TypeOK
<1>5. CASE SendStreaming
  <2>1. pc' \in {"idle", "poll"} /\ res' \in {res, "error"} /\ pending' \in {pending, "waiting"}
    BY <1>5, HostMoves DEF SendStreaming
  <2>2. copy' \in [at : CopyStates, failed : BOOLEAN] /\ closable' \in BOOLEAN /\ sent' \in BOOLEAN
    BY <1>5 DEF SendStreaming, TypeOK, CopyStates
  <2>3. QED
    BY <1>0, <1>5, <2>1, <2>2 DEF SendStreaming, TypeOK
<1>6. CASE SendBuffered
  <2>1. PICK c \in CopyResults :
          /\ c[1] \in {"none", "part", "all"} /\ c[2] \in {"nil", "error"}
          /\ c[1] = "none" => spent
          /\ body' = [body EXCEPT !.written = c[1]]
          /\ errc' = IF IsReader THEN <<c[2], "nil", "nil">> ELSE <<"nil">>
          /\ Started(c[1]) \/ NotStarted
    BY <1>6, BufferedCopy
  <2>2. body' \in Bodies /\ sent' \in BOOLEAN /\ pc = "host"
    BY <1>6, <2>1 DEF SendBuffered, TypeOK, Bodies
  <2>3. errc' \in Seq({"nil", "error"}) /\ Len(errc') <= ErrcCap
    <3>1. errc' \in {<<"nil">>, <<"nil", "nil", "nil">>, <<"error", "nil", "nil">>}
      BY <2>1
    <3>2. Len(errc') <= ErrcCap
      BY <1>6 DEF SendBuffered
    <3>3. CASE errc' = <<"nil">>
      BY <3>2, <3>3
    <3>4. CASE errc' = <<"nil", "nil", "nil">>
      BY <3>2, <3>4
    <3>5. CASE errc' = <<"error", "nil", "nil">>
      BY <3>2, <3>5
    <3>6. QED
      BY <3>1, <3>3, <3>4, <3>5
  <2>4. pc' \in {"idle", "poll"} /\ res' \in {res, "error"} /\ pending' \in {pending, "waiting"}
    BY <2>1, <2>2, HostMoves
  <2>5. QED
    BY <1>0, <1>6, <2>2, <2>3, <2>4 DEF SendBuffered, TypeOK
<1>7. CASE SendHalfBuilt
  BY <1>0, <1>7 DEF SendHalfBuilt, Panics, copyVars, TypeOK
<1>8. CASE PollCancelled
  BY <1>0, <1>8 DEF PollCancelled, Return, reqVars, copyVars, TypeOK
<1>9. CASE PollErrc
  BY <1>0, <1>9 DEF PollErrc, Return, reqVars, TypeOK, ErrcCap
<1>10. CASE Poll
  BY <1>0, <1>10 DEF Poll, Polled, Return, reqVars, copyVars, TypeOK
<1>11. CASE WakeUp
  BY <1>0, <1>11 DEF WakeUp, reqVars, copyVars, TypeOK
<1>12. CASE CopySome
  <2>1. body' \in Bodies
    BY <1>12 DEF CopySome, TypeOK, Bodies
  <2>2. QED
    BY <1>0, <1>12, <2>1 DEF CopySome, CopyUnchanged, reqVars, TypeOK
<1>13. CASE CopyEnds
  <2>1. body' \in Bodies /\ copy' \in [at : CopyStates, failed : BOOLEAN]
    <3>1. body' \in {body, [body EXCEPT !.written = "all"]}
      BY <1>13 DEF CopyEnds
    <3>2. \E f \in BOOLEAN : copy' = [at |-> "closing", failed |-> f]
      BY <1>13 DEF CopyEnds
    <3>3. QED
      BY <3>1, <3>2 DEF TypeOK, Bodies, CopyStates
  <2>2. errc' \in Seq({"nil", "error"}) /\ Len(errc') <= ErrcCap
    <3>1. \E m \in {"nil", "error"} : Report(m)
      BY <1>13 DEF CopyEnds
    <3>2. QED
      BY <3>1 DEF Report, TypeOK, ErrcCap
  <2>3. QED
    BY <1>0, <1>13, <2>1, <2>2 DEF CopyEnds, CopyUnchanged, reqVars, TypeOK
<1>14. CASE CloseUserBody
  BY <1>0, <1>14 DEF CloseUserBody, Report, CopyUnchanged, reqVars, TypeOK, CopyStates, ErrcCap
<1>15. CASE EndBody
  <2>1. \E m \in {"nil", "error"} : Report(m)
    BY <1>15 DEF EndBody, End
  <2>2. errc' \in Seq({"nil", "error"}) /\ Len(errc') <= ErrcCap
    BY <2>1 DEF Report, TypeOK, ErrcCap
  <2>3. copy' \in [at : CopyStates, failed : BOOLEAN]
    BY <1>15 DEF EndBody, TypeOK, CopyStates
  <2>4. body' \in Bodies
    BY <1>15 DEF EndBody, End, TypeOK, Bodies
  <2>5. QED
    BY <1>0, <1>15, <2>2, <2>3, <2>4 DEF EndBody, CopyUnchanged, reqVars, TypeOK
<1>16. CASE BackendEnds
  BY <1>0, <1>16 DEF BackendEnds, reqVars, copyVars, TypeOK
<1>17. CASE Cancel
  BY <1>0, <1>17 DEF Cancel, reqVars, copyVars, TypeOK
<1>18. CASE UNCHANGED vars
  BY <1>18 DEF vars, TypeOK
<1>19. QED
  BY <1>1, <1>2, <1>3, <1>4, <1>5, <1>6, <1>7, <1>8, <1>9, <1>10, <1>11, <1>12, <1>13, <1>14,
     <1>15, <1>16, <1>17, <1>18 DEF Next, SendStep, CopyStep

\* What there is of the host's request.
LEMMA HalfBuiltKeeps ==
  ASSUME TypeOK, HalfBuiltInv, [Next]_vars
  PROVE  HalfBuiltInv'
<1> USE MaxCallsAssumption
<1>1. CASE Call
  BY <1>1 DEF Call, Return, reqVars, HalfBuiltInv, Awaiting, TypeOK
<1>2. CASE Build
  BY <1>2 DEF Build, ConstructFails, Return, HalfBuiltInv, Awaiting
<1>3. CASE SendToImageOpto
  BY <1>3, HalfIsRequest DEF SendToImageOpto, Panics, Return, reqVars, HalfBuiltInv, Awaiting
<1>4. CASE Route
  <2>1. CASE ToGuestCache /\ guestOn /\ ~shape.bypass /\ UNCHANGED guestOn
    BY <1>4, <2>1, GuestMoves DEF Route, HalfBuiltInv, Awaiting
  <2>2. CASE ToHost \/ Return("unsupported") \/ Return("error")
    BY <1>4, <2>2 DEF Route, ToHost, Return, HalfBuiltInv, Awaiting
  <2>3. QED
    BY <1>4, <2>1, <2>2 DEF Route
<1>5. CASE SendStreaming
  <2>1. pc' \in {"idle", "poll"}
    BY <1>5, HostMoves DEF SendStreaming
  <2>2. QED
    BY <1>5, <2>1 DEF SendStreaming, HalfBuiltInv, Awaiting
<1>6. CASE SendBuffered
  <2>1. pc' \in {"idle", "poll"}
    BY <1>6 DEF SendBuffered, Started, NotStarted, Return
  <2>2. QED
    BY <1>6, <2>1 DEF SendBuffered, HalfBuiltInv, Awaiting
<1>7. CASE SendHalfBuilt
  BY <1>7, HalfIsRequest DEF SendHalfBuilt, Panics, HalfBuiltInv
<1>8. CASE PollCancelled
  BY <1>8 DEF PollCancelled, Return, reqVars, HalfBuiltInv, Awaiting
<1>9. CASE PollErrc
  BY <1>9 DEF PollErrc, Return, reqVars, HalfBuiltInv, Awaiting
<1>10. CASE Poll
  BY <1>10 DEF Poll, Polled, Return, reqVars, HalfBuiltInv, Awaiting
<1>11. CASE WakeUp
  BY <1>11 DEF WakeUp, reqVars, HalfBuiltInv, Awaiting
<1>12. CASE CopySome
  BY <1>12 DEF CopySome, CopyUnchanged, reqVars, HalfBuiltInv
<1>13. CASE CopyEnds
  BY <1>13 DEF CopyEnds, CopyUnchanged, reqVars, HalfBuiltInv
<1>14. CASE CloseUserBody
  BY <1>14 DEF CloseUserBody, CopyUnchanged, reqVars, HalfBuiltInv
<1>15. CASE EndBody
  BY <1>15 DEF EndBody, CopyUnchanged, reqVars, HalfBuiltInv
<1>16. CASE BackendEnds
  BY <1>16 DEF BackendEnds, reqVars, HalfBuiltInv
<1>17. CASE Cancel
  BY <1>17 DEF Cancel, reqVars, HalfBuiltInv
<1>18. CASE UNCHANGED vars
  BY <1>18 DEF vars, HalfBuiltInv
<1>19. QED
  BY <1>1, <1>2, <1>3, <1>4, <1>5, <1>6, <1>7, <1>8, <1>9, <1>10, <1>11, <1>12, <1>13, <1>14,
     <1>15, <1>16, <1>17, <1>18 DEF Next, SendStep, CopyStep

\* One request a call, and one call less if a call has failed half way.
LEMMA OnceKeeps ==
  ASSUME TypeOK, HalfBuiltInv, OnceInv, [Next]_vars
  PROVE  OnceInv'
<1> USE MaxCallsAssumption
<1>1. CASE Sending
  <2>1. /\ WireMoves
        /\ out' # out => pc' \notin Preparing /\ UNCHANGED <<abi, guestOn>>
        /\ pc \in {"route", "host"} /\ UNCHANGED <<calls, shape>> /\ (pc = "host" => sent')
    BY <1>1, SendingMoves
  <2>2. Len(out) < calls /\ (Partial => Len(out) + 1 < calls) /\ ~sent
    BY <2>1 DEF OnceInv, Preparing
  <2>3. Len(out') = Len(out) \/ (Len(out') = Len(out) + 1 /\ pc' \notin Preparing)
    <3>1. CASE UNCHANGED out
      BY <3>1
    <3>2. CASE \E e : Sends(e)
      <4>1. PICK e : out' = Append(out, e) /\ out \in Seq(Requests)
        BY <3>2 DEF Sends, TypeOK
      <4>2. Len(out') = Len(out) + 1
        BY <4>1
      <4>3. QED
        BY <2>1, <4>2
    <3>3. QED
      BY <2>1, <3>1, <3>2 DEF WireMoves
  <2>4. UNCHANGED abi /\ (Partial' <=> Partial)
    BY <1>1 DEF Sending, SendToImageOpto, Route, SendStreaming, SendBuffered, reqVars, Partial
  <2>5. /\ pc' \in Preparing => pc' = "host" /\ pc = "route" /\ ~sent'
        /\ pc' \in Awaiting => sent'
        /\ pc' = "host" /\ shape.hooks => shape.bypass \/ ~guestOn'
    <3>1. CASE SendToImageOpto
      BY <3>1, <2>2 DEF SendToImageOpto, Panics, Return, reqVars, Preparing, Awaiting
    <3>2. CASE Route /\ ToGuestCache
      BY <3>2, GuestMoves DEF Preparing, Awaiting
    <3>3. CASE Route /\ ~ToGuestCache
      BY <3>3, <2>2 DEF Route, ToHost, Return, Preparing, Awaiting
    <3>4. CASE SendStreaming
      BY <3>4 DEF SendStreaming, Started, NotStarted, Return, Preparing, Awaiting
    <3>5. CASE SendBuffered
      BY <3>5 DEF SendBuffered, Started, NotStarted, Return, Preparing, Awaiting
    <3>6. QED
      BY <1>1, <3>1, <3>2, <3>3, <3>4, <3>5 DEF Sending
  <2>6. Len(out) \in Nat /\ calls \in Nat
    BY DEF TypeOK
  <2>7. QED
    BY <2>1, <2>2, <2>3, <2>4, <2>5, <2>6 DEF OnceInv
<1>2. CASE ~Sending
  <2>1. UNCHANGED wire
    BY <1>2, OthersAreQuiet
  <2>2. CASE Call
    BY <2>1, <2>2 DEF Call, Return, reqVars, wire, OnceInv, Partial, Preparing, Awaiting, TypeOK
  <2>3. CASE Build
    BY <2>1, <2>3 DEF Build, ConstructFails, Return, wire, OnceInv, Partial, Preparing, Awaiting,
       TypeOK
  <2>4. CASE SendHalfBuilt
    BY <2>1, <2>4 DEF SendHalfBuilt, Panics, wire, OnceInv, Partial, Preparing, Awaiting
  <2>5. CASE PollCancelled \/ PollErrc \/ Poll \/ WakeUp
    <3>1. /\ pc \in Awaiting /\ pc' \in {"poll", "sleep", "idle"}
          /\ UNCHANGED <<shape, sent, abi, guestOn, calls, out>>
      BY <2>5 DEF PollCancelled, PollErrc, Poll, Polled, WakeUp, Return, reqVars, wire, Awaiting
    <3>2. QED
      BY <3>1 DEF OnceInv, Partial, Preparing, Awaiting
  <2>6. CASE CopyStep \/ BackendEnds \/ Cancel \/ UNCHANGED vars
    <3>1. UNCHANGED <<shape, sent, abi, guestOn, calls, pc, out>>
      BY <2>6 DEF CopyStep, CopySome, CopyEnds, CloseUserBody, EndBody, CopyUnchanged, BackendEnds,
         Cancel, reqVars, wire, vars
    <3>2. QED
      BY <3>1 DEF OnceInv, Partial
  <2>7. QED
    BY <1>2, <2>2, <2>3, <2>4, <2>5, <2>6 DEF Next, SendStep, Sending
<1>3. QED
  BY <1>1, <1>2

\* What is on the wire stays accounted for.
LEMMA OutKeeps ==
  ASSUME TypeOK, HalfBuiltInv, OnceInv, OutInv, [Next]_vars
  PROVE  OutInv'
<1>1. /\ guestOn' => guestOn
      /\ UNCHANGED shape
      /\ Partial => Partial'
      /\ sent => sent'
  <2>1. (guestOn' => guestOn) /\ UNCHANGED shape /\ (sent => sent')
    BY DEF Next, SendStep, CopyStep, Call, Build, SendToImageOpto, Route, SendStreaming, SendBuffered,
       SendHalfBuilt, PollCancelled, PollErrc, Poll, WakeUp, CopySome, CopyEnds, CloseUserBody,
       EndBody, CopyUnchanged, BackendEnds, Cancel, vars, reqVars
  <2>2. UNCHANGED abi \/ abi = {}
    BY DEF Next, SendStep, CopyStep, Call, Build, SendToImageOpto, Route, SendStreaming, SendBuffered,
       SendHalfBuilt, PollCancelled, PollErrc, Poll, WakeUp, CopySome, CopyEnds, CloseUserBody,
       EndBody, CopyUnchanged, BackendEnds, Cancel, vars, reqVars
  <2>3. QED
    BY <2>1, <2>2 DEF Partial
<1>2. CASE UNCHANGED wire
  <2>1. SUFFICES ASSUME NEW i \in 1..Len(out) PROVE Accounted(i)'
    BY <1>2 DEF wire, OutInv
  <2>2. Accounted(i)
    BY DEF OutInv
  <2>3. QED
    BY <1>1, <1>2, <2>2 DEF wire, Accounted
<1>3. CASE Sending
  <2>1. /\ WireMoves
        /\ out' # out => pc' \notin Preparing /\ UNCHANGED <<abi, guestOn>>
        /\ pc \in {"route", "host"} /\ UNCHANGED <<calls, shape>> /\ (pc = "host" => sent')
    BY <1>3, SendingMoves
  <2>2. ~sent /\ abi # {} /\ out \in Seq(Requests)
    BY <2>1 DEF OnceInv, Preparing, HalfBuiltInv, TypeOK
  <2>3. CASE UNCHANGED out
    <3>1. SUFFICES ASSUME NEW i \in 1..Len(out) PROVE Accounted(i)'
      BY <2>3 DEF OutInv
    <3>2. Accounted(i)
      BY DEF OutInv
    <3>3. QED
      BY <1>1, <2>1, <2>3, <3>2 DEF WireMoves, Accounted
  <2>4. CASE \E e : Sends(e)
    <3>1. PICK e : Sends(e)
      BY <2>4
    <3>2. out' = Append(out, e) /\ out' # out
      <4>1. out' = Append(out, e) /\ Len(Append(out, e)) = Len(out) + 1 /\ Len(out) \in Nat
        BY <2>2, <3>1 DEF Sends
      <4>2. QED
        BY <4>1
    <3>3. SUFFICES ASSUME NEW i \in 1..Len(out) + 1 PROVE Accounted(i)'
      BY <2>2, <3>2 DEF OutInv
    <3>4. CASE i \in 1..Len(out)
      <4>1. Accounted(i) /\ out'[i] = out[i]
        BY <2>2, <3>2, <3>4 DEF OutInv
      <4>2. QED
        BY <1>1, <2>1, <2>2, <4>1 DEF WireMoves, Accounted
    <3>5. CASE i = Len(out) + 1
      <4>1. out'[i] = e /\ Len(out') = i
        BY <2>2, <3>2, <3>5
      <4>2. UNCHANGED <<abi, guestOn, shape>> /\ (pc = "host" => sent')
        BY <2>1, <3>2
      <4>3. ~e.options => Partial'
        BY <2>2, <3>1, <4>2 DEF Sends, Partial
      <4>4. e.by = "host" => sent' /\ (shape.hooks => shape.bypass \/ ~guestOn) /\
                             (e.body = "none" => spent')
        BY <2>1, <3>1, <4>2 DEF Sends, OnceInv, WireMoves
      <4>5. QED
        BY <4>1, <4>2, <4>3, <4>4 DEF Accounted
    <3>6. QED
      BY <2>2, <3>4, <3>5
  <2>5. QED
    BY <2>1, <2>3, <2>4 DEF WireMoves
<1>4. QED
  BY <1>2, <1>3, OthersAreQuiet

\* The copying and its reports.
LEMMA CopyKeeps ==
  ASSUME TypeOK, OnceInv, CopyInv, [Next]_vars
  PROVE  CopyInv'
<1>1. CASE Call
  BY <1>1 DEF Call, Return, reqVars, copyVars, wire, CopyInv, Streaming, Awaiting
<1>2. CASE Build
  BY <1>2 DEF Build, ConstructFails, Return, copyVars, wire, CopyInv, Streaming, Awaiting
<1>3. CASE SendToImageOpto
  <2>1. pc' \in {"idle", "panic"} /\ ~sent /\ UNCHANGED <<shape, sent, copyVars>>
    BY <1>3 DEF SendToImageOpto, Panics, Return, reqVars, OnceInv, Preparing
  <2>2. QED
    BY <2>1 DEF copyVars, CopyInv, Streaming, Awaiting
<1>4. CASE Route
  <2>1. pc' \in {"idle", "panic", "host"}
    BY <1>4, GuestMoves DEF Route, ToHost, Return
  <2>2. ~sent /\ UNCHANGED <<shape, sent, copyVars>>
    BY <1>4 DEF Route, OnceInv, Preparing
  <2>3. QED
    BY <2>1, <2>2 DEF copyVars, CopyInv, Streaming, Awaiting
<1>5. CASE SendStreaming
  <2>1. UNCHANGED spent /\ ~sent
    BY <1>5, HostMoves DEF SendStreaming, OnceInv, Preparing
  <2>2. QED
    BY <1>5, <2>1 DEF SendStreaming, CopyInv, Streaming, Reports
<1>6. CASE SendBuffered
  <2>1. PICK c \in CopyResults :
          /\ c[1] \in {"none", "part", "all"} /\ c[2] \in {"nil", "error"}
          /\ c[1] = "none" => spent
          /\ c[1] = "part" => IsReader /\ (spent \/ c[2] = "error")
          /\ body' = [body EXCEPT !.written = c[1]]
          /\ errc' = IF IsReader THEN <<c[2], "nil", "nil">> ELSE <<"nil">>
          /\ Started(c[1]) \/ NotStarted
    BY <1>6, BufferedCopy
  <2>2. /\ pc = "host" /\ ~Streaming /\ sent' /\ ~sent
        /\ UNCHANGED <<shape, copy>> /\ UNCHANGED spent
    BY <1>6, <2>1 DEF SendBuffered, Started, NotStarted, wire, OnceInv, Preparing
  <2>3. body'.written = c[1] /\ body'.end = body.end
    BY <2>1 DEF TypeOK, Bodies
  <2>4. c[1] # "all" /\ ~spent => Len(errc') = 3 /\ errc'[1] = "error"
    BY <2>1
  <2>5. copy.at = "off"
    BY <2>2 DEF CopyInv
  <2>6. QED
    BY <2>2, <2>3, <2>4, <2>5 DEF CopyInv, Streaming, Reports
<1>7. CASE SendHalfBuilt
  BY <1>7 DEF SendHalfBuilt, Panics, copyVars, wire, CopyInv, Streaming, Awaiting
<1>8. CASE PollCancelled
  BY <1>8 DEF PollCancelled, reqVars, copyVars, wire, CopyInv, Streaming, Awaiting
<1>9. CASE PollErrc
  BY <1>9, ErrorStays DEF PollErrc, Return, reqVars, wire, CopyInv, Streaming, Reports, Awaiting, TypeOK
<1>10. CASE Poll
  BY <1>10 DEF Poll, reqVars, copyVars, wire, CopyInv, Streaming, Awaiting
<1>11. CASE WakeUp
  BY <1>11 DEF WakeUp, reqVars, copyVars, wire, CopyInv, Streaming, Awaiting
<1>12. CASE CopySome
  BY <1>12 DEF CopySome, CopyUnchanged, reqVars, wire, CopyInv, Streaming
<1>13. CASE CopyEnds
  BY <1>13, ErrorStays DEF CopyEnds, Report, CopyUnchanged, reqVars, wire, CopyInv, Streaming, Reports,
     TypeOK, Bodies
<1>14. CASE CloseUserBody
  BY <1>14, ErrorStays DEF CloseUserBody, Report, CopyUnchanged, reqVars, wire, CopyInv, Streaming,
     Reports
<1>15. CASE EndBody
  BY <1>15, ErrorStays DEF EndBody, End, Report, CopyUnchanged, reqVars, wire, CopyInv, Streaming,
     Reports, TypeOK, Bodies
<1>16. CASE BackendEnds
  BY <1>16 DEF BackendEnds, reqVars, copyVars, wire, CopyInv, Streaming
<1>17. CASE Cancel
  BY <1>17 DEF Cancel, reqVars, copyVars, wire, CopyInv, Streaming
<1>18. CASE UNCHANGED vars
  BY <1>18 DEF vars, CopyInv, Streaming
<1>19. QED
  BY <1>1, <1>2, <1>3, <1>4, <1>5, <1>6, <1>7, <1>8, <1>9, <1>10, <1>11, <1>12, <1>13, <1>14,
     <1>15, <1>16, <1>17, <1>18 DEF Next, SendStep, CopyStep

\* However often Send is called on a Request, the host's half-built request, the
\* error channel, the goroutine of copyBody and the requests that went out agree.
THEOREM Invariance == Spec => []IInv
<1>1. IInv /\ [Next]_vars => IInv'
  BY TypeKeeps, HalfBuiltKeeps, OnceKeeps, OutKeeps, CopyKeeps DEF IInv
<1>2. QED
  BY InitInv, <1>1, PTL DEF Spec

\* Every variable of Send keeps its type: no call sends more than one request,
\* and the error channel never holds more than its capacity.
THEOREM TypeCorrect == Spec => []TypeOK
<1>1. IInv => TypeOK
  BY DEF IInv
<1>2. QED
  BY <1>1, Invariance, PTL

\* A streamed body whose copy failed is never ended as a complete one (copyBody:
\* Close after a copy, Abandon after a failed one).  Bodies of known size, which
\* are sent whatever their copy gave, are not in it, nor are readers that an
\* earlier Send has used up.
THEOREM TruncationIsVisible == Spec => []TruncationVisible
<1>1. IInv => TruncationVisible
  BY DEF IInv, CopyInv, TruncationVisible
<1>2. QED
  BY <1>1, Invariance, PTL

\* What goes out to the backend is accounted for, over every history of failed
\* and repeated calls of Send on a Request.
THEOREM EverySendIsAccounted == Spec => []SendsAccounted
<1>1. IInv => SendsAccounted
  BY MaxCallsAssumption DEF IInv, TypeOK, HalfBuiltInv, OnceInv, OutInv, Accounted, SendsAccounted
<1>2. QED
  BY <1>1, Invariance, PTL

\* A response is returned only if nothing that copyBody reported says that the
\* body did not get through (pendingToABIResponse).
THEOREM ReportsAreReadFirst == Spec => ReportsComeFirst
<1> DEFINE Careful == pc = "poll" /\ pc' = "idle" /\ res' = "response" =>
                        ~copy.failed /\ (~Streaming => body.written = "all" \/ spent)
<1>1. IInv /\ [Next]_vars => Careful
  <2> SUFFICES ASSUME IInv, [Next]_vars, pc = "poll", pc' = "idle", res' = "response"
               PROVE  ~copy.failed /\ (~Streaming => body.written = "all" \/ spent)
    OBVIOUS
  <2>1. PollCancelled \/ PollErrc \/ Poll
    BY DEF Next, SendStep, CopyStep, vars, Call, Build, SendToImageOpto, Route, SendStreaming,
       SendBuffered, SendHalfBuilt, WakeUp, CopySome, CopyEnds, CloseUserBody, EndBody,
       CopyUnchanged, BackendEnds, Cancel
  <2>2. errc = <<>>
    BY <2>1 DEF PollCancelled, PollErrc, Poll, Return
  <2>3. QED
    BY <2>2 DEF IInv, CopyInv, Awaiting
<1>2. QED
  BY <1>1, Invariance, PTL DEF Spec, ReportsComeFirst

\* The error channel is as large as the comment of sendToHost says it has to be
\* ("buffered to the max number of writes in copyBody()"): a goroutine that
\* has a report to make finds room for it, whether or not anybody reads them.
ReportsFit == copy.at \in {"copying", "closing", "ending"} => Len(errc) < ErrcCap

\* No report of copyBody's goroutine ever waits for a reader of the channel.
THEOREM ReportsAlwaysFit == Spec => []ReportsFit
<1>1. IInv => ReportsFit
  BY DEF IInv, CopyInv, Reports, ErrcCap, ReportsFit
<1>2. QED
  BY <1>1, Invariance, PTL
=============================================================================
