----------------------------- MODULE HostReads ------------------------------
(***************************************************************************)
(* Goroutines that read attributes of the host.  The host's value may      *)
(* change between two attempts of one read, a buffer may be too small for  *)
(* it, and the values of an edge dictionary all go through the one buffer  *)
(* its mutex protects.                                                     *)
(***************************************************************************)
EXTENDS HostAttributes

CONSTANTS Readers,      \* goroutines
          DictReaders,  \* bound: the ones that only read the dictionary
          Lengths,      \* bound: the lengths of values
          Absent,       \* the host has no value
          Zero, Unknown, \* Go's zero value in a result, and BotCategoryUnknown
          Free          \* nobody holds the mutex

ASSUME ReaderAssumption == DictReaders \subseteq Readers /\ Free \notin Readers
ASSUME LengthAssumption == Lengths \subseteq 1 .. Longest

VARIABLES pc,       \* pc[r]: where the goroutine is
          plan,     \* plan[r]: what it reads
          got,      \* got[r]: the value each step gave, and (ghost) what the host had for it
          err,      \* err[r]: the error it returns
          cap,      \* cap[r]: the capacity of the buffer of the next call
          now,      \* now[r]: what the host has for the step's attribute
          asked,    \* asked[r]: ghost: what it had when the dictionary was read
          mu,       \* the dictionary's mutex
          valueBuf  \* and the value in its buffer

readsVars == <<pc, plan, got, err, cap, now, asked, mu, valueBuf>>

Held(attr) == {Absent} \cup (CASE attr.kind \in {"scalar", "category"} -> {1}
                               [] attr.kind = "flag" -> {0, 1}
                               [] OTHER -> Lengths)

PlansOf(r) == IF r \in DictReaders THEN {DictionaryGet} ELSE Plans

ReadsInit ==
  /\ pc = [r \in Readers |-> "idle"]
  /\ plan = [r \in Readers |-> <<>>]
  /\ got = [r \in Readers |-> <<>>]
  /\ err = [r \in Readers |-> "ok"]
  /\ cap = [r \in Readers |-> 0]
  /\ now = [r \in Readers |-> Absent]
  /\ asked = [r \in Readers |-> Absent]
  /\ mu = Free
  /\ valueBuf = <<Free, 0>>
-----------------------------------------------------------------------------
Step(r) == plan[r][Len(got[r]) + 1]
Attr(r) == Step(r).attr
Shares(r) == Attr(r).kind = "shared"

\* A call is made with a new buffer, for what the host has by then.
Asks(r, attr) ==
  /\ pc' = [pc EXCEPT ![r] = "asking"]
  /\ cap' = [cap EXCEPT ![r] = attr.cap]
  /\ \E v \in Held(attr) : now' = [now EXCEPT ![r] = v]

Begin(r) ==
  /\ pc[r] = "idle"
  /\ \E p \in PlansOf(r) : plan' = [plan EXCEPT ![r] = p] /\ Asks(r, p[1].attr)
  /\ UNCHANGED <<got, err, asked, mu, valueBuf>>

Ends(r) == pc' = [pc EXCEPT ![r] = "done"] /\ UNCHANGED <<cap, now>>

\* The step gives a value, and the next one follows unless there is none or
\* the value says that there is nothing more to ask for.
Gives(r, value, host) ==
  /\ got' = [got EXCEPT ![r] = Append(@, [value |-> value, host |-> host])]
  /\ IF Len(got[r]) + 1 = Len(plan[r]) \/ (Step(r).on = "false_stops" /\ value = <<r, 0>>)
     THEN Ends(r)
     ELSE Asks(r, plan[r][Len(got[r]) + 2].attr)
  /\ UNCHANGED plan

\* What BotDetection says of a value it could not get.
Lost(r) == IF Attr(r).kind = "category" /\ err[r] = "ok" THEN Unknown ELSE Zero

\* An error ends the read with nothing, or is kept while the rest is read.
Errors(r, e) ==
  IF Step(r).on = "best_effort"
  THEN /\ err' = [err EXCEPT ![r] = IF @ = "ok" THEN e ELSE @]
       /\ Gives(r, Lost(r), now[r])
  ELSE /\ err' = [err EXCEPT ![r] = e]
       /\ got' = [got EXCEPT ![r] = <<>>]
       /\ Ends(r)
       /\ UNCHANGED plan

HostChanges(r) ==
  /\ pc[r] = "asking"
  /\ \E v \in Held(Attr(r)) \ {now[r]} : now' = [now EXCEPT ![r] = v]
  /\ UNCHANGED <<pc, plan, got, err, cap, asked, mu, valueBuf>>
-----------------------------------------------------------------------------
(***************************************************************************)
(* One hostcall, with the buffer it is given.                              *)
(***************************************************************************)
Calls(r) == pc[r] = "asking" /\ ~Shares(r)

\* The value is written: all of it.  Has asks with no buffer, and only wants to
\* know that there is something.
Fits(r) ==
  /\ Calls(r)
  /\ now[r] # Absent
  /\ \/ Attr(r).kind = "probe" /\ Gives(r, <<r, 1>>, now[r])
     \/ Attr(r).kind # "probe" /\ now[r] <= cap[r] /\ Gives(r, <<r, now[r]>>, now[r])
  /\ UNCHANGED <<err, asked, mu, valueBuf>>

\* Mutant: every attempt starts with the size of the first.
GrownNot(r) == cap' = [cap EXCEPT ![r] = Attr(r).cap]

\* withAdaptiveBuffer: as long as the host now says it has to be.
Grown(r) == cap' = [cap EXCEPT ![r] = now[r]]

TooSmall(r) ==
  /\ Calls(r)
  /\ Attr(r).kind # "probe"
  /\ now[r] # Absent
  /\ now[r] > cap[r]
  /\ IF Attr(r).grows
     THEN Grown(r) /\ UNCHANGED <<pc, plan, got, err, now>>
     ELSE Errors(r, "buf_len")
  /\ UNCHANGED <<asked, mu, valueBuf>>

Missing(r) ==
  /\ Calls(r)
  /\ now[r] = Absent
  /\ CASE Attr(r).kind = "probe" -> Gives(r, <<r, 0>>, Absent) /\ UNCHANGED err
       [] Step(r).on = "optional" -> Gives(r, Zero, Absent) /\ UNCHANGED err
       [] Step(r).on = "none_stops" -> Ends(r) /\ UNCHANGED <<plan, got, err>>
       [] OTHER -> Errors(r, "none")
  /\ UNCHANGED <<asked, mu, valueBuf>>

\* Any other status, or an answer that does not parse.
Fails(r) ==
  /\ Calls(r)
  /\ Errors(r, "failed")
  /\ UNCHANGED <<asked, mu, valueBuf>>
-----------------------------------------------------------------------------
(***************************************************************************)
(* Dictionary.GetBytes.                                                    *)
(***************************************************************************)
Lock(r) ==
  /\ pc[r] = "asking" /\ Shares(r)
  /\ mu = Free
  /\ mu' = r
  /\ pc' = [pc EXCEPT ![r] = "locked"]
  /\ UNCHANGED <<plan, got, err, cap, now, asked, valueBuf>>

Unlock == mu' = Free

\* Mutant: the mutex is unlocked before the copy, not after it.
FilledUnlocked(r) ==
  /\ now[r] # Absent
  /\ now[r] <= cap[r]
  /\ valueBuf' = <<r, now[r]>>
  /\ asked' = [asked EXCEPT ![r] = now[r]]
  /\ pc' = [pc EXCEPT ![r] = "filled"]
  /\ mu' = Free
  /\ UNCHANGED <<plan, got, err, cap, now>>

\* getBytesUnlocked.
Filled(r) ==
  /\ now[r] # Absent
  /\ now[r] <= cap[r]
  /\ valueBuf' = <<r, now[r]>>
  /\ asked' = [asked EXCEPT ![r] = now[r]]
  /\ pc' = [pc EXCEPT ![r] = "filled"]
  /\ UNCHANGED <<plan, got, err, cap, now, mu>>

FillErrors(r) == {"failed"} \cup (IF now[r] = Absent THEN {"none"} ELSE {})
                            \cup (IF now[r] # Absent /\ now[r] > cap[r] THEN {"buf_len"} ELSE {})

Fill(r) ==
  /\ pc[r] = "locked"
  /\ \/ Filled(r)
     \/ \E e \in FillErrors(r) : Errors(r, e) /\ Unlock /\ UNCHANGED <<asked, valueBuf>>

\* What is in the buffer by now is copied, and the mutex unlocked.
Copy(r) ==
  /\ pc[r] = "filled"
  /\ Gives(r, valueBuf, asked[r])
  /\ asked' = [asked EXCEPT ![r] = Absent]
  /\ Unlock
  /\ UNCHANGED <<err, valueBuf>>
-----------------------------------------------------------------------------
\* The caller has its result.
Return(r) ==
  /\ pc[r] = "done"
  /\ pc' = [pc EXCEPT ![r] = "idle"]
  /\ plan' = [plan EXCEPT ![r] = <<>>]
  /\ got' = [got EXCEPT ![r] = <<>>]
  /\ err' = [err EXCEPT ![r] = "ok"]
  /\ cap' = [cap EXCEPT ![r] = 0]
  /\ now' = [now EXCEPT ![r] = Absent]
  /\ UNCHANGED <<asked, mu, valueBuf>>

HostAnswers(r) == Fits(r) \/ TooSmall(r) \/ Missing(r) \/ Fill(r) \/ Copy(r)

ReadsNext ==
  \E r \in Readers :
    Begin(r) \/ HostChanges(r) \/ HostAnswers(r) \/ Fails(r) \/ Lock(r) \/ Return(r)

ReadsSpec == ReadsInit /\ [][ReadsNext]_readsVars

\* A hostcall returns, and Go's mutex lets no goroutine wait for ever.
FairReadsSpec == ReadsSpec /\ \A r \in Readers : WF_readsVars(HostAnswers(r)) /\ SF_readsVars(Lock(r))
-----------------------------------------------------------------------------
ReadsTypeOK ==
  /\ pc \in [Readers -> {"idle", "asking", "locked", "filled", "done"}]
  /\ plan \in [Readers -> Plans \cup {<<>>}]
  /\ got \in [Readers -> Seq([value : {Zero, Unknown} \cup (Readers \X Nat), host : (0 .. Longest) \cup {Absent}])]
  /\ err \in [Readers -> {"ok", "none", "buf_len", "failed"}]
  /\ cap \in [Readers -> Nat]
  /\ now \in [Readers -> (0 .. Longest) \cup {Absent}]
  /\ asked \in [Readers -> (0 .. Longest) \cup {Absent}]
  /\ mu \in Readers \cup {Free}
  /\ valueBuf \in (Readers \cup {Free}) \X Nat

\* A value is the whole of what the host had for this reader's attribute when
\* it answered, or it is not there at all and the function may say so.
Whole(r, i) ==
  LET g == got[r][i]  s == plan[r][i]
  IN \/ s.attr.kind = "probe" /\ g.value = <<r, IF g.host = Absent THEN 0 ELSE 1>>
     \/ s.attr.kind # "probe" /\ g.host # Absent /\ g.value = <<r, g.host>>
     \/ s.on = "optional" /\ g.host = Absent /\ g.value = Zero
     \/ s.on = "best_effort" /\ err[r] # "ok" /\ g.value \in {Zero, Unknown}

\* The read stopped where it may: there was nothing to read.
Stopped(r) ==
  \/ got[r] = <<>> /\ plan[r][1].on = "none_stops"
  \/ got[r] # <<>> /\ plan[r][Len(got[r])].on = "false_stops" /\ got[r][Len(got[r])].value = <<r, 0>>

\* What the functions that read several attributes return is all or nothing
\* (newClientRequest, FastlyMeta, ResVPNProxyData...): every value is complete
\* and is the reader's own, however the host's values change between attempts
\* and whoever uses the dictionary's buffer; no value is missing without an
\* error; and a value is too long only for a buffer that cannot grow.
ResultWhole ==
  \A r \in Readers :
    /\ \A i \in DOMAIN got[r] : Whole(r, i)
    /\ pc[r] = "done" =>
         /\ Len(got[r]) = Len(plan[r]) \/ Stopped(r) \/ (err[r] # "ok" /\ got[r] = <<>>)
         /\ err[r] = "buf_len" => \E i \in DOMAIN plan[r] : ~plan[r][i].attr.grows

\* The step ends the read, brings its next value, comes nearer to it, or asks
\* again with a buffer that is longer than before and no longer than a value.
Ahead(r) ==
  \/ pc'[r] = "done"
  \/ Len(got'[r]) = Len(got[r]) + 1
  \/ /\ got'[r] = got[r] /\ cap'[r] = cap[r]
     /\ <<pc[r], pc'[r]>> \in {<<"asking", "locked">>, <<"locked", "filled">>}
  \/ /\ got'[r] = got[r] /\ pc'[r] = pc[r]
     /\ cap[r] < cap'[r] /\ cap'[r] <= Longest

\* No answer of the host is in vain, and nothing another goroutine or the host
\* does sets a read back: however often a value changes between the attempts of
\* withAdaptiveBuffer, the attempts at it are no more than a value's length.
LookupAdvances ==
  [][\A r \in Readers :
       /\ HostAnswers(r) => Ahead(r)
       /\ pc[r] \in {"asking", "locked", "filled"} =>
            Ahead(r) \/ UNCHANGED <<pc[r], plan[r], got[r], cap[r]>>]_readsVars

\* Every lookup returns, although the host's value may change for ever and two
\* goroutines use one dictionary (withAdaptiveBuffer, Dictionary.GetBytes).
LookupReturns == \A r \in Readers : (pc[r] = "asking") ~> (pc[r] = "done")
=============================================================================
