---------------------------- MODULE HeaderFields ----------------------------
(***************************************************************************)
(* Header and trailer fields of a host's request, response or body, and    *)
(* how newClientRequest, newResponse and Response.Trailers read them into  *)
(* a Header: an iterator (Values) over the names and, for each name, one   *)
(* over its values.  An iterator asks the host for as many whole values as *)
(* its buffer holds, and makes the buffer larger when not one fits.        *)
(***************************************************************************)
EXTENDS Integers, Sequences, FiniteSets, SequencesExt

CONSTANTS Names,        \* the names of fields
          Vals,         \* the values of a field
          Size,         \* the bytes a name or value takes, its terminator included
          Medium, Large, \* DefaultMediumBufLen, DefaultLargeBufLen
          None,         \* not there
          MaxValues     \* bound: the values of a field

ASSUME BufferAssumption == Medium \in Nat /\ Large \in Nat /\ MaxValues \in Nat
ASSUME NamesAssumption == IsFiniteSet(Names) /\ None \notin Names
ASSUME SizeAssumption == Size \in [Names \cup Vals -> Nat \ {0}]

VARIABLES handle,       \* what the fields belong to
          fields,       \* the host's values of each name
          ready,        \* the host has them all: Status Again until then
          iter,         \* the iterators over the names and over a name's values
          pc,           \* the iterator the program is at, or "idle"
          current,      \* the name whose values are read
          header,       \* the Header being built
          result        \* "read" when it is returned, or why it is not

vars == <<handle, fields, ready, iter, pc, current, header, result>>

Handles == {"request", "response", "body"}
Lists == {"names", "values"}
Errors == {"error", "not_ready"}

Values == [cap : Nat, cursor : Nat, pending : Seq(Names \cup Vals), finished : BOOLEAN]

TypeOK ==
  /\ handle \in Handles /\ fields \in [Names -> Seq(Vals)]
  /\ ready \in BOOLEAN
  /\ iter \in [Lists -> Values]
  /\ pc \in Lists \cup {"idle"}
  /\ current \in Names \cup {None}
  /\ header \in [Names -> Seq(Vals)]
  /\ result \in Errors \cup {"read", "none"}

Empty == [n \in Names |-> <<>>]

\* newValues.
newValues(cap) == [cap |-> cap, cursor |-> 0, pending |-> <<>>, finished |-> FALSE]

\* The first buffers of the iterators over header fields and trailers.
RequestNames == Medium
RequestValues == Large
ResponseNames == Medium
ResponseValues == Large
TrailerNames == Medium
TrailerValues == Large

Buffer == CASE handle = "request" -> [names |-> RequestNames, values |-> RequestValues]
            [] handle = "response" -> [names |-> ResponseNames, values |-> ResponseValues]
            [] handle = "body" -> [names |-> TrailerNames, values |-> TrailerValues]

Init ==
  /\ handle \in Handles /\ fields = Empty
  /\ ready \in BOOLEAN /\ (handle # "body" => ready)
  /\ iter = [x \in Lists |-> newValues(0)] /\ pc = "idle" /\ current = None
  /\ header = Empty /\ result = "none"
-----------------------------------------------------------------------------
(***************************************************************************)
(* The fields change as long as nobody has read them.                      *)
(***************************************************************************)
Write(n, vs) ==
  /\ pc = "idle" /\ result # "read" /\ Len(vs) <= MaxValues
  /\ fields' = [fields EXCEPT ![n] = vs]
  /\ UNCHANGED <<handle, ready, iter, pc, current, header, result>>

\* SetHeaderValues, InsertHeader, AppendHeader, RemoveHeader.
HeaderWrites(n) ==
  {<<v, w>> : v, w \in Vals} \cup {<<v>> : v \in Vals} \cup {Append(fields[n], v) : v \in Vals} \cup {<<>>}

RequestWrites(n) == handle = "request" /\ \E vs \in HeaderWrites(n) : Write(n, vs)
ResponseWrites(n) == handle = "response" /\ \E vs \in HeaderWrites(n) : Write(n, vs)
TrailerAppend(n) == handle = "body" /\ \E v \in Vals : Write(n, Append(fields[n], v))

\* The host has the whole body, and the trailers with it.
BodyEnds ==
  /\ ~ready /\ ready' = TRUE
  /\ UNCHANGED <<handle, fields, iter, pc, current, header, result>>
-----------------------------------------------------------------------------
(***************************************************************************)
(* The hostcall: it starts at the cursor and writes whole values.          *)
(***************************************************************************)
Listed == {n \in Names : fields[n] # <<>>}

\* Each name once, in an order of the host's; the values as they were written.
List(x) == IF x = "names" THEN SetToSeq(Listed) ELSE fields[current]

Unread(x) == SubSeq(List(x), iter[x].cursor + 1, Len(List(x)))

Bytes(seq) == FoldLeft(LAMBDA sum, v : sum + Size[v], 0, seq)

\* Next asks the host when nothing is pending.
Asks(x) == pc = x /\ iter[x].pending = <<>> /\ ~iter[x].finished

\* Mutant: the buffer stays as it is.
TooSmallTriesAgain(x) ==
  /\ Asks(x) /\ ready
  /\ Unread(x) # <<>> /\ Size[Head(Unread(x))] > iter[x].cap
  /\ UNCHANGED vars

\* nextValue, Status BufLen: not one value fits, the host says what would.
TooSmall(x) ==
  /\ Asks(x) /\ ready
  /\ Unread(x) # <<>> /\ Size[Head(Unread(x))] > iter[x].cap
  /\ iter' = [iter EXCEPT ![x].cap = Size[Head(Unread(x))]]
  /\ UNCHANGED <<handle, fields, ready, pc, current, header, result>>

\* Mutant: the cursor the host returns is not kept.
WritesFromStart(x, k, done) ==
  /\ Asks(x) /\ ready
  /\ Unread(x) # <<>> => k > 0
  /\ Bytes(SubSeq(Unread(x), 1, k)) <= iter[x].cap
  /\ done => k = Len(Unread(x))
  /\ k = 0 => done
  /\ iter' = [iter EXCEPT ![x].pending = SubSeq(Unread(x), 1, k), ![x].finished = done]
  /\ UNCHANGED <<handle, fields, ready, pc, current, header, result>>

\* nextValue, Status OK: k values, one at least if there is one; the host says
\* that it is done with the last of them, or when it is asked once more.
Writes(x, k, done) ==
  /\ Asks(x) /\ ready
  /\ Unread(x) # <<>> => k > 0
  /\ Bytes(SubSeq(Unread(x), 1, k)) <= iter[x].cap
  /\ done => k = Len(Unread(x))
  /\ k = 0 => done
  /\ iter' = [iter EXCEPT ![x].pending = SubSeq(Unread(x), 1, k), ![x].finished = done,
                          ![x].cursor = @ + k]
  /\ UNCHANGED <<handle, fields, ready, pc, current, header, result>>

\* nextValue, any other status, or no terminator where the host is not done:
\* nothing is made of what was read so far.
Fails(x) ==
  /\ Asks(x)
  /\ result' = "error" /\ pc' = "idle"
  /\ UNCHANGED <<handle, fields, ready, iter, current, header>>

\* Status Again for the names: ErrTrailersNotReady.
NotReady ==
  /\ Asks("names") /\ ~ready
  /\ result' = "not_ready" /\ pc' = "idle"
  /\ UNCHANGED <<handle, fields, ready, iter, current, header>>
-----------------------------------------------------------------------------
(***************************************************************************)
(* The two loops.  Trailers returns what it has read before.               *)
(***************************************************************************)
Start ==
  /\ pc = "idle" /\ result # "read"
  /\ pc' = "names" /\ header' = Empty
  /\ iter' = [iter EXCEPT !["names"] = newValues(Buffer.names)]
  /\ UNCHANGED <<handle, fields, ready, current, result>>

NextName ==
  /\ pc = "names" /\ iter["names"].pending # <<>>
  /\ current' = Head(iter["names"].pending) /\ pc' = "values"
  /\ iter' = [iter EXCEPT !["names"].pending = Tail(@), !["values"] = newValues(Buffer.values)]
  /\ UNCHANGED <<handle, fields, ready, header, result>>

NextValue ==
  /\ pc = "values" /\ iter["values"].pending # <<>>
  /\ header' = [header EXCEPT ![current] = Append(@, Head(iter["values"].pending))]
  /\ iter' = [iter EXCEPT !["values"].pending = Tail(@)]
  /\ UNCHANGED <<handle, fields, ready, pc, current, result>>

\* Mutant: Next returns false as soon as the host is done.
NoMoreAtOnce(x) == pc = x /\ iter[x].finished

\* Next returns false, and Err nil.
NoMore(x) == pc = x /\ iter[x].pending = <<>> /\ iter[x].finished

EndOfValues ==
  /\ NoMore("values")
  /\ pc' = "names"
  /\ UNCHANGED <<handle, fields, ready, iter, current, header, result>>

EndOfNames ==
  /\ NoMore("names")
  /\ pc' = "idle" /\ result' = "read"
  /\ UNCHANGED <<handle, fields, ready, iter, current, header>>

HostAnswers(x) ==
  /\ Asks(x)
  /\ \/ TooSmall(x)
     \/ \E k \in 0 .. Len(Unread(x)), done \in BOOLEAN : Writes(x, k, done)

Read ==
  \/ \E x \in Lists : HostAnswers(x)
  \/ NotReady \/ NextName \/ NextValue \/ EndOfValues \/ EndOfNames

Next ==
  \/ \E n \in Names : RequestWrites(n) \/ ResponseWrites(n) \/ TrailerAppend(n)
  \/ \E x \in Lists : Fails(x)
  \/ BodyEnds \/ Start \/ Read

Spec == Init /\ [][Next]_vars

\* The program goes on reading, and every hostcall returns; none has to fail.
FairSpec == Spec /\ WF_vars(Read)
-----------------------------------------------------------------------------
(***************************************************************************)
(* Properties.                                                             *)
(***************************************************************************)

\* A Header that was read has every field of the host with every value, in
\* order and once, however the values fell into the buffers.
HeaderComplete == result = "read" => header = fields

\* While a field is read, what is in the Header, what waits in the buffer and
\* what the cursor has not passed make up its values: no retry with a larger
\* buffer and no further hostcall loses or repeats one.
NothingLostOrTwice ==
  pc = "values" => header[current] \o iter["values"].pending \o Unread("values") = fields[current]

\* Reading comes to an end, with a Header or an error.
ReadEnds == pc # "idle" ~> pc = "idle"
=============================================================================
