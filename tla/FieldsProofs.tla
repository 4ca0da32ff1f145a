--------------------------- MODULE FieldsProofs ----------------------------
(***************************************************************************)
(* Reading header fields and trailers loses and repeats nothing, for any   *)
(* names, values, sizes and buffers; then the fields of a dynamic backend, *)
(* for any durations, counts of probes and number of calls.                *)
(***************************************************************************)
EXTENDS HeaderFields, Backends, SequenceTheorems, FiniteSetTheorems, TLAPS

\* How many elements of a list Next has handed to the program.
Passed(x) == iter[x].cursor - Len(iter[x].pending)

\* What waits in the buffer is what the list has between Passed and the cursor.
Buffered(x) ==
  /\ iter[x].cursor <= Len(List(x)) /\ Len(iter[x].pending) <= iter[x].cursor
  /\ \A i \in 1 .. Len(iter[x].pending) : iter[x].pending[i] = List(x)[Passed(x) + i]
  /\ iter[x].finished => iter[x].cursor = Len(List(x))

\* The Header has what the host has for the names that are passed, except the
\* one it is at, and nothing for the others.
NamesInv ==
  /\ Buffered("names")
  /\ \A i \in 1 .. Len(List("names")) :
       /\ i > Passed("names") => header[List("names")[i]] = <<>>
       /\ i <= Passed("names") =>
            \/ header[List("names")[i]] = fields[List("names")[i]]
            \/ pc = "values" /\ List("names")[i] = current
  /\ \A n \in Names \ Listed : header[n] = <<>>

\* The Header has the values that are passed of the name it is at.
ValuesInv ==
  /\ Passed("names") > 0 /\ current = List("names")[Passed("names")]
  /\ Buffered("values")
  /\ Len(header[current]) = Passed("values")
  /\ \A i \in 1 .. Passed("values") : header[current][i] = fields[current][i]

IInv ==
  /\ TypeOK
  /\ result = "read" => pc = "idle" /\ header = fields
  /\ pc # "idle" => NamesInv
  /\ pc = "values" => ValuesInv
-----------------------------------------------------------------------------
(***************************************************************************)
(* Lemmas about the host's lists.                                          *)
(***************************************************************************)

\* SetToSeq lists the elements of a finite set, each of them once.
LEMMA SetToSeqLists ==
  ASSUME NEW S, IsFiniteSet(S)
  PROVE  /\ SetToSeq(S) \in Seq(S)
         /\ \A i, j \in 1 .. Len(SetToSeq(S)) : SetToSeq(S)[i] = SetToSeq(S)[j] => i = j
         /\ \A e \in S : \E i \in 1 .. Len(SetToSeq(S)) : SetToSeq(S)[i] = e
<1> DEFINE N == Cardinality(S)
<1>1. N \in Nat /\ ExistsBijection(1 .. N, S)
  BY FS_CardinalityType
<1>2. \E f \in [1 .. N -> S] : IsInjective(f)
  BY <1>1 DEF ExistsBijection, Bijection, Injection
<1>3. SetToSeq(S) \in [1 .. N -> S] /\ IsInjective(SetToSeq(S))
  BY <1>2 DEF SetToSeq
<1>4. IsFiniteSet(1 .. N) /\ Cardinality(1 .. N) = N
  BY <1>1, FS_Interval
<1>5. SetToSeq(S) \in Injection(1 .. N, S)
  BY <1>3 DEF Injection
<1>6. SetToSeq(S) \in Surjection(1 .. N, S)
  BY <1>4, <1>5, FS_Injection
<1>7. SetToSeq(S) \in Seq(S) /\ Len(SetToSeq(S)) = N /\ DOMAIN SetToSeq(S) = 1 .. N
  BY <1>1, <1>3
<1> QED
  BY <1>3, <1>6, <1>7 DEF IsInjective, Surjection

\* The list of names has every name with a value once, and no other.
LEMMA NamesAreListed ==
  ASSUME TypeOK
  PROVE  /\ List("names") \in Seq(Names)
         /\ Len(List("names")) \in Nat
         /\ \A i \in 1 .. Len(List("names")) : List("names")[i] \in Listed
         /\ \A i, j \in 1 .. Len(List("names")) : List("names")[i] = List("names")[j] => i = j
         /\ \A n \in Listed : \E i \in 1 .. Len(List("names")) : List("names")[i] = n
<1>1. Listed \subseteq Names /\ IsFiniteSet(Listed)
  BY NamesAssumption, FS_Subset DEF Listed
<1>2. List("names") = SetToSeq(Listed)
  BY DEF List
<1>3. List("names") \in Seq(Listed)
  BY <1>1, <1>2, SetToSeqLists
<1>4. List("names") \in Seq(Names)
  BY <1>1, <1>3, SeqMonotonic
<1>5. \A i \in 1 .. Len(List("names")) : List("names")[i] \in Listed
  BY <1>3, ElementOfSeq
<1>6. Len(List("names")) \in Nat
  BY <1>4
<1> QED
  BY <1>1, <1>2, <1>4, <1>5, <1>6, SetToSeqLists

\* The list an iterator is at is one of names or values.
LEMMA ListsAreSequences ==
  ASSUME TypeOK, NEW x \in Lists, x = "values" => current \in Names
  PROVE  List(x) \in Seq(Names \cup Vals)
<1>1. CASE x = "names"
  BY <1>1, NamesAreListed, SeqMonotonic
<1>2. CASE x = "values"
  <2>1. List(x) = fields[current] /\ fields[current] \in Seq(Vals)
    BY <1>2 DEF List, TypeOK
  <2> QED
    BY <2>1, SeqMonotonic
<1> QED
  BY <1>1, <1>2 DEF Lists

\* The name whose values are read is one the host listed.
LEMMA CurrentIsListed ==
  ASSUME IInv, pc = "values"
  PROVE  /\ current \in Listed /\ current \in Names
         /\ Passed("names") \in 1 .. Len(List("names"))
<1>1. Passed("names") \in Int /\ Passed("names") <= Len(List("names"))
  <2>1. iter["names"].cursor \in Nat /\ Len(iter["names"].pending) \in Nat
    BY DEF IInv, TypeOK, Values, Lists
  <2> QED
    BY <2>1, NamesAreListed DEF IInv, NamesInv, Buffered, Passed
<1>2. Passed("names") > 0 /\ current = List("names")[Passed("names")]
  BY DEF IInv, ValuesInv
<1>3. Passed("names") \in 1 .. Len(List("names"))
  BY <1>1, <1>2, NamesAreListed DEF IInv
<1> QED
  BY <1>2, <1>3, NamesAreListed DEF IInv, Listed
-----------------------------------------------------------------------------
(***************************************************************************)
(* The invariant holds at first and is kept by every action.               *)
(***************************************************************************)

\* Nothing is read at first.
LEMMA InitHolds == Init => IInv
<1> SUFFICES ASSUME Init PROVE IInv
  OBVIOUS
<1>1. <<>> \in Seq(Names \cup Vals) /\ <<>> \in Seq(Vals)
  OBVIOUS
<1>2. iter \in [Lists -> Values]
  BY <1>1 DEF Init, newValues, Values
<1>3. TypeOK
  BY <1>1, <1>2 DEF Init, TypeOK, Empty, Handles
<1> QED
  BY <1>3 DEF Init, IInv

\* The fields change while nobody reads them.
LEMMA WriteKeeps ==
  ASSUME IInv, NEW n \in Names, NEW vs \in Seq(Vals), Write(n, vs)
  PROVE  IInv'
BY DEF IInv, TypeOK, Write

\* A field of a request or response, or a trailer, is written.
LEMMA WritesKeep ==
  ASSUME IInv, NEW n \in Names, RequestWrites(n) \/ ResponseWrites(n) \/ TrailerAppend(n)
  PROVE  IInv'
<1>1. fields[n] \in Seq(Vals)
  BY DEF IInv, TypeOK
<1>2. HeaderWrites(n) \subseteq Seq(Vals)
  <2>1. \A v, w \in Vals : <<v, w>> \in Seq(Vals)
    OBVIOUS
  <2>2. \A v \in Vals : <<v>> \in Seq(Vals) /\ Append(fields[n], v) \in Seq(Vals)
    BY <1>1
  <2>3. <<>> \in Seq(Vals)
    OBVIOUS
  <2>4. \A vs \in HeaderWrites(n) :
          \/ \E v, w \in Vals : vs = <<v, w>>
          \/ \E v \in Vals : vs = <<v>> \/ vs = Append(fields[n], v)
          \/ vs = <<>>
    BY DEF HeaderWrites
  <2> QED
    BY <2>1, <2>2, <2>3, <2>4, Zenon
<1>3. \A v \in Vals : Append(fields[n], v) \in Seq(Vals)
  BY <1>1
<1>4. \E vs \in Seq(Vals) : Write(n, vs)
  BY <1>2, <1>3 DEF RequestWrites, ResponseWrites, TrailerAppend
<1> QED
  BY <1>4, WriteKeeps

\* The end of a body and a reading that fails touch nothing that was read.
LEMMA OthersKeep ==
  ASSUME IInv, BodyEnds \/ NotReady \/ (\E x \in Lists : Fails(x))
  PROVE  IInv'
<1>1. CASE BodyEnds
  BY <1>1 DEF IInv, TypeOK, BodyEnds, NamesInv, ValuesInv, Buffered, Passed, List, Listed
<1>2. CASE NotReady
  BY <1>2 DEF IInv, TypeOK, NotReady, Asks, Errors
<1>3. CASE \E x \in Lists : Fails(x)
  BY <1>3 DEF IInv, TypeOK, Fails, Asks, Errors, Lists
<1> QED
  BY <1>1, <1>2, <1>3

\* A new Header is empty, and a new iterator at the start of its list.
LEMMA StartKeeps ==
  ASSUME IInv, Start
  PROVE  IInv'
<1>1. Buffer.names \in Nat
  BY BufferAssumption DEF IInv, TypeOK, Handles, Buffer, RequestNames, ResponseNames, TrailerNames
<1>2. <<>> \in Seq(Names \cup Vals) /\ <<>> \in Seq(Vals) /\ Len(<<>>) = 0
  OBVIOUS
<1>3. newValues(Buffer.names) \in Values
  BY <1>1, <1>2 DEF newValues, Values
<1>4. TypeOK'
  BY <1>2, <1>3 DEF IInv, TypeOK, Start, Empty, Lists
<1>5. iter'["names"] = newValues(Buffer.names)
  BY DEF IInv, TypeOK, Start, Lists
<1>6. List("names")' = List("names") /\ Listed' = Listed
  BY DEF Start, List, Listed
<1>7. Passed("names")' = 0 /\ Buffered("names")'
  BY <1>2, <1>5, <1>6, NamesAreListed DEF IInv, newValues, Passed, Buffered
<1>8. \A n \in Names : header'[n] = <<>>
  BY DEF Start, Empty
<1>9. NamesInv'
  BY <1>6, <1>7, <1>8, NamesAreListed DEF IInv, NamesInv, Listed
<1> QED
  BY <1>4, <1>9 DEF IInv, Start

\* What the iterator at work has not read.
LEMMA UnreadIsTheRest ==
  ASSUME IInv, NEW x \in Lists, pc = x
  PROVE  /\ List(x) \in Seq(Names \cup Vals) /\ Buffered(x)
         /\ Unread(x) \in Seq(Names \cup Vals)
         /\ Len(Unread(x)) = Len(List(x)) - iter[x].cursor
         /\ \A i \in 1 .. Len(Unread(x)) : Unread(x)[i] = List(x)[iter[x].cursor + i]
<1>1. List(x) \in Seq(Names \cup Vals)
  BY CurrentIsListed, ListsAreSequences DEF IInv
<1>2. Buffered(x)
  BY DEF IInv, NamesInv, ValuesInv, Lists
<1> DEFINE c == iter[x].cursor
           L == List(x)
<1>3. c \in Nat /\ Len(L) \in Nat /\ c <= Len(L)
  BY <1>1, <1>2 DEF IInv, TypeOK, Values, Buffered
<1>4. \A i \in c + 1 .. Len(L) : L[i] \in Names \cup Vals
  BY <1>1, <1>3
<1>5. /\ SubSeq(L, c + 1, Len(L)) \in Seq(Names \cup Vals)
      /\ Len(SubSeq(L, c + 1, Len(L))) = IF c + 1 <= Len(L) THEN Len(L) - (c + 1) + 1 ELSE 0
      /\ \A i \in 1 .. Len(L) - (c + 1) + 1 : SubSeq(L, c + 1, Len(L))[i] = L[(c + 1) + i - 1]
  <2> HIDE DEF c, L
  <2>1. c + 1 \in Int /\ Len(L) \in Int
    BY <1>3
  <2> QED
    BY <1>4, <2>1, SubSeqProperties
<1>6. Unread(x) = SubSeq(L, c + 1, Len(L))
  BY DEF Unread
<1> HIDE DEF c, L
<1>7. /\ Unread(x) \in Seq(Names \cup Vals)
      /\ Len(Unread(x)) = Len(L) - c
      /\ \A i \in 1 .. Len(Unread(x)) : Unread(x)[i] = L[c + i]
  BY <1>3, <1>5, <1>6
<1> QED
  BY <1>1, <1>2, <1>7 DEF c, L

\* A list does not move while it is read.
LEMMA ListsStay ==
  ASSUME fields' = fields, current' = current
  PROVE  /\ Listed' = Listed
         /\ \A x \in Lists : List(x)' = List(x)
BY DEF Listed, List, Lists

\* A hostcall that changes the iterator at work, and what was passed not, keeps
\* the invariant.
LEMMA AnswersKeep ==
  ASSUME IInv, TypeOK', NEW x \in Lists, pc = x,
         UNCHANGED <<handle, fields, ready, pc, current, header, result>>,
         \A y \in Lists \ {x} : iter'[y] = iter[y],
         Passed(x)' = Passed(x), Buffered(x)'
  PROVE  IInv'
<1>1. /\ Listed' = Listed /\ List("names")' = List("names") /\ List("values")' = List("values")
  BY ListsStay DEF Lists
<1>2. CASE x = "names"
  <2>1. NamesInv'
    BY <1>1, <1>2 DEF IInv, NamesInv, Passed
  <2> QED
    BY <1>2, <2>1 DEF IInv
<1>3. CASE x = "values"
  <2>1. iter'["names"] = iter["names"]
    BY <1>3 DEF Lists
  <2>2. Passed("names")' = Passed("names") /\ Buffered("names")'
    BY <1>1, <1>3, <2>1 DEF IInv, NamesInv, Buffered, Passed
  <2>3. NamesInv'
    BY <1>1, <1>3, <2>2 DEF IInv, NamesInv
  <2>4. ValuesInv'
    BY <1>1, <1>3, <2>2 DEF IInv, ValuesInv
  <2> QED
    BY <1>3, <2>3, <2>4 DEF IInv
<1> QED
  BY <1>2, <1>3 DEF Lists

\* A larger buffer loses nothing.
LEMMA TooSmallKeeps ==
  ASSUME IInv, NEW x \in Lists, TooSmall(x)
  PROVE  IInv'
<1>1. pc = x
  BY DEF TooSmall, Asks
<1>2. Head(Unread(x)) \in Names \cup Vals
  BY <1>1, UnreadIsTheRest, HeadTailProperties DEF TooSmall
<1>3. Size[Head(Unread(x))] \in Nat
  BY <1>2, SizeAssumption
<1>4. /\ iter' \in [Lists -> Values]
      /\ iter'[x] = [iter[x] EXCEPT !.cap = Size[Head(Unread(x))]]
      /\ \A y \in Lists \ {x} : iter'[y] = iter[y]
  BY <1>3 DEF IInv, TypeOK, TooSmall, Values
<1>5. TypeOK'
  BY <1>4 DEF IInv, TypeOK, TooSmall
<1>6. /\ iter'[x].cursor = iter[x].cursor /\ iter'[x].pending = iter[x].pending
      /\ iter'[x].finished = iter[x].finished
  BY <1>4 DEF IInv, TypeOK, Values
<1>7. List(x)' = List(x)
  BY ListsStay DEF TooSmall
<1>8. Passed(x)' = Passed(x) /\ Buffered(x)'
  BY <1>1, <1>6, <1>7, UnreadIsTheRest DEF Passed, Buffered
<1> QED
  BY <1>1, <1>4, <1>5, <1>8, AnswersKeep DEF TooSmall

\* What the host writes into the buffer is what comes next in the list.
LEMMA WritesKeeps ==
  ASSUME IInv, NEW x \in Lists, NEW k \in 0 .. Len(Unread(x)), NEW done \in BOOLEAN,
         Writes(x, k, done)
  PROVE  IInv'
<1>1. pc = x /\ iter[x].pending = <<>>
  BY DEF Writes, Asks
<1>2. PICK got : got = SubSeq(Unread(x), 1, k)
  OBVIOUS
<1>3. /\ got \in Seq(Names \cup Vals) /\ Len(got) = k
      /\ \A i \in 1 .. k : got[i] = List(x)[iter[x].cursor + i]
  <2>1. \A i \in 1 .. k : Unread(x)[i] \in Names \cup Vals
    BY <1>1, UnreadIsTheRest
  <2>2. /\ got \in Seq(Names \cup Vals) /\ Len(got) = (IF 1 <= k THEN k - 1 + 1 ELSE 0)
        /\ \A i \in 1 .. k - 1 + 1 : got[i] = Unread(x)[1 + i - 1]
    BY <1>2, <2>1, SubSeqProperties
  <2>3. Len(Unread(x)) \in Nat
    BY <1>1, UnreadIsTheRest
  <2> QED
    BY <1>1, <2>2, <2>3, UnreadIsTheRest
<1>4. iter[x] \in Values /\ iter[x].cursor \in Nat /\ k \in Nat
  <2>1. Len(Unread(x)) \in Nat
    BY <1>1, UnreadIsTheRest
  <2> QED
    BY <2>1 DEF IInv, TypeOK, Values
<1>5. /\ iter'[x] = [iter[x] EXCEPT !.pending = got, !.finished = done, !.cursor = @ + k]
      /\ \A y \in Lists \ {x} : iter'[y] = iter[y]
      /\ DOMAIN iter' = Lists /\ iter' = [y \in Lists |-> iter'[y]]
  BY <1>2 DEF IInv, TypeOK, Writes
<1>6. /\ iter'[x].cursor = iter[x].cursor + k /\ iter'[x].pending = got
      /\ iter'[x].finished = done /\ iter'[x] \in Values
  <2>1. iter[x].cursor + k \in Nat
    BY <1>4
  <2>2. iter[x] = [cap |-> iter[x].cap, cursor |-> iter[x].cursor, pending |-> iter[x].pending,
                   finished |-> iter[x].finished] /\ iter[x].cap \in Nat
    BY <1>4 DEF Values
  <2>3. iter'[x] = [cap |-> iter[x].cap, cursor |-> iter[x].cursor + k, pending |-> got,
                    finished |-> done]
    BY <1>5, <2>2
  <2> QED
    BY <1>3, <2>1, <2>2, <2>3 DEF Values
<1>7. iter' \in [Lists -> Values]
  BY <1>5, <1>6 DEF IInv, TypeOK
<1>8. TypeOK'
  BY <1>7 DEF IInv, TypeOK, Writes
<1>9. List(x)' = List(x)
  BY ListsStay DEF Writes
<1>10. done => k = Len(Unread(x))
  BY DEF Writes
<1>11. Len(List(x)) \in Nat /\ Len(Unread(x)) = Len(List(x)) - iter[x].cursor
  BY <1>1, UnreadIsTheRest
<1>12. Passed(x) = iter[x].cursor /\ Passed(x)' = iter[x].cursor
  BY <1>1, <1>3, <1>4, <1>6 DEF Passed
<1>13. Buffered(x)'
  <2>1. Len(got) <= iter[x].cursor + k /\ iter[x].cursor + k <= Len(List(x))
    BY <1>3, <1>4, <1>11
  <2>2. done => iter[x].cursor + k = Len(List(x))
    BY <1>4, <1>10, <1>11
  <2> QED
    BY <1>3, <1>6, <1>9, <1>12, <2>1, <2>2 DEF Buffered
<1> QED
  BY <1>1, <1>5, <1>8, <1>12, <1>13, AnswersKeep DEF Writes

\* Next hands out the element of the list that is next, and the others wait.
LEMMA NextInList ==
  ASSUME IInv, NEW x \in Lists, pc = x, iter[x].pending # <<>>
  PROVE  /\ Passed(x) \in Nat /\ Passed(x) + 1 \in 1 .. Len(List(x))
         /\ Head(iter[x].pending) = List(x)[Passed(x) + 1]
         /\ Head(iter[x].pending) \in Names \cup Vals
         /\ Tail(iter[x].pending) \in Seq(Names \cup Vals)
         /\ iter[x].cursor - Len(Tail(iter[x].pending)) = Passed(x) + 1
         /\ Len(Tail(iter[x].pending)) <= iter[x].cursor
         /\ \A i \in 1 .. Len(Tail(iter[x].pending)) :
              Tail(iter[x].pending)[i] = List(x)[Passed(x) + 1 + i]
<1>1. PICK p \in Seq(Names \cup Vals) : p = iter[x].pending
  BY DEF IInv, TypeOK, Values
<1>2. PICK c \in Nat : c = iter[x].cursor
  BY DEF IInv, TypeOK, Values
<1>3. PICK L \in Seq(Names \cup Vals) : L = List(x)
  BY UnreadIsTheRest
<1>4. /\ c <= Len(L) /\ Len(p) <= c
      /\ \A i \in 1 .. Len(p) : p[i] = L[c - Len(p) + i]
  BY <1>1, <1>2, <1>3, UnreadIsTheRest DEF Buffered, Passed
<1>5. /\ Tail(p) \in Seq(Names \cup Vals) /\ Len(Tail(p)) = Len(p) - 1
      /\ \A i \in 1 .. Len(Tail(p)) : Tail(p)[i] = p[i + 1]
      /\ Head(p) = p[1] /\ Head(p) \in Names \cup Vals
  BY <1>1, HeadTailProperties
<1>6. Len(p) \in Nat /\ Len(p) > 0 /\ Len(L) \in Nat
  BY <1>1, <1>3, EmptySeq
<1>7. \A i \in 1 .. Len(Tail(p)) : Tail(p)[i] = L[c - Len(p) + 1 + i]
  BY <1>4, <1>5, <1>6
<1>8. Head(p) = L[c - Len(p) + 1]
  BY <1>4, <1>5, <1>6
<1>9. /\ c - Len(p) \in Nat /\ c - Len(p) + 1 \in 1 .. Len(L)
      /\ c - Len(Tail(p)) = c - Len(p) + 1 /\ Len(Tail(p)) <= c
  BY <1>4, <1>5, <1>6
<1> QED
  BY <1>1, <1>2, <1>3, <1>5, <1>7, <1>8, <1>9 DEF Passed

\* The next name: nothing of it is in the Header.
LEMMA NextNameKeeps ==
  ASSUME IInv, NextName
  PROVE  IInv'
<1>1. pc = "names" /\ "names" \in Lists /\ "values" \in Lists /\ iter["names"].pending # <<>>
  BY DEF NextName, Lists
<1>2. PICK m \in Nat : m = Passed("names")
  BY <1>1, NextInList
<1>3. PICK p : p = Tail(iter["names"].pending)
  OBVIOUS
<1>4. /\ p \in Seq(Names \cup Vals) /\ m + 1 \in 1 .. Len(List("names"))
      /\ current' = List("names")[m + 1]
      /\ iter["names"].cursor - Len(p) = m + 1 /\ Len(p) <= iter["names"].cursor
      /\ \A i \in 1 .. Len(p) : p[i] = List("names")[m + 1 + i]
  BY <1>1, <1>2, <1>3, NextInList DEF NextName
<1>5. current' \in Listed /\ current' \in Names
  BY <1>4, NamesAreListed DEF IInv, Listed
<1>6. Buffer.values \in Nat
  BY BufferAssumption DEF IInv, TypeOK, Handles, Buffer, RequestValues, ResponseValues, TrailerValues
<1>7. newValues(Buffer.values) \in Values
  <2>1. <<>> \in Seq(Names \cup Vals)
    OBVIOUS
  <2> QED
    BY <1>6, <2>1 DEF newValues, Values
<1>8. /\ iter' = [iter EXCEPT !["names"].pending = p, !["values"] = newValues(Buffer.values)]
      /\ iter["names"] \in Values
  BY <1>1, <1>3 DEF IInv, TypeOK, NextName
<1>9. /\ iter' \in [Lists -> Values]
      /\ iter'["names"] = [iter["names"] EXCEPT !.pending = p]
      /\ iter'["values"] = newValues(Buffer.values)
  <2>1. [iter["names"] EXCEPT !.pending = p] \in Values
    BY <1>4, <1>8 DEF Values
  <2>2. iter' = [y \in Lists |-> IF y = "names" THEN [iter["names"] EXCEPT !.pending = p]
                                 ELSE newValues(Buffer.values)]
    BY <1>1, <1>8 DEF IInv, TypeOK, Lists
  <2> QED
    BY <1>1, <1>7, <2>1, <2>2
<1>10. /\ iter'["names"].pending = p /\ iter'["names"].cursor = iter["names"].cursor
       /\ iter'["names"].finished = iter["names"].finished
  BY <1>8, <1>9 DEF Values
<1>11. TypeOK'
  BY <1>5, <1>9 DEF IInv, TypeOK, NextName, Lists
<1>12. List("names")' = List("names") /\ Listed' = Listed
  BY DEF NextName, List, Listed
<1>13. Passed("names")' = m + 1 /\ Buffered("names")'
  BY <1>1, <1>4, <1>10, <1>12 DEF IInv, NamesInv, Passed, Buffered
<1>14. NamesInv'
  <2>1. ASSUME NEW i \in 1 .. Len(List("names"))
        PROVE  /\ i > m + 1 => header[List("names")[i]] = <<>>
               /\ i <= m + 1 => \/ header[List("names")[i]] = fields[List("names")[i]]
                                \/ List("names")[i] = current'
    <3>1. /\ i > m => header[List("names")[i]] = <<>>
          /\ i <= m => header[List("names")[i]] = fields[List("names")[i]]
      BY <1>1, <1>2 DEF IInv, NamesInv
    <3> QED
      BY <1>4, <3>1, NamesAreListed DEF IInv
  <2>2. \A n \in Names \ Listed : header[n] = <<>>
    BY <1>1 DEF IInv, NamesInv
  <2> QED
    BY <1>12, <1>13, <2>1, <2>2 DEF NamesInv, NextName
<1>15. ValuesInv'
  <2>1. Passed("values")' = 0 /\ iter'["values"].cursor = 0 /\ iter'["values"].pending = <<>>
    BY <1>9 DEF newValues, Passed
  <2>2. header[current'] = <<>>
    BY <1>1, <1>2, <1>4 DEF IInv, NamesInv
  <2>3. List("values")' = fields[current'] /\ Len(fields[current']) \in Nat
    BY <1>5 DEF IInv, TypeOK, NextName, List
  <2>4. Buffered("values")'
    BY <1>9, <2>1, <2>3 DEF Buffered, newValues
  <2> QED
    BY <1>4, <1>12, <1>13, <2>1, <2>2, <2>4 DEF ValuesInv, NextName
<1> QED
  BY <1>11, <1>14, <1>15 DEF IInv, NextName

\* The next value goes to the end of what the Header has of the name.
LEMMA NextValueKeeps ==
  ASSUME IInv, NextValue
  PROVE  IInv'
<1>1. pc = "values" /\ "names" \in Lists /\ "values" \in Lists /\ iter["values"].pending # <<>>
  BY DEF NextValue, Lists
<1>2. current \in Names /\ current \in Listed /\ List("values") = fields[current]
  BY <1>1, CurrentIsListed DEF List
<1>3. PICK m \in Nat : m = Passed("values")
  BY <1>1, NextInList
<1>4. PICK p : p = Tail(iter["values"].pending)
  OBVIOUS
<1>5. PICK v : v = Head(iter["values"].pending)
  OBVIOUS
<1>6. /\ p \in Seq(Names \cup Vals) /\ m + 1 \in 1 .. Len(fields[current])
      /\ v = fields[current][m + 1]
      /\ iter["values"].cursor - Len(p) = m + 1 /\ Len(p) <= iter["values"].cursor
      /\ \A i \in 1 .. Len(p) : p[i] = fields[current][m + 1 + i]
  BY <1>1, <1>2, <1>3, <1>4, <1>5, NextInList
<1>7. PICK h \in Seq(Vals) : h = header[current]
  BY <1>2 DEF IInv, TypeOK
<1>8. Len(h) = m /\ \A i \in 1 .. m : h[i] = fields[current][i]
  BY <1>1, <1>3, <1>7 DEF IInv, ValuesInv
<1>9. v \in Vals /\ fields[current] \in Seq(Vals)
  BY <1>2, <1>6, ElementOfSeq DEF IInv, TypeOK
<1>10. header' = [header EXCEPT ![current] = Append(h, v)] /\ header \in [Names -> Seq(Vals)]
  BY <1>5, <1>7 DEF IInv, TypeOK, NextValue
<1>11. /\ Append(h, v) \in Seq(Vals) /\ Len(Append(h, v)) = m + 1
       /\ \A i \in 1 .. m + 1 : Append(h, v)[i] = fields[current][i]
  BY <1>6, <1>7, <1>8, <1>9
<1>12. /\ iter' \in [Lists -> Values] /\ iter'["names"] = iter["names"]
       /\ iter'["values"].pending = p /\ iter'["values"].cursor = iter["values"].cursor
       /\ iter'["values"].finished = iter["values"].finished
  BY <1>1, <1>4, <1>6 DEF IInv, TypeOK, NextValue, Values
<1>13. TypeOK'
  BY <1>10, <1>11, <1>12 DEF IInv, TypeOK, NextValue
<1>14. List("names")' = List("names") /\ Listed' = Listed /\ List("values")' = fields[current]
  BY <1>2 DEF NextValue, List, Listed
<1>15. Passed("names")' = Passed("names") /\ Buffered("names")'
  BY <1>1, <1>12, <1>14 DEF IInv, NamesInv, Passed, Buffered
<1>16. NamesInv'
  <2>1. \A n \in Names : n # current => header'[n] = header[n]
    BY <1>10
  <2>2. Passed("names") \in 1 .. Len(List("names")) /\ current = List("names")[Passed("names")]
    BY <1>1, CurrentIsListed DEF IInv, ValuesInv
  <2>3. ASSUME NEW i \in 1 .. Len(List("names"))
        PROVE  /\ i > Passed("names") => header'[List("names")[i]] = <<>>
               /\ i <= Passed("names") =>
                    \/ header'[List("names")[i]] = fields[List("names")[i]]
                    \/ List("names")[i] = current
    <3>1. List("names")[i] \in Names
      BY NamesAreListed DEF IInv, Listed
    <3>2. List("names")[i] = current => i = Passed("names")
      BY <2>2, NamesAreListed DEF IInv
    <3>3. /\ i > Passed("names") => header[List("names")[i]] = <<>>
          /\ i <= Passed("names") => \/ header[List("names")[i]] = fields[List("names")[i]]
                                     \/ List("names")[i] = current
      BY <1>1 DEF IInv, NamesInv
    <3> QED
      BY <2>1, <2>2, <3>1, <3>2, <3>3
  <2>4. \A n \in Names \ Listed : header'[n] = <<>>
    BY <1>1, <1>2, <2>1 DEF IInv, NamesInv
  <2> QED
    BY <1>1, <1>14, <1>15, <2>3, <2>4 DEF NamesInv, NextValue
<1>17. ValuesInv'
  <2>1. Passed("values")' = m + 1
    BY <1>6, <1>12 DEF Passed
  <2>2. Buffered("values")'
    BY <1>1, <1>2, <1>6, <1>12, <1>14, <2>1 DEF IInv, ValuesInv, Buffered
  <2>3. header'[current] = Append(h, v)
    BY <1>2, <1>10
  <2>4. Passed("names") > 0 /\ current = List("names")[Passed("names")]
    BY <1>1 DEF IInv, ValuesInv
  <2> QED
    BY <1>11, <1>14, <1>15, <2>1, <2>2, <2>3, <2>4 DEF ValuesInv, NextValue
<1> QED
  BY <1>1, <1>13, <1>16, <1>17 DEF IInv, NextValue

\* h, p and u are the first, the middle and the last part of f, and c is where
\* the last one starts.
AreParts(h, p, u, c, f) ==
  /\ Len(h) = c - Len(p) /\ Len(p) <= c /\ c <= Len(f) /\ Len(u) = Len(f) - c
  /\ \A i \in 1 .. Len(h) : h[i] = f[i]
  /\ \A i \in 1 .. Len(p) : p[i] = f[c - Len(p) + i]
  /\ \A i \in 1 .. Len(u) : u[i] = f[c + i]

\* The parts make up the whole.
LEMMA ThreeParts ==
  ASSUME NEW T, NEW h \in Seq(T), NEW p \in Seq(T), NEW u \in Seq(T), NEW f \in Seq(T),
         NEW c \in Nat, AreParts(h, p, u, c, f)
  PROVE  h \o p \o u = f
<1> USE DEF AreParts
<1>1. PICK g \in Seq(T) : g = h \o p
  BY ConcatProperties
<1>2. Len(h) \in Nat /\ Len(p) \in Nat /\ Len(u) \in Nat /\ Len(f) \in Nat
  BY LenProperties
<1>3. /\ Len(g) = Len(h) + Len(p)
      /\ \A i \in 1 .. Len(h) + Len(p) : g[i] = IF i <= Len(h) THEN h[i] ELSE p[i - Len(h)]
  BY <1>1, ConcatProperties
<1>4. Len(g) = c
  BY <1>2, <1>3
<1>5. ASSUME NEW i \in 1 .. c PROVE g[i] = f[i]
  <2>1. CASE i <= Len(h)
    <3>1. i \in 1 .. Len(h)
      BY <1>2, <2>1
    <3>2. h[i] = f[i]
      BY <3>1
    <3> QED
      BY <1>2, <1>3, <1>4, <2>1, <3>2
  <2>2. CASE ~(i <= Len(h))
    <3>1. i - Len(h) \in 1 .. Len(p) /\ c - Len(p) + (i - Len(h)) = i
      BY <1>2, <2>2
    <3>2. p[i - Len(h)] = f[c - Len(p) + (i - Len(h))]
      BY <3>1
    <3>3. i \in 1 .. Len(h) + Len(p)
      BY <1>3, <1>4
    <3>4. g[i] = p[i - Len(h)]
      BY <1>3, <2>2, <3>3
    <3> QED
      BY <3>1, <3>2, <3>4
  <2> QED
    BY <2>1, <2>2
<1>6. PICK w \in Seq(T) : w = g \o u
  BY ConcatProperties
<1>7. /\ Len(w) = Len(g) + Len(u)
      /\ \A i \in 1 .. Len(g) + Len(u) : w[i] = IF i <= Len(g) THEN g[i] ELSE u[i - Len(g)]
  BY <1>6, ConcatProperties
<1>8. Len(w) = Len(f)
  BY <1>2, <1>4, <1>7
<1>9. ASSUME NEW i \in 1 .. Len(w) PROVE w[i] = f[i]
  <2>1. CASE i <= c
    BY <1>2, <1>4, <1>5, <1>7, <1>8, <2>1
  <2>2. CASE ~(i <= c)
    <3>1. i - c \in 1 .. Len(u) /\ c + (i - c) = i
      BY <1>2, <1>8, <2>2
    <3>2. u[i - c] = f[c + (i - c)]
      BY <3>1
    <3> QED
      BY <1>2, <1>4, <1>7, <1>8, <2>2, <3>1, <3>2
  <2> QED
    BY <2>1, <2>2
<1> QED
  BY <1>1, <1>6, <1>8, <1>9, SeqEqual

\* A list that is over has been handed out to its end.
LEMMA OverIsComplete ==
  ASSUME IInv, NEW x \in Lists, NoMore(x)
  PROVE  Passed(x) = Len(List(x)) /\ Len(List(x)) \in Nat
<1>1. pc = x /\ iter[x].pending = <<>> /\ iter[x].finished
  BY DEF NoMore
<1>2. iter[x].cursor = Len(List(x)) /\ List(x) \in Seq(Names \cup Vals)
  BY <1>1, UnreadIsTheRest DEF Buffered
<1> QED
  BY <1>1, <1>2 DEF Passed

\* The values of a name are all in the Header when their iterator is over.
LEMMA EndOfValuesKeeps ==
  ASSUME IInv, EndOfValues
  PROVE  IInv'
<1>1. pc = "values" /\ "values" \in Lists /\ NoMore("values")
  BY DEF EndOfValues, NoMore, Lists
<1>2. current \in Names /\ List("values") = fields[current]
  BY <1>1, CurrentIsListed DEF List
<1>3. PICK h \in Seq(Vals) : h = header[current]
  BY <1>2 DEF IInv, TypeOK
<1>4. PICK f \in Seq(Vals) : f = fields[current]
  BY <1>2 DEF IInv, TypeOK
<1>5. Len(h) = Len(f) /\ \A i \in 1 .. Len(h) : h[i] = f[i]
  BY <1>1, <1>2, <1>3, <1>4, OverIsComplete DEF IInv, ValuesInv
<1>6. header[current] = fields[current]
  BY <1>3, <1>4, <1>5, SeqEqual
<1>7. TypeOK'
  BY DEF IInv, TypeOK, EndOfValues, Lists
<1>8. List("names")' = List("names") /\ Listed' = Listed
  BY DEF EndOfValues, List, Listed
<1>9. Passed("names")' = Passed("names") /\ Buffered("names")'
  BY <1>1, <1>8 DEF IInv, NamesInv, Passed, Buffered, EndOfValues
<1>10. NamesInv'
  BY <1>1, <1>6, <1>8, <1>9 DEF IInv, NamesInv, EndOfValues
<1> QED
  BY <1>1, <1>7, <1>10 DEF IInv, EndOfValues

\* When the iterator over the names is over, the Header has them all.
LEMMA EndOfNamesKeeps ==
  ASSUME IInv, EndOfNames
  PROVE  IInv'
<1>1. pc = "names" /\ "names" \in Lists /\ NoMore("names")
  BY DEF EndOfNames, NoMore, Lists
<1>2. \A i \in 1 .. Len(List("names")) : header[List("names")[i]] = fields[List("names")[i]]
  BY <1>1, OverIsComplete DEF IInv, NamesInv
<1>3. \A n \in Listed : header[n] = fields[n]
  BY <1>2, NamesAreListed DEF IInv
<1>4. \A n \in Names \ Listed : header[n] = <<>> /\ fields[n] = <<>>
  BY <1>1 DEF IInv, NamesInv, Listed
<1>5. header = fields
  BY <1>3, <1>4 DEF IInv, TypeOK
<1> QED
  BY <1>5 DEF IInv, TypeOK, EndOfNames

\* Every step keeps the invariant.
LEMMA NextKeeps ==
  ASSUME IInv, [Next]_vars
  PROVE  IInv'
<1>1. CASE \E n \in Names : RequestWrites(n) \/ ResponseWrites(n) \/ TrailerAppend(n)
  BY <1>1, WritesKeep
<1>2. CASE BodyEnds \/ NotReady \/ \E x \in Lists : Fails(x)
  BY <1>2, OthersKeep
<1>3. CASE Start
  BY <1>3, StartKeeps
<1>4. CASE \E x \in Lists : HostAnswers(x)
  BY <1>4, TooSmallKeeps, WritesKeeps DEF HostAnswers
<1>5. CASE NextName \/ NextValue
  BY <1>5, NextNameKeeps, NextValueKeeps
<1>6. CASE EndOfValues \/ EndOfNames
  BY <1>6, EndOfValuesKeeps, EndOfNamesKeeps
<1>7. CASE UNCHANGED vars
  BY <1>7 DEF vars, IInv, TypeOK, NamesInv, ValuesInv, Buffered, Passed, List, Listed
<1> QED
  BY <1>1, <1>2, <1>3, <1>4, <1>5, <1>6, <1>7 DEF Next, Read

\* Reading header fields and trailers (newClientRequest, newResponse and
\* Response.Trailers) keeps the inductive invariant.
THEOREM Invariance == Spec => []IInv
BY InitHolds, NextKeeps, PTL DEF Spec
-----------------------------------------------------------------------------
(***************************************************************************)
(* The theorems.                                                           *)
(***************************************************************************)

\* The iterators, the Header and the host's fields keep their types.
THEOREM TypeCorrect == Spec => []TypeOK
<1>1. IInv => TypeOK
  BY DEF IInv
<1> QED
  BY <1>1, Invariance, PTL

\* A Header that newClientRequest, newResponse or Trailers returned has every
\* field of the host with every value, in order and once.
THEOREM HeadersAreComplete == Spec => []HeaderComplete
<1>1. IInv => HeaderComplete
  BY DEF IInv, HeaderComplete
<1> QED
  BY <1>1, Invariance, PTL

\* While nextValue asks the host with one buffer after the other, no value of
\* a name is lost and none is read twice.
THEOREM NothingIsLostOrRepeated == Spec => []NothingLostOrTwice
<1>1. ASSUME IInv, pc = "values"
      PROVE  header[current] \o iter["values"].pending \o Unread("values") = fields[current]
  <2> DEFINE T == Names \cup Vals
  <2>1. "values" \in Lists /\ current \in Names /\ List("values") = fields[current]
    BY <1>1, CurrentIsListed DEF Lists, List
  <2>2. PICK h \in Seq(T) : h = header[current]
    BY <1>1, <2>1, SeqMonotonic DEF IInv, TypeOK
  <2>3. PICK p \in Seq(T) : p = iter["values"].pending
    BY <2>1, <1>1 DEF IInv, TypeOK, Values
  <2>4. PICK u \in Seq(T) : u = Unread("values")
    BY <1>1, <2>1, UnreadIsTheRest
  <2>5. PICK f \in Seq(T) : f = fields[current]
    BY <1>1, <2>1, SeqMonotonic DEF IInv, TypeOK
  <2>6. PICK c \in Nat : c = iter["values"].cursor
    BY <2>1, <1>1 DEF IInv, TypeOK, Values
  <2>7. /\ Len(h) = c - Len(p) /\ \A i \in 1 .. Len(h) : h[i] = f[i]
        /\ Len(p) <= c /\ c <= Len(f)
        /\ \A i \in 1 .. Len(p) : p[i] = f[c - Len(p) + i]
    BY <1>1, <2>1, <2>2, <2>3, <2>5, <2>6 DEF IInv, ValuesInv, Buffered, Passed
  <2>8. Len(u) = Len(f) - c /\ \A i \in 1 .. Len(u) : u[i] = f[c + i]
    BY <1>1, <2>1, <2>4, <2>5, <2>6, UnreadIsTheRest
  <2>9. AreParts(h, p, u, c, f)
    BY <2>7, <2>8 DEF AreParts
  <2>10. h \o p \o u = f
    BY <2>9, ThreeParts
  <2> QED
    BY <2>2, <2>3, <2>4, <2>5, <2>10
<1>2. IInv => NothingLostOrTwice
  BY <1>1 DEF NothingLostOrTwice
<1> QED
  BY <1>2, Invariance, PTL
-----------------------------------------------------------------------------
(***************************************************************************)
(* Backends.                                                               *)
(***************************************************************************)

\* Division, as the conversions of times use it.
LEMMA WholeUnits ==
  ASSUME NEW a \in Nat, NEW d \in Nat \ {0}
  PROVE  a \div d \in Nat /\ d * (a \div d) <= a /\ a < d * (a \div d) + d
<1>1. a \div d \in Nat
  OBVIOUS
<1>2. d * (a \div d) <= a
  OBVIOUS
<1>3. a < d * (a \div d) + d
  OBVIOUS
<1> QED
  BY <1>1, <1>2, <1>3

\* What was said of an option is a value the builder has to hand on.
Sound(o) ==
  /\ said[o] # Unset
  /\ o \in Timeouts => Meant(said[o])

\* The options that are durations or counts.
Numeric == Timeouts \cup KeepaliveTimes \cup {"tcp_keepalive_probes"}

\* What was last said of a duration or a count is a number.
SaidInv ==
  /\ DOMAIN said = Valued \cup Switches
  /\ \A o \in Numeric : said[o] \in Int \cup {Unset}

\* As long as no call was refused, the configuration has what was said of
\* every option, and nothing of one that was never set.
BuilderInv ==
  errs = {} =>
    \A o \in Valued :
      /\ Sound(o) => Flag(o) \in mask /\ opts[o] = Wanted(o)
      /\ said[o] = Unset => opts[o] = 0 /\ (o \notin Keepalive => o \notin mask)

\* The switches of TLS, of the pool and of gRPC.
PlainSwitches == {"use_ssl", "grpc", "pool"}

\* The switches are as the last call that speaks of them has left them.
PlainInv ==
  /\ "use_ssl" \in mask <=> said["use_ssl"] = TRUE
  /\ "grpc" \in mask <=> said["grpc"] = TRUE
  /\ "pool" \in mask <=> said["pool"] = FALSE

KeepaliveInv ==
  errs = {} =>
    /\ opts["tcp_keepalive_enable"] = 1 <=> said["tcp_keepalive_enable"] = TRUE
    /\ "keepalive" \in mask <=> \E o \in Keepalive : said[o] # Unset

SwitchInv == PlainInv /\ KeepaliveInv

\* The configuration the builder has registered is the one it still has.
RegisteredInv ==
  host # Unset /\ host.by = "builder" =>
    errs = {} /\ host.config = [mask |-> mask, opts |-> opts, target |-> "builder"]

\* A Backend was made from what is registered under the name.
BackendInv ==
  /\ DOMAIN backend = Goroutines
  /\ \A g \in Goroutines :
       backend[g] # Unset =>
         host # Unset /\ \E q \in Quiet : backend[g] = populateConfig(host.config, q)

BackendsInv == BackendsTypeOK /\ SaidInv /\ BuilderInv /\ SwitchInv /\ RegisteredInv /\ BackendInv

-----------------------------------------------------------------------------
\* A quotient is bounded by the bound of what is divided.
LEMMA QuotientBounds ==
  ASSUME NEW t \in Nat, NEW d \in Nat \ {0}, NEW n \in Nat, t < n * d
  PROVE  t \div d \in Nat /\ t \div d < n
<1>1. PICK q \in Nat : q = t \div d
  BY WholeUnits
<1>2. d * q <= t
  BY <1>1, WholeUnits
<1>3. SUFFICES ASSUME n <= q PROVE FALSE
  BY <1>1
<1>4. n * d <= d * q
  BY <1>3
<1> QED
  BY <1>2, <1>4

\* A duration that is let through is a uint32 of milliseconds and, where the
\* check is right about it, the one that was meant (ConnectTimeout...).
LEMMA MillisecondsFit ==
  ASSUME NEW t \in Int, ~TooLarge(t)
  PROVE  /\ Milliseconds(t) % U32 \in 0 .. U32 - 1
         /\ Meant(t) => Milliseconds(t) % U32 = t \div Ms
<1>1. PICK q \in Int : q = Milliseconds(t)
  <2>1. t \div Ms \in Int /\ -((-t) \div Ms) \in Int
    BY UnitAssumption
  <2> QED
    BY <2>1 DEF Milliseconds
<1>2. q % U32 \in 0 .. U32 - 1
  BY UnitAssumption
<1>3. ASSUME Meant(t) PROVE q % U32 = q /\ q = t \div Ms
  <2>1. U32 * Ms \in Nat
    BY UnitAssumption
  <2>2. t \in Nat /\ t < U32 * Ms
    BY <1>3, <2>1 DEF Meant, TooLarge, maxBackendTimeout
  <2>3. q = t \div Ms
    BY <1>1, <2>2 DEF Milliseconds
  <2>4. q \in Nat /\ q < U32
    BY <2>2, <2>3, QuotientBounds, UnitAssumption
  <2> QED
    BY <2>3, <2>4, UnitAssumption
<1> QED
  BY <1>1, <1>2, <1>3

\* TCPKeepaliveTime: seconds fit where milliseconds do.
LEMMA SecondsFit ==
  ASSUME NEW t \in Nat, ~TooLarge(t)
  PROVE  t \div Second \in 0 .. U32 - 1
<1>1. U32 * Ms \in Nat /\ U32 * Second \in Nat /\ Second \in Nat \ {0} /\ U32 \in Nat
  BY UnitAssumption
<1>2. U32 * Ms < U32 * Second
  BY <1>1, UnitAssumption
<1>3. t < U32 * Second
  BY <1>1, <1>2 DEF TooLarge, maxBackendTimeout
<1> QED
  BY <1>1, <1>3, QuotientBounds

\* TCPKeepaliveInterval: at least one second.
LEMMA IntervalFits ==
  ASSUME NEW t \in Int, t \div Second < U32
  PROVE  (IF t < Second THEN Second ELSE t) \div Second \in 0 .. U32 - 1
<1>1. Second \in Nat \ {0}
  BY UnitAssumption
<1>2. CASE t < Second
  <2>1. Second < 2 * Second
    BY <1>1
  <2>2. Second \div Second \in Nat /\ Second \div Second < 2
    BY <1>1, <2>1, QuotientBounds
  <2> QED
    BY <1>2, <2>2, UnitAssumption
<1>3. CASE t >= Second
  BY <1>1, <1>3, WholeUnits, UnitAssumption
<1> QED
  BY <1>1, <1>2, <1>3
-----------------------------------------------------------------------------
\* The flags and the fields of a configuration.
FlagNames == Valued \cup Switches \cup {"keepalive"}
Settings == [Valued \cup {"tcp_keepalive_enable"} -> (0 .. U32 - 1) \cup {Text}]

\* An option with a value has a flag of its own or that of the keepalives, and
\* never that of a switch.
LEMMA OptionNames ==
  /\ Switches = PlainSwitches \cup {"tcp_keepalive_enable"}
  /\ PlainSwitches \cap Keepalive = {} /\ Keepalive \subseteq Valued \cup {"tcp_keepalive_enable"}
  /\ "use_ssl" \in Switches /\ "tcp_keepalive_enable" \in Switches /\ "keepalive" \notin Switches
  /\ \A o \in Valued : o \notin Switches /\ o # "keepalive" /\ Flag(o) \in {o, "keepalive"}
  /\ \A o \in Valued : o \notin Keepalive => Flag(o) = o
  /\ \A o \in Valued \cup {"tcp_keepalive_enable"} : Flag(o) \in Valued \cup {"keepalive"}
BY DEF Switches, PlainSwitches, Valued, Flag, Timeouts, Versions, Strings, KeepaliveTimes, Keepalive

\* A call of the builder says something of its option and of the switches that
\* go with it, of nothing else, and comes before the registration.
LEMMA CallSays ==
  ASSUME SaidInv, NEW o \in Valued \cup Switches, NEW v, Call(o, v)
  PROVE  /\ host = Unset /\ host' = Unset /\ backend' = backend
         /\ DOMAIN said' = Valued \cup Switches
         /\ \A p \in Valued \cup {"grpc", "pool"} : said'[p] = IF p = o THEN v ELSE said[p]
         /\ said'["use_ssl"] = IF o \in Versions \cup Strings /\ v # Blank THEN TRUE
                               ELSE IF o = "use_ssl" THEN v ELSE said["use_ssl"]
         /\ said'["tcp_keepalive_enable"] =
              IF o \in KeepaliveTimes \cup {"tcp_keepalive_probes"} THEN TRUE
              ELSE IF o = "tcp_keepalive_enable" THEN v ELSE said["tcp_keepalive_enable"]
<1>1. DOMAIN said = Valued \cup Switches
  BY DEF SaidInv
<1>2. /\ "use_ssl" \in Switches /\ "grpc" \in Switches /\ "pool" \in Switches
      /\ "tcp_keepalive_enable" \in Switches
  BY DEF Switches
<1>3. /\ host = Unset /\ host' = Unset /\ backend' = backend
      /\ DOMAIN said' = Valued \cup Switches
  BY <1>1 DEF Call, Called
<1>4. \A p \in Valued \cup {"grpc", "pool"} : p # "use_ssl" /\ p # "tcp_keepalive_enable"
  BY OptionNames
<1>5. \A p \in Valued \cup {"grpc", "pool"} : said'[p] = IF p = o THEN v ELSE said[p]
  BY <1>1, <1>2, <1>4 DEF Call
<1>6. said'["use_ssl"] = IF o \in Versions \cup Strings /\ v # Blank THEN TRUE
                         ELSE IF o = "use_ssl" THEN v ELSE said["use_ssl"]
  BY <1>1, <1>2 DEF Call
<1>7. said'["tcp_keepalive_enable"] =
        IF o \in KeepaliveTimes \cup {"tcp_keepalive_probes"} THEN TRUE
        ELSE IF o = "tcp_keepalive_enable" THEN v ELSE said["tcp_keepalive_enable"]
  BY <1>1, <1>2 DEF Call
<1> QED
  BY <1>3, <1>5, <1>6, <1>7

\* A duration or a count that is set is a number.
LEMMA SaidKeeps ==
  ASSUME SaidInv, NEW o \in Valued \cup Switches, NEW v, Call(o, v), o \in Numeric => v \in Int
  PROVE  SaidInv'
<1>1. Numeric \subseteq Valued
  BY DEF Numeric, Valued
<1>2. ASSUME NEW p \in Numeric PROVE said'[p] \in Int \cup {Unset}
  <2>1. said'[p] = IF p = o THEN v ELSE said[p]
    BY <1>1, CallSays
  <2>2. said[p] \in Int \cup {Unset}
    BY DEF SaidInv
  <2> QED
    BY <2>1, <2>2
<1> QED
  BY <1>2, CallSays DEF SaidInv

\* A call of the builder comes before the registration and before any Backend.
LEMMA CallKeepsHost ==
  ASSUME BackendsInv, host = Unset, host' = Unset, backend' = backend,
         mask' \in SUBSET FlagNames, opts' \in Settings
  PROVE  BackendsTypeOK' /\ RegisteredInv' /\ BackendInv'
<1>1. "builder" \in Owners
  BY DEF Owners, Goroutines
<1>2. [mask |-> mask, opts |-> opts, target |-> "builder"]' \in Configs
  BY <1>1 DEF Configs, FlagNames, Settings
<1>3. BackendsTypeOK'
  BY <1>2 DEF BackendsTypeOK
<1> QED
  BY <1>3 DEF BackendsInv, RegisteredInv, BackendInv

\* A call that sets a value leaves the switches of the pool and of gRPC alone,
\* and TLS too unless it is one of TLS.
LEMMA PlainKeeps ==
  ASSUME SaidInv, PlainInv, NEW o \in Valued, NEW v, Call(o, v),
         \/ /\ o \notin Versions \cup Strings \/ v = Blank
            /\ mask' \cap PlainSwitches = mask \cap PlainSwitches
         \/ /\ o \in Versions \cup Strings /\ v # Blank
            /\ mask' \cap PlainSwitches = (mask \cup {"use_ssl"}) \cap PlainSwitches
  PROVE  PlainInv'
<1>1. /\ o # "use_ssl" /\ o # "grpc" /\ o # "pool"
      /\ "use_ssl" \in PlainSwitches /\ "grpc" \in PlainSwitches /\ "pool" \in PlainSwitches
  BY OptionNames DEF PlainSwitches
<1>2. said'["grpc"] = said["grpc"] /\ said'["pool"] = said["pool"]
  BY <1>1, CallSays
<1>3. said'["use_ssl"] = IF o \in Versions \cup Strings /\ v # Blank THEN TRUE ELSE said["use_ssl"]
  BY <1>1, CallSays
<1>4. ("grpc" \in mask' <=> "grpc" \in mask) /\ ("pool" \in mask' <=> "pool" \in mask)
  BY <1>1
<1>5. "use_ssl" \in mask' <=> ("use_ssl" \in mask \/ (o \in Versions \cup Strings /\ v # Blank))
  BY <1>1
<1> QED
  BY <1>2, <1>3, <1>4, <1>5 DEF PlainInv

\* The flag of the keepalives after a call, of one of them or of none.
LEMMA KeepaliveFlag ==
  ASSUME SaidInv, NEW o \in Valued \cup Switches, NEW v, Call(o, v), v # Unset,
         "keepalive" \in mask <=> \E p \in Keepalive : said[p] # Unset,
         \/ o \in Keepalive /\ "keepalive" \in mask'
         \/ o \notin Keepalive /\ ("keepalive" \in mask' <=> "keepalive" \in mask)
  PROVE  "keepalive" \in mask' <=> \E p \in Keepalive : said'[p] # Unset
<1>1. CASE o \in Keepalive
  <2>1. said'[o] # Unset
    BY <1>1, CallSays, OptionNames, UnsetAssumption
  <2> QED
    BY <1>1, <2>1
<1>2. CASE o \notin Keepalive
  <2>1. ASSUME NEW p \in Keepalive PROVE said'[p] = said[p]
    <3>1. CASE p = "tcp_keepalive_enable"
      <4>1. o \notin KeepaliveTimes \cup {"tcp_keepalive_probes"} /\ o # "tcp_keepalive_enable"
        BY <1>2 DEF Keepalive
      <4> QED
        BY <3>1, <4>1, CallSays
    <3>2. CASE p # "tcp_keepalive_enable"
      <4>1. p \in Valued /\ p # o
        BY <1>2, <3>2, OptionNames
      <4> QED
        BY <4>1, CallSays
    <3> QED
      BY <3>1, <3>2
  <2> QED
    BY <1>2, <2>1
<1> QED
  BY <1>1, <1>2

\* A call that sets one option leaves the configuration with what was said of
\* every option.
LEMMA BuilderKeeps ==
  ASSUME SaidInv, BuilderInv, NEW o \in Valued, NEW v, Call(o, v), v # Unset,
         errs' = errs,
         mask \subseteq mask', mask' \subseteq mask \cup {Flag(o), "use_ssl", "keepalive"},
         \A p \in Valued : p # o => opts'[p] = opts[p],
         Sound(o)' => Flag(o) \in mask' /\ opts'[o] = Wanted(o)'
  PROVE  BuilderInv'
<1> SUFFICES ASSUME errs = {}, NEW p \in Valued
             PROVE  /\ Sound(p)' => Flag(p) \in mask' /\ opts'[p] = Wanted(p)'
                    /\ said'[p] = Unset => opts'[p] = 0 /\ (p \notin Keepalive => p \notin mask')
  BY DEF BuilderInv
<1>1. CASE p = o
  BY <1>1, CallSays
<1>2. CASE p # o
  <2>1. said'[p] = said[p]
    BY <1>2, CallSays
  <2>2. Sound(p)' = Sound(p) /\ Wanted(p)' = Wanted(p)
    BY <2>1 DEF Sound, Wanted
  <2>3. /\ Sound(p) => Flag(p) \in mask /\ opts[p] = Wanted(p)
        /\ said[p] = Unset => opts[p] = 0 /\ (p \notin Keepalive => p \notin mask)
    BY DEF BuilderInv
  <2> QED
    BY <1>2, <2>1, <2>2, <2>3, OptionNames
<1> QED
  BY <1>1, <1>2

\* A refused call: too large a time, or an empty string.
LEMMA RefuseKeeps ==
  ASSUME BackendsInv, NEW o \in Valued, NEW v, Call(o, v), Refuse(o),
         o \in Versions \cup Strings => v = Blank,
         o \in Numeric => v \in Int
  PROVE  BackendsInv'
<1>1. errs' # {} /\ mask' = mask /\ opts' = opts
  BY DEF Refuse
<1>2. SaidInv
  BY DEF BackendsInv
<1>3. mask' \in SUBSET FlagNames /\ opts' \in Settings
  BY <1>1 DEF BackendsInv, BackendsTypeOK, Configs, FlagNames, Settings
<1>4. BackendsTypeOK' /\ RegisteredInv' /\ BackendInv'
  BY <1>2, <1>3, CallKeepsHost, CallSays
<1>5. SaidInv'
  BY <1>2, SaidKeeps
<1>6. PlainInv'
  BY <1>1, <1>2, PlainKeeps DEF BackendsInv, SwitchInv
<1>7. BuilderInv' /\ SwitchInv'
  BY <1>1, <1>6 DEF BuilderInv, SwitchInv, KeepaliveInv
<1> QED
  BY <1>4, <1>5, <1>7 DEF BackendsInv

\* ConnectTimeout, FirstByteTimeout, BetweenBytesTimeout, HTTPKeepaliveTime and
\* HostOverride: the option has the value it was given.
LEMMA TakeKeeps ==
  ASSUME BackendsInv, NEW o \in Valued, NEW v, NEW w \in (0 .. U32 - 1) \cup {Text},
         Call(o, v), Take(o, w),
         v # Unset, o \in Numeric => v \in Int,
         o \in Timeouts \cup {"host_override"},
         Sound(o)' => w = Wanted(o)'
  PROVE  BackendsInv'
<1>1. /\ mask' = mask \cup {Flag(o)} /\ opts' = [opts EXCEPT ![o] = w] /\ errs' = errs
  BY DEF Take
<1>2. SaidInv /\ BuilderInv /\ opts \in Settings /\ mask \in SUBSET FlagNames
  BY DEF BackendsInv, BackendsTypeOK, Configs, FlagNames, Settings
<1>3. mask' \in SUBSET FlagNames /\ opts' \in Settings
  BY <1>1, <1>2, OptionNames DEF FlagNames, Settings
<1>4. opts'[o] = w /\ \A p \in Valued \cup {"tcp_keepalive_enable"} : p # o => opts'[p] = opts[p]
  BY <1>1, <1>2 DEF Settings
<1>5. BackendsTypeOK' /\ RegisteredInv' /\ BackendInv' /\ SaidInv'
  BY <1>2, <1>3, CallKeepsHost, CallSays, SaidKeeps
<1>6. BuilderInv'
  BY <1>1, <1>2, <1>4, BuilderKeeps
<1>7. SwitchInv'
  <2>1. o \notin Versions \cup Strings \cup KeepaliveTimes \cup {"tcp_keepalive_probes"}
    BY DEF Timeouts, Versions, Strings, KeepaliveTimes
  <2>2. Flag(o) \notin PlainSwitches
    BY OptionNames DEF PlainSwitches, Timeouts, Flag
  <2>3. PlainInv'
    BY <1>1, <1>2, <2>1, <2>2, PlainKeeps DEF BackendsInv, SwitchInv
  <2>4. KeepaliveInv'
    <3>1. SUFFICES ASSUME errs = {} PROVE KeepaliveInv'
      BY <1>1 DEF KeepaliveInv
    <3>2. o # "tcp_keepalive_enable" /\ o \in Valued \cup Switches
      BY OptionNames
    <3>3. /\ said'["tcp_keepalive_enable"] = said["tcp_keepalive_enable"]
          /\ opts'["tcp_keepalive_enable"] = opts["tcp_keepalive_enable"]
      BY <1>2, <1>4, <2>1, <3>2, CallSays
    <3>4. \/ o \in Keepalive /\ "keepalive" \in mask'
          \/ o \notin Keepalive /\ ("keepalive" \in mask' <=> "keepalive" \in mask)
      BY <1>1, OptionNames DEF Flag
    <3>5. "keepalive" \in mask' <=> \E p \in Keepalive : said'[p] # Unset
      BY <1>2, <3>1, <3>2, <3>4, KeepaliveFlag DEF BackendsInv, SwitchInv, KeepaliveInv
    <3> QED
      BY <3>1, <3>3, <3>5 DEF BackendsInv, SwitchInv, KeepaliveInv
  <2> QED
    BY <2>3, <2>4 DEF SwitchInv
<1> QED
  BY <1>5, <1>6, <1>7 DEF BackendsInv

\* TLSMinVersion, CertHostname...: an option of TLS has the value it was given,
\* and turns TLS on.
LEMMA TakeTLSKeeps ==
  ASSUME BackendsInv, NEW o \in Versions \cup Strings,
         NEW v \in (0 .. U32 - 1) \cup {Text}, Call(o, v), TakeTLS(o, v), v # Blank
  PROVE  BackendsInv'
<1>1. /\ mask' = mask \cup {o, "use_ssl"} /\ opts' = [opts EXCEPT ![o] = v] /\ errs' = errs
  BY DEF TakeTLS
<1>2. SaidInv /\ BuilderInv /\ opts \in Settings /\ mask \in SUBSET FlagNames
  BY DEF BackendsInv, BackendsTypeOK, Configs, FlagNames, Settings
<1>3. /\ o \in Valued /\ o \notin Keepalive /\ o \notin KeepaliveTimes \cup {"tcp_keepalive_probes"}
      /\ o \notin Numeric /\ o \notin Timeouts
  BY DEF Valued, Versions, Strings, Numeric, Keepalive, KeepaliveTimes, Timeouts
<1>4. mask' \in SUBSET FlagNames /\ opts' \in Settings
  BY <1>1, <1>2, <1>3, OptionNames DEF FlagNames, Settings
<1>5. opts'[o] = v /\ \A p \in Valued \cup {"tcp_keepalive_enable"} : p # o => opts'[p] = opts[p]
  BY <1>1, <1>2, <1>3 DEF Settings
<1>6. BackendsTypeOK' /\ RegisteredInv' /\ BackendInv' /\ SaidInv'
  BY <1>2, <1>3, <1>4, CallKeepsHost, CallSays, SaidKeeps
<1>7. v # Unset
  BY UnsetAssumption, UnitAssumption
<1>8. Wanted(o)' = v
  <2>1. said'[o] = v
    BY <1>2, <1>3, CallSays
  <2> QED
    BY <1>3, <2>1 DEF Wanted, KeepaliveTimes
<1>9. Flag(o) = o
  BY <1>3, OptionNames
<1>10. BuilderInv'
  BY <1>1, <1>2, <1>3, <1>5, <1>7, <1>8, <1>9, BuilderKeeps
<1>11. SwitchInv'
  <2>1. o \in Valued \cup Switches /\ o # "tcp_keepalive_enable" /\ o \notin PlainSwitches /\ o # "keepalive"
    BY <1>3, OptionNames
  <2>2. PlainInv'
    BY <1>1, <1>2, <1>3, <2>1, PlainKeeps DEF BackendsInv, SwitchInv
  <2>3. /\ said'["tcp_keepalive_enable"] = said["tcp_keepalive_enable"]
        /\ opts'["tcp_keepalive_enable"] = opts["tcp_keepalive_enable"]
    BY <1>2, <1>3, <1>5, <2>1, CallSays
  <2>4. KeepaliveInv'
    <3>1. SUFFICES ASSUME errs = {} PROVE KeepaliveInv'
      BY <1>1 DEF KeepaliveInv
    <3>2. "keepalive" \in mask' <=> "keepalive" \in mask
      BY <1>1, <2>1
    <3>3. "keepalive" \in mask' <=> \E p \in Keepalive : said'[p] # Unset
      BY <1>2, <1>3, <1>7, <2>1, <3>1, <3>2, KeepaliveFlag DEF BackendsInv, SwitchInv, KeepaliveInv
    <3> QED
      BY <2>3, <3>1, <3>3 DEF BackendsInv, SwitchInv, KeepaliveInv
  <2> QED
    BY <2>2, <2>4 DEF SwitchInv
<1> QED
  BY <1>6, <1>10, <1>11 DEF BackendsInv

\* A time or a count of TCP keepalives has the value it was given, and turns
\* them on.
LEMMA TakeKeepaliveKeeps ==
  ASSUME BackendsInv, NEW o \in KeepaliveTimes \cup {"tcp_keepalive_probes"},
         NEW v \in Int, NEW w \in 0 .. U32 - 1, Call(o, v), TakeKeepalive(o, w),
         w = Wanted(o)'
  PROVE  BackendsInv'
<1>1. /\ mask' = mask \cup {"keepalive"}
      /\ opts' = [opts EXCEPT ![o] = w, !["tcp_keepalive_enable"] = 1] /\ errs' = errs
  BY DEF TakeKeepalive
<1>2. SaidInv /\ BuilderInv /\ opts \in Settings /\ mask \in SUBSET FlagNames
  BY DEF BackendsInv, BackendsTypeOK, Configs, FlagNames, Settings
<1>3. /\ o \in Valued /\ o \in Keepalive /\ o \notin Versions \cup Strings
  BY DEF Valued, Versions, Strings, Keepalive, KeepaliveTimes
<1>4. 1 \in 0 .. U32 - 1 /\ o # "tcp_keepalive_enable" /\ o # "use_ssl" /\ Flag(o) = "keepalive"
  BY <1>3, UnitAssumption, OptionNames DEF Flag
<1>5. mask' \in SUBSET FlagNames /\ opts' \in Settings
  BY <1>1, <1>2, <1>3, <1>4 DEF FlagNames, Settings
<1>6. /\ opts'[o] = w /\ opts'["tcp_keepalive_enable"] = 1
      /\ \A p \in Valued : p # o => opts'[p] = opts[p]
  BY <1>1, <1>2, <1>3, <1>4, OptionNames DEF Settings
<1>7. BackendsTypeOK' /\ RegisteredInv' /\ BackendInv' /\ SaidInv'
  BY <1>2, <1>3, <1>5, CallKeepsHost, CallSays, SaidKeeps
<1>8. v # Unset
  BY UnsetAssumption
<1>9. BuilderInv'
  BY <1>1, <1>2, <1>3, <1>4, <1>6, <1>8, BuilderKeeps
<1>10. SwitchInv'
  <2>1. "keepalive" \notin PlainSwitches /\ o \in Valued \cup Switches
    BY <1>3 DEF PlainSwitches
  <2>2. PlainInv'
    BY <1>1, <1>2, <1>3, <2>1, PlainKeeps DEF BackendsInv, SwitchInv
  <2>3. said'["tcp_keepalive_enable"] = TRUE
    BY <1>2, <2>1, CallSays
  <2>4. \E p \in Keepalive : said'[p] # Unset
    <3>1. said'[o] = v
      BY <1>2, <1>3, <2>1, CallSays
    <3> QED
      BY <1>3, <1>8, <3>1
  <2>5. KeepaliveInv'
    BY <1>1, <1>6, <2>3, <2>4 DEF KeepaliveInv
  <2> QED
    BY <2>2, <2>5 DEF SwitchInv
<1> QED
  BY <1>7, <1>9, <1>10 DEF BackendsInv

\* A call about a switch leaves what was said of the values alone.
LEMMA ValuesKeep ==
  ASSUME SaidInv, BuilderInv, NEW o \in Switches, NEW v, Call(o, v), errs' = errs,
         mask \ Switches \subseteq mask', mask' \subseteq mask \cup Switches \cup {"keepalive"},
         \A p \in Valued : opts'[p] = opts[p]
  PROVE  BuilderInv'
<1> SUFFICES ASSUME errs = {}, NEW p \in Valued
             PROVE  /\ Sound(p)' => Flag(p) \in mask' /\ opts'[p] = Wanted(p)'
                    /\ said'[p] = Unset => opts'[p] = 0 /\ (p \notin Keepalive => p \notin mask')
  BY DEF BuilderInv
<1>1. said'[p] = said[p]
  <2>1. o \in Valued \cup Switches /\ p # o
    BY OptionNames
  <2> QED
    BY <2>1, CallSays
<1>2. Sound(p)' = Sound(p) /\ Wanted(p)' = Wanted(p)
  BY <1>1 DEF Sound, Wanted
<1>3. /\ Sound(p) => Flag(p) \in mask /\ opts[p] = Wanted(p)
      /\ said[p] = Unset => opts[p] = 0 /\ (p \notin Keepalive => p \notin mask)
  BY DEF BuilderInv
<1>4. p \notin Switches /\ p # "keepalive" /\ Flag(p) \notin Switches
  BY OptionNames
<1> QED
  BY <1>1, <1>2, <1>3, <1>4

\* UseSSL, UseGRPC and PoolConnections.
LEMMA SwitchKeeps ==
  ASSUME BackendsInv, Switch
  PROVE  BackendsInv'
<1>1. SaidInv /\ BuilderInv /\ opts \in Settings /\ mask \in SUBSET FlagNames
  BY DEF BackendsInv, BackendsTypeOK, Configs, FlagNames, Settings
<1>2. PICK o \in {"use_ssl", "pool", "grpc"}, v \in BOOLEAN :
        /\ Call(o, v)
        /\ mask' = IF v = (o # "pool") THEN mask \cup {o} ELSE mask \ {o}
        /\ opts' = opts /\ errs' = errs
  BY DEF Switch
<1>3. /\ o \in Switches /\ o \notin Valued /\ o \notin Numeric
      /\ o \notin Versions \cup Strings \cup KeepaliveTimes /\ o # "tcp_keepalive_probes"
      /\ o # "tcp_keepalive_enable"
  BY OptionNames DEF Switches, Valued, Numeric
<1>4. /\ mask \ Switches \subseteq mask' /\ mask' \subseteq mask \cup Switches
      /\ mask' \in SUBSET FlagNames
  BY <1>1, <1>2, <1>3 DEF FlagNames
<1>5. BackendsTypeOK' /\ RegisteredInv' /\ BackendInv' /\ SaidInv'
  BY <1>1, <1>2, <1>3, <1>4, CallKeepsHost, CallSays, SaidKeeps
<1>6. BuilderInv'
  BY <1>1, <1>2, <1>3, <1>4, ValuesKeep
<1>7. SwitchInv'
  <2>1. said'["tcp_keepalive_enable"] = said["tcp_keepalive_enable"]
    BY <1>1, <1>2, <1>3, CallSays
  <2>2. /\ said'["grpc"] = IF o = "grpc" THEN v ELSE said["grpc"]
        /\ said'["pool"] = IF o = "pool" THEN v ELSE said["pool"]
        /\ said'["use_ssl"] = IF o = "use_ssl" THEN v ELSE said["use_ssl"]
    BY <1>1, <1>2, <1>3, CallSays
  <2>3. PlainInv
    BY DEF BackendsInv, SwitchInv
  <2>4. \A p \in PlainSwitches : p # o => (p \in mask' <=> p \in mask)
    BY <1>2
  <2>5. ASSUME o # "pool" PROVE o \in mask' <=> v = TRUE
    <3>1. CASE v = TRUE
      BY <1>2, <2>5, <3>1
    <3>2. CASE v = FALSE
      BY <1>2, <2>5, <3>2
    <3> QED
      BY <1>2, <3>1, <3>2
  <2>6. ASSUME o = "pool" PROVE o \in mask' <=> v = FALSE
    <3>1. CASE v = TRUE
      BY <1>2, <2>6, <3>1
    <3>2. CASE v = FALSE
      BY <1>2, <2>6, <3>2
    <3> QED
      BY <1>2, <3>1, <3>2
  <2>8. "use_ssl" \in mask' <=> said'["use_ssl"] = TRUE
    <3>1. CASE o = "use_ssl"
      BY <2>2, <2>5, <3>1
    <3>2. CASE o # "use_ssl"
      BY <2>2, <2>3, <2>4, <3>2 DEF PlainInv, PlainSwitches
    <3> QED
      BY <3>1, <3>2
  <2>9. "grpc" \in mask' <=> said'["grpc"] = TRUE
    <3>1. CASE o = "grpc"
      BY <2>2, <2>5, <3>1
    <3>2. CASE o # "grpc"
      BY <2>2, <2>3, <2>4, <3>2 DEF PlainInv, PlainSwitches
    <3> QED
      BY <3>1, <3>2
  <2>10. "pool" \in mask' <=> said'["pool"] = FALSE
    <3>1. CASE o = "pool"
      BY <2>2, <2>6, <3>1
    <3>2. CASE o # "pool"
      BY <2>2, <2>3, <2>4, <3>2 DEF PlainInv, PlainSwitches
    <3> QED
      BY <3>1, <3>2
  <2>11. PlainInv'
    BY <2>8, <2>9, <2>10 DEF PlainInv
  <2>7. KeepaliveInv'
    <3>1. SUFFICES ASSUME errs = {} PROVE KeepaliveInv'
      BY <1>2 DEF KeepaliveInv
    <3>2. o \notin Keepalive /\ o # "keepalive"
      BY <1>2 DEF Keepalive, KeepaliveTimes
    <3>3. ("keepalive" \in mask' <=> "keepalive" \in mask) /\ v # Unset
      BY <1>2, <3>2, UnsetAssumption
    <3>4. "keepalive" \in mask' <=> \E p \in Keepalive : said'[p] # Unset
      BY <1>1, <1>2, <1>3, <3>1, <3>2, <3>3, KeepaliveFlag DEF BackendsInv, SwitchInv, KeepaliveInv
    <3> QED
      BY <1>2, <2>1, <3>1, <3>4 DEF BackendsInv, SwitchInv, KeepaliveInv
  <2> QED
    BY <2>7, <2>11 DEF SwitchInv
<1> QED
  BY <1>5, <1>6, <1>7 DEF BackendsInv

\* TCPKeepaliveEnable.
LEMMA TCPKeepaliveEnableKeeps ==
  ASSUME BackendsInv, TCPKeepaliveEnable
  PROVE  BackendsInv'
<1>1. SaidInv /\ BuilderInv /\ opts \in Settings /\ mask \in SUBSET FlagNames
  BY DEF BackendsInv, BackendsTypeOK, Configs, FlagNames, Settings
<1>2. PICK v \in BOOLEAN : /\ Call("tcp_keepalive_enable", v)
                           /\ Take("tcp_keepalive_enable", IF v THEN 1 ELSE 0)
  BY DEF TCPKeepaliveEnable
<1>3. PICK w \in {0, 1} : w = (IF v THEN 1 ELSE 0)
  OBVIOUS
<1>4. /\ mask' = mask \cup {"keepalive"} /\ opts' = [opts EXCEPT !["tcp_keepalive_enable"] = w]
      /\ errs' = errs
  BY <1>2, <1>3 DEF Take, Flag, Keepalive
<1>5. "tcp_keepalive_enable" \notin Numeric /\ "tcp_keepalive_enable" \in Switches
      /\ "tcp_keepalive_enable" \notin Versions \cup Strings \cup Valued
  BY OptionNames DEF Valued, Numeric
<1>6. mask' \in SUBSET FlagNames /\ opts' \in Settings
  BY <1>1, <1>3, <1>4, UnitAssumption DEF FlagNames, Settings
<1>7. opts'["tcp_keepalive_enable"] = w /\ \A p \in Valued : opts'[p] = opts[p]
  BY <1>1, <1>4, <1>5 DEF Settings
<1>8. BackendsTypeOK' /\ RegisteredInv' /\ BackendInv' /\ SaidInv'
  BY <1>1, <1>2, <1>5, <1>6, CallKeepsHost, CallSays, SaidKeeps
<1>9. BuilderInv'
  BY <1>1, <1>2, <1>4, <1>5, <1>7, ValuesKeep
<1>10. SwitchInv'
  <2>1. said'["use_ssl"] = said["use_ssl"] /\ said'["grpc"] = said["grpc"] /\ said'["pool"] = said["pool"]
    BY <1>1, <1>2, <1>5, CallSays
  <2>2. said'["tcp_keepalive_enable"] = v
    <3>1. "tcp_keepalive_enable" \notin KeepaliveTimes /\ "tcp_keepalive_enable" # "tcp_keepalive_probes"
      BY DEF KeepaliveTimes
    <3> QED
      BY <1>1, <1>2, <1>5, <3>1, CallSays
  <2>3. w = 1 <=> v = TRUE
    BY <1>3
  <2>4. PlainInv'
    <3>1. \A x \in PlainSwitches : x \in mask' <=> x \in mask
      BY <1>4 DEF PlainSwitches
    <3> QED
      BY <2>1, <3>1 DEF BackendsInv, SwitchInv, PlainInv, PlainSwitches
  <2>5. \E p \in Keepalive : said'[p] # Unset
    BY <1>2, <2>2, UnsetAssumption DEF Keepalive
  <2>6. KeepaliveInv'
    BY <1>4, <1>7, <2>2, <2>3, <2>5 DEF KeepaliveInv
  <2> QED
    BY <2>4, <2>6 DEF SwitchInv
<1> QED
  BY <1>8, <1>9, <1>10 DEF BackendsInv

\* TCPKeepaliveProbes(0) sets nothing and turns nothing on.
LEMMA NoProbesKeep ==
  ASSUME BackendsInv, Called, UNCHANGED <<mask, opts, errs, said>>
  PROVE  BackendsInv'
<1>1. SaidInv /\ BuilderInv /\ SwitchInv /\ opts \in Settings /\ mask \in SUBSET FlagNames
  BY DEF BackendsInv, BackendsTypeOK, Configs, FlagNames, Settings
<1>2. host = Unset /\ host' = Unset /\ backend' = backend
  BY DEF Called
<1>3. BackendsTypeOK' /\ RegisteredInv' /\ BackendInv'
  BY <1>1, <1>2, CallKeepsHost
<1>4. SaidInv' /\ BuilderInv' /\ SwitchInv'
  <2>1. \A o : Sound(o)' = Sound(o) /\ Wanted(o)' = Wanted(o)
    BY DEF Sound, Wanted
  <2> QED
    BY <1>1, <2>1 DEF SaidInv, BuilderInv, SwitchInv, PlainInv, KeepaliveInv
<1> QED
  BY <1>3, <1>4 DEF BackendsInv
-----------------------------------------------------------------------------
\* The calls of the builder that set a value.
LEMMA ValueCallsKeep ==
  ASSUME BackendsInv, \/ SetTimeout \/ HostOverride \/ SetVersion \/ SetString
               \/ TCPKeepaliveInterval \/ TCPKeepaliveTime \/ TCPKeepaliveProbes
  PROVE  BackendsInv'
<1>1. SaidInv /\ Numeric \subseteq Valued /\ Text # Unset
  BY UnsetAssumption DEF BackendsInv, Numeric, Valued
<1>2. CASE SetTimeout
  <2>1. PICK o \in Timeouts, t \in Durations :
          Call(o, t) /\ IF TooLarge(t) THEN Refuse(o) ELSE Take(o, Milliseconds(t) % U32)
    BY <1>2 DEF SetTimeout
  <2>2. /\ t \in Int /\ t # Unset /\ o \in Timeouts /\ o \in Valued /\ o \in Numeric
        /\ o \notin Versions \cup Strings
    BY DurationAssumption, UnsetAssumption DEF Numeric, Valued, Timeouts, Versions, Strings
  <2>3. CASE TooLarge(t)
    BY <2>1, <2>2, <2>3, RefuseKeeps
  <2>4. CASE ~TooLarge(t)
    <3>1. PICK w : w = Milliseconds(t) % U32
      OBVIOUS
    <3>2. w \in 0 .. U32 - 1 /\ (Meant(t) => w = t \div Ms)
      BY <2>2, <2>4, <3>1, MillisecondsFit
    <3>3. said'[o] = t
      BY <1>1, <2>1, <2>2, CallSays
    <3>4. Sound(o)' => w = Wanted(o)'
      <4>1. Wanted(o)' = t \div Ms
        BY <2>2, <3>3 DEF Wanted, Timeouts
      <4>2. Sound(o)' => Meant(t)
        BY <3>3 DEF Sound, Meant, maxBackendTimeout
      <4> QED
        BY <3>2, <4>1, <4>2
    <3> QED
      BY <2>1, <2>2, <2>4, <3>1, <3>2, <3>4, TakeKeeps
  <2> QED
    BY <2>3, <2>4
<1>3. CASE HostOverride
  <2>1. /\ "host_override" \in Valued
        /\ "host_override" \notin Numeric /\ "host_override" \notin Timeouts \cup KeepaliveTimes
    BY DEF Valued, Numeric, Timeouts, KeepaliveTimes
  <2>2. Call("host_override", Text) /\ Take("host_override", Text)
    BY <1>3 DEF HostOverride
  <2>3. said'["host_override"] = Text
    BY <1>1, <2>1, <2>2, CallSays
  <2>4. Wanted("host_override")' = Text
    BY <2>1, <2>3 DEF Wanted, KeepaliveTimes
  <2> QED
    BY <1>1, <2>1, <2>2, <2>4, TakeKeeps
<1>4. CASE SetVersion
  <2>1. PICK o \in Versions, v \in {1, 2} : Call(o, v) /\ TakeTLS(o, v)
    BY <1>4 DEF SetVersion
  <2>2. v \in 0 .. U32 - 1 /\ v # Blank
    BY UnitAssumption, TextAssumption
  <2> QED
    BY <2>1, <2>2, TakeTLSKeeps
<1>5. CASE SetString
  <2>1. PICK o \in Strings, v \in {Text, Blank} :
          Call(o, v) /\ IF v = Blank THEN Refuse(o) ELSE TakeTLS(o, v)
    BY <1>5 DEF SetString
  <2>2. o \in Valued /\ o \notin Numeric
    BY DEF Valued, Strings, Numeric, Timeouts, KeepaliveTimes
  <2> QED
    BY <2>1, <2>2, RefuseKeeps, TakeTLSKeeps
<1>6. CASE TCPKeepaliveInterval
  <2>1. PICK t \in Durations :
          /\ t \div Second < U32
          /\ Call("tcp_keepalive_interval", t)
          /\ TakeKeepalive("tcp_keepalive_interval", (IF t < Second THEN Second ELSE t) \div Second)
    BY <1>6 DEF TCPKeepaliveInterval
  <2>2. PICK w : w = (IF t < Second THEN Second ELSE t) \div Second
    OBVIOUS
  <2>3. t \in Int /\ w \in 0 .. U32 - 1
    BY <2>1, <2>2, DurationAssumption, IntervalFits
  <2>4. /\ "tcp_keepalive_interval" \in Valued /\ "tcp_keepalive_interval" \in KeepaliveTimes
        /\ "tcp_keepalive_interval" \notin Timeouts
    BY DEF Valued, KeepaliveTimes, Timeouts
  <2>5. said'["tcp_keepalive_interval"] = t
    BY <1>1, <2>1, <2>4, CallSays
  <2>6. w = Wanted("tcp_keepalive_interval")'
    BY <2>2, <2>4, <2>5 DEF Wanted
  <2> QED
    BY <2>1, <2>2, <2>3, <2>4, <2>6, TakeKeepaliveKeeps
<1>7. CASE TCPKeepaliveTime
  <2>1. PICK t \in Durations :
          /\ t >= 0
          /\ Call("tcp_keepalive_time", t)
          /\ IF TooLarge(t) THEN Refuse("tcp_keepalive_time")
             ELSE TakeKeepalive("tcp_keepalive_time", t \div Second)
    BY <1>7 DEF TCPKeepaliveTime
  <2>2. t \in Int /\ t \in Nat
    BY <2>1, DurationAssumption
  <2>3. /\ "tcp_keepalive_time" \in Valued /\ "tcp_keepalive_time" \in KeepaliveTimes
        /\ "tcp_keepalive_time" \notin Timeouts /\ "tcp_keepalive_time" \notin Versions \cup Strings
    BY DEF Valued, KeepaliveTimes, Timeouts, Versions, Strings
  <2>4. CASE TooLarge(t)
    BY <2>1, <2>2, <2>3, <2>4, RefuseKeeps
  <2>5. CASE ~TooLarge(t)
    <3>1. PICK w : w = t \div Second
      OBVIOUS
    <3>2. w \in 0 .. U32 - 1
      BY <2>2, <2>5, <3>1, SecondsFit
    <3>3. said'["tcp_keepalive_time"] = t
      BY <1>1, <2>1, <2>3, CallSays
    <3>4. w = Wanted("tcp_keepalive_time")'
      BY <2>3, <3>1, <3>3 DEF Wanted
    <3> QED
      BY <2>1, <2>2, <2>3, <2>5, <3>1, <3>2, <3>4, TakeKeepaliveKeeps
  <2> QED
    BY <2>4, <2>5
<1>8. CASE TCPKeepaliveProbes
  <2>1. CASE \E n \in Counts :
               n > 0 /\ Call("tcp_keepalive_probes", n) /\ TakeKeepalive("tcp_keepalive_probes", n)
    <3>1. PICK n \in Counts :
                n > 0 /\ Call("tcp_keepalive_probes", n) /\ TakeKeepalive("tcp_keepalive_probes", n)
      BY <2>1
    <3>2. n \in 0 .. U32 - 1
      BY DurationAssumption
    <3>3. /\ "tcp_keepalive_probes" \in Valued
          /\ "tcp_keepalive_probes" \notin Timeouts \cup KeepaliveTimes
      BY DEF Valued, KeepaliveTimes, Timeouts
    <3>4. said'["tcp_keepalive_probes"] = n
      BY <1>1, <3>1, <3>3, CallSays
    <3>5. n = Wanted("tcp_keepalive_probes")'
      BY <3>3, <3>4 DEF Wanted, KeepaliveTimes
    <3> QED
      BY <3>1, <3>2, <3>5, UnitAssumption, TakeKeepaliveKeeps
  <2>2. CASE Called /\ UNCHANGED <<mask, opts, errs, said>>
    BY <2>2, NoProbesKeep
  <2> QED
    BY <1>8, <2>1, <2>2 DEF TCPKeepaliveProbes
<1> QED
  BY <1>2, <1>3, <1>4, <1>5, <1>6, <1>7, <1>8

\* Who gets a Backend gets what the name stands for.
LEMMA PopulatedKeeps ==
  ASSUME BackendInv, NEW g \in Goroutines, NEW c, host' # Unset, host'.config = c,
         host # Unset => host' = host, Populates(g, c)
  PROVE  BackendInv'
<1>1. ASSUME NEW k \in Goroutines, backend'[k] # Unset
      PROVE  \E q \in Quiet : backend'[k] = populateConfig(c, q)
  BY <1>1 DEF Populates, RegistrationFails, BackendInv
<1>2. DOMAIN backend' = Goroutines
  BY DEF Populates, RegistrationFails, BackendInv
<1> QED
  BY <1>1, <1>2 DEF BackendInv

\* A goroutine that gets an error has no Backend.
LEMMA NoBackendKeeps ==
  ASSUME BackendInv, NEW g \in Goroutines, RegistrationFails(g), UNCHANGED host
  PROVE  BackendInv'
BY DEF BackendInv, RegistrationFails

\* RegisterDynamicBackend and BackendFromName leave the builder alone, and a
\* name that is registered as it is.
LEMMA HostCallsKeep ==
  ASSUME BackendsInv, NEW g \in Goroutines,
         RegisterDynamicBackend(g) \/ BackendFromName(g)
  PROVE  BackendsInv'
<1>1. /\ mask' = mask /\ opts' = opts /\ errs' = errs /\ said' = said
  BY DEF RegisterDynamicBackend, BackendFromName, builderVars
<1>2. SaidInv' /\ BuilderInv' /\ SwitchInv'
  <2>1. \A o : Sound(o)' = Sound(o) /\ Wanted(o)' = Wanted(o)
    BY <1>1 DEF Sound, Wanted
  <2> QED
    BY <1>1, <2>1 DEF BackendsInv, SaidInv, BuilderInv, SwitchInv, PlainInv, KeepaliveInv
<1>3. CASE /\ ~(g = "builder" /\ Refused) /\ host = Unset
           /\ host' = [by |-> g, config |-> Config(g)] /\ Populates(g, Config(g))
  <2>1. Config(g) \in Configs
    <3>1. Zeros \in [Valued \cup {"tcp_keepalive_enable"} -> (0 .. U32 - 1) \cup {Text}]
      BY UnitAssumption DEF Zeros
    <3> QED
      BY <3>1 DEF BackendsInv, BackendsTypeOK, Config, Configs, Goroutines, Owners
  <2>2. /\ host' \in [by : Owners, config : Configs]
        /\ host' # Unset /\ host'.config = Config(g)
    BY <1>3, <2>1, UnsetAssumption DEF Owners
  <2>3. BackendsTypeOK'
    BY <1>1, <2>2 DEF BackendsInv, BackendsTypeOK
  <2>4. RegisteredInv'
    BY <1>1, <1>3 DEF RegisteredInv, Config, Refused
  <2>5. BackendInv'
    BY <1>3, <2>2, PopulatedKeeps DEF BackendsInv
  <2> QED
    BY <1>2, <2>3, <2>4, <2>5 DEF BackendsInv
<1>4. CASE UNCHANGED host /\ (RegistrationFails(g) \/ (host # Unset /\ Populates(g, host.config)))
  <2>1. BackendsTypeOK' /\ RegisteredInv'
    BY <1>1, <1>4 DEF BackendsInv, BackendsTypeOK, RegisteredInv
  <2>2. BackendInv'
    BY <1>4, PopulatedKeeps, NoBackendKeeps DEF BackendsInv
  <2> QED
    BY <1>2, <2>1, <2>2 DEF BackendsInv
<1> QED
  BY <1>3, <1>4 DEF RegisterDynamicBackend, BackendFromName

\* NewBackendOptions: nothing is said, nothing is set.
LEMMA BackendsInitHolds == BackendsInit => BackendsInv
<1> SUFFICES ASSUME BackendsInit PROVE BackendsInv
  OBVIOUS
<1>1. \A o \in Valued \cup Switches : said[o] = Unset
  BY DEF BackendsInit
<1>2. BackendsTypeOK
  <2>1. Zeros \in [Valued \cup {"tcp_keepalive_enable"} -> (0 .. U32 - 1) \cup {Text}]
    BY UnitAssumption DEF Zeros
  <2>2. Static \in [by : Owners, config : Configs]
    BY <2>1 DEF Static, Configs, Owners
  <2>3. [mask |-> mask, opts |-> opts, target |-> "builder"] \in Configs
    BY <2>1 DEF BackendsInit, Configs, Owners, Goroutines
  <2> QED
    BY <2>2, <2>3 DEF BackendsInit, BackendsTypeOK
<1>3. SaidInv
  <2>1. Numeric \subseteq Valued
    BY DEF Numeric, Valued
  <2> QED
    BY <1>1, <2>1 DEF BackendsInit, SaidInv
<1>4. BuilderInv
  BY <1>1 DEF BackendsInit, BuilderInv, Sound, Zeros
<1>5. SwitchInv
  <2>1. opts["tcp_keepalive_enable"] = 0
    BY DEF BackendsInit, Zeros
  <2>2. \A o \in Switches \cup Keepalive : said[o] = Unset
    BY <1>1, OptionNames
  <2>3. Unset # TRUE /\ Unset # FALSE
    BY UnsetAssumption
  <2>4. PlainInv
    BY <2>2, <2>3, OptionNames DEF BackendsInit, PlainInv, PlainSwitches
  <2>5. said["tcp_keepalive_enable"] # TRUE
    BY <2>2, <2>3, OptionNames
  <2>6. "keepalive" \notin mask
    BY DEF BackendsInit
  <2>7. KeepaliveInv
    <3>1. opts["tcp_keepalive_enable"] # 1
      BY <2>1
    <3> QED
      BY <2>2, <2>5, <2>6, <3>1 DEF KeepaliveInv
  <2> QED
    BY <2>4, <2>7 DEF SwitchInv
<1>6. RegisteredInv /\ BackendInv
  BY UnsetAssumption DEF BackendsInit, RegisteredInv, BackendInv, Static
<1> QED
  BY <1>2, <1>3, <1>4, <1>5, <1>6 DEF BackendsInv

\* The invariant is kept by every call of the builder and of the host.
LEMMA BackendsStep ==
  ASSUME BackendsInv, [BackendsNext]_backendsVars
  PROVE  BackendsInv'
<1>1. CASE UNCHANGED backendsVars
  <2>1. \A o : Sound(o)' = Sound(o) /\ Wanted(o)' = Wanted(o)
    BY <1>1 DEF backendsVars, Sound, Wanted
  <2> QED
    BY <1>1, <2>1 DEF backendsVars, BackendsInv, BackendsTypeOK, SaidInv, BuilderInv, SwitchInv,
       PlainInv, KeepaliveInv, RegisteredInv, BackendInv
<1> QED
  BY <1>1, ValueCallsKeep, SwitchKeeps, TCPKeepaliveEnableKeeps, HostCallsKeep DEF BackendsNext

\* The configuration, the switches, the registration and the Backends agree
\* with the calls made so far, for any durations, counts and number of calls.
THEOREM BackendsInvariance == BackendsSpec => []BackendsInv
<1>1. BackendsInv /\ [BackendsNext]_backendsVars => BackendsInv'
  BY BackendsStep
<1> QED
  BY <1>1, BackendsInitHolds, PTL DEF BackendsSpec

\* The fields of a configuration are uint32 words or strings, and the host's
\* is one (BackendOptions, RegisterDynamicBackend).
THEOREM BackendsTypeCorrect == BackendsSpec => []BackendsTypeOK
<1>1. BackendsInv => BackendsTypeOK
  BY DEF BackendsInv
<1> QED
  BY <1>1, BackendsInvariance, PTL

\* What the builder has registered is what its calls have said, in whatever
\* order they came, but for the times the check of BackendOptions is wrong
\* about, and no call was refused (RegisterDynamicBackend).
THEOREM RegistrationIsAsSaid == BackendsSpec => []RegisteredAsSaid
<1>1. BackendsInv => RegisteredAsSaid
  BY DEF BackendsInv, RegisteredInv, BuilderInv, Sound, RegisteredAsSaid
<1> QED
  BY <1>1, BackendsInvariance, PTL

\* TLS, the pool, gRPC and TCP keepalives are registered as the last call that
\* speaks of them has left them, an option that turns TLS or keepalives on as a
\* side effect included.
THEOREM SwitchesHaveTheLastWord == BackendsSpec => []LastWordOnSwitches
<1>1. BackendsInv => LastWordOnSwitches
  <2> SUFFICES ASSUME BackendsInv, host # Unset, host.by = "builder"
               PROVE  LastWordOnSwitches
    BY DEF LastWordOnSwitches
  <2>1. errs = {} /\ host.config.mask = mask /\ host.config.opts = opts
    BY DEF BackendsInv, RegisteredInv
  <2> QED
    BY <2>1 DEF BackendsInv, SwitchInv, PlainInv, KeepaliveInv, LastWordOnSwitches
<1> QED
  BY <1>1, BackendsInvariance, PTL

\* A Backend of either goroutine says of its target, its times, TLS and the
\* versions of TLS what the program set when it registered the name, or zero
\* (populateConfig).
THEOREM BackendsTell == BackendsSpec => []BackendTells
<1>1. ASSUME BackendsInv, NEW g \in Goroutines, backend[g] # Unset, host.by = "builder",
             NEW f \in Fields, backend[g][f] # Unset
      PROVE  \/ f = "use_ssl" /\ backend[g][f] = (said[f] = TRUE)
             \/ f = "dynamic" /\ backend[g][f] = TRUE
             \/ f = "target" /\ backend[g][f] = host.by
             \/ f \in Valued /\ said[f] = Unset /\ backend[g][f] = 0
             \/ f \in Valued /\ said[f] # Unset /\ (f \in Timing => ~Meant(said[f]))
             \/ f \in Valued /\ said[f] # Unset /\ backend[g][f] = Wanted(f)
  <2>1. PICK q \in Quiet : host # Unset /\ backend[g] = populateConfig(host.config, q)
    BY <1>1 DEF BackendsInv, BackendInv
  <2>2. /\ errs = {} /\ host.config.mask = mask /\ host.config.opts = opts
        /\ host.config.target = "builder"
    BY <1>1, <2>1 DEF BackendsInv, RegisteredInv
  <2>3. backend[g][f] = HostSays(host.config, f)
    BY <1>1, <2>1 DEF populateConfig
  <2>4. CASE f = "use_ssl"
    <3>1. backend[g][f] = ("use_ssl" \in mask)
      BY <2>2, <2>3, <2>4 DEF HostSays, BackendIsSSL, Timing, Versions
    <3> QED
      BY <1>1, <2>4, <3>1 DEF BackendsInv, SwitchInv, PlainInv
  <2>5. CASE f = "dynamic"
    <3>1. backend[g][f] = BackendIsDynamic(host.config)
      BY <2>3, <2>5 DEF HostSays, Timing, Versions
    <3> QED
      BY <2>2, <2>5, <3>1 DEF BackendIsDynamic
  <2>6. CASE f = "target"
    <3>1. backend[g][f] = "builder"
      BY <2>2, <2>3, <2>6 DEF HostSays, BackendGetTarget, Timing, Versions
    <3> QED
      BY <1>1, <2>6, <3>1
  <2>7. CASE f \in Timing \cup Versions \cup {"host_override"}
    <3>1. /\ f \in Valued /\ f \notin Keepalive
          /\ f \in Timeouts => f \in Timing
      BY <2>7 DEF Timing, Versions, Valued, Timeouts, Keepalive, KeepaliveTimes
    <3>2. backend[g][f] = Given(host.config, f)
      <4>1. CASE f \in Timing
        BY <2>3, <4>1 DEF HostSays, BackendGetTimeout, Timing, Versions
      <4>2. CASE f \in Versions
        BY <2>3, <4>2 DEF HostSays, BackendGetSSLVersion, Timing, Versions
      <4>3. CASE f = "host_override"
        BY <2>3, <4>3 DEF HostSays, BackendGetOverrideHost, Timing, Versions
      <4> QED
        BY <2>7, <4>1, <4>2, <4>3
    <3>5. Given(host.config, f) = IF f \in mask THEN opts[f] ELSE 0
      BY <2>2 DEF Given
    <3>3. /\ Sound(f) => Flag(f) \in mask /\ opts[f] = Wanted(f)
          /\ said[f] = Unset => f \notin mask
      BY <1>1, <2>2, <3>1 DEF BackendsInv, BuilderInv
    <3>4. Flag(f) = f
      BY <3>1 DEF Flag
    <3> QED
      BY <3>1, <3>2, <3>3, <3>4, <3>5 DEF Sound
  <2> QED
    BY <2>4, <2>5, <2>6, <2>7 DEF Fields
<1>2. BackendsInv => BackendTells
  BY <1>1 DEF BackendTells
<1> QED
  BY <1>2, BackendsInvariance, PTL
=============================================================================
