-------------------------- MODULE GuestCacheProofs -------------------------
(***************************************************************************)
(* The safety of sendWithGuestCache for any number of sandboxes and of     *)
(* calls of Send in each.                                                  *)
(***************************************************************************)
EXTENDS GuestCache, HTTPCacheProofs, FiniteSetTheorems

\* How the state of one Send hangs together: where its handle can be, and
\* which of its steps and of its sandbox's states exclude each other.
SendInv(s) ==
  /\ pc[s] = "new" => lookup[s].st = "none"
  /\ lookup[s].st = "waiting" => pc[s] = "looking"
  /\ pc[s] \in {"looking", "sent", "candidate", "copying"} =>
       /\ lookup[s].st \in {"waiting", "open"}
       /\ life[Home[s]] = "serving"
  /\ pc[s] \notin {"done", "dead"} => bg[s] = "off" /\ res[s] = "none"
  /\ BgActive(s) => lookup[s].st = "open"
  /\ bg[s] = "leaked" => lookup[s].st = "open" \/ life[Home[s]] \in {"exited", "crashed"}
  /\ res[s] = "error" => bg[s] = "off" /\ lookup[s].st \in {"none", "closed"}
  /\ lookup[s].st = "open" => life[Home[s]] \in {"serving", "draining"}

\* The types of the guest's variables; that the counter of the wait group is
\* never negative is left to WaitGroupInv.
GuestTypeOK ==
  /\ pc \in [Sends -> PCs]
  /\ res \in [Sends -> Results]
  /\ bg \in [Sends -> BgStates]
  /\ life \in [Sandboxes -> {"serving", "draining", "exited", "crashed"}]
  /\ swrPending \in [Sandboxes -> Int]

WeakTypeOK == HostTypeOK /\ GuestTypeOK

\* Who waits, waits for an entry that collapses and for a leader.
CollapseInv == Waiters # {} => Collapses(entry) /\ holder # None

\* The inductive invariant without the wait group.
CoreInv ==
  /\ WeakTypeOK
  /\ \A s \in Sends : SendInv(s)
  /\ CollapseInv
  /\ ObligationTracked

\* The goroutines that guestCacheSWRPending counts.
ActiveOf(x) == {s \in SendsOf(x) : BgActive(s)}

\* swrPending counts the revalidations that have not called Done.
WaitGroupInv == \A x \in Sandboxes : swrPending[x] = Cardinality(ActiveOf(x))

IInv == CoreInv /\ WaitGroupInv

\* The invariant without the wait group holds at the start.
LEMMA InitCore == Init => CoreInv
BY NoneAssumption
   DEF Init, HostInit, NoHandle, CoreInv, WeakTypeOK, HostTypeOK, GuestTypeOK, SendInv, BgActive, CollapseInv,
       Waiters, ObligationTracked, Owes, Working, Flags, Entries, PCs, Results, BgStates

\* The type invariant, as the facts about the host and about Send.
LEMMA TypeSplit == WeakTypeOK <=> /\ GuestTypeOK
                              /\ entry \in Entries
                              /\ holder \in Sends \cup {None}
                              /\ lookup \in Lookups
                              /\ stream \in Sends \cup {None}
BY DEF WeakTypeOK, HostTypeOK, GuestTypeOK, Lookups

\* Every return of the main goroutine that closes the cache handle keeps the
\* invariant.
LEMMA ReturnClosed ==
  ASSUME CoreInv, NEW s \in Sends, NEW r \in {"response", "error"},
         pc[s] \in {"looking", "sent", "candidate", "copying"},
         lookup[s].st = "open",
         TransactionClose(s), Return(s, r),
         UNCHANGED <<bg, life, swrPending>>
  PROVE  CoreInv'
<1> DEFINE c == Closed({s})
<1> USE HomeAssumption, NoneAssumption
<1>1. lookup \in Lookups /\ holder \in Sends \cup {None} /\ GuestTypeOK /\ entry' = entry /\ stream' = stream
  BY TypeSplit DEF CoreInv, TransactionClose
<1>2. /\ c \in Lookups
      /\ \A t \in Sends : t # s => c[t] = lookup[t]
      /\ c[s].st \in {"none", "closed"}
  BY <1>1, ClosedEffect
<1>3. HandOver({s}, c)
  BY DEF TransactionClose
<1> HIDE DEF c
<1>4. /\ lookup' \in Lookups
      /\ holder' \in Sends \cup {None}
      /\ holder # s => lookup' = c /\ holder' = holder
      /\ holder = s =>
              \/ holder' = None /\ lookup' = c /\ \A w \in Sends : c[w].st # "waiting"
              \/ /\ holder' \in Sends
                 /\ c[holder'].st = "waiting"
                 /\ lookup'[holder'].st = "open"
                 /\ "must" \in lookup'[holder'].flags
                 /\ \A w \in Sends : w # holder' => lookup'[w] = c[w]
  BY <1>1, <1>2, <1>3, HandOverAlone
<1>5. GuestTypeOK'
  BY <1>1 DEF GuestTypeOK, Return, PCs, Results
<1>6. ASSUME NEW t \in Sends PROVE SendInv(t)'
  BY <1>1, <1>2, <1>4, <1>5 DEF CoreInv, SendInv, Return, GuestTypeOK, BgActive
<1>7. CollapseInv'
  BY <1>1, <1>2, <1>4 DEF CoreInv, CollapseInv, Waiters
<1>8. ASSUME NEW t \in Sends PROVE (holder = t <=> Owes(t))'
  BY <1>1, <1>2, <1>4, <1>5 DEF CoreInv, SendInv, ObligationTracked, Owes, Working, Return, GuestTypeOK, BgActive
<1>9. WeakTypeOK'
  BY <1>1, <1>4, <1>5, TypeSplit DEF CoreInv, WeakTypeOK, HostTypeOK, GuestTypeOK, Lookups
<1>10. QED
  BY <1>6, <1>7, <1>8, <1>9 DEF CoreInv, ObligationTracked

\* Every step of the main goroutine that fulfils the obligation keeps the
\* invariant: s goes on to copy the body, or returns.
LEMMA MainFulfils ==
  ASSUME CoreInv, NEW s \in Sends, NEW l, NEW flags \in SUBSET Flags,
         holder = s, pc[s] \in {"sent", "candidate"},
         \/ l = lookup /\ Goto(s, "copying")
         \/ l \in {lookup, Closed({s})} /\ Return(s, "response")
         \/ l = Closed({s}) /\ Return(s, "error"),
         "must" \notin flags, CompleteCollapse(flags, l),
         entry' \in Entries, stream' \in Sends \cup {None},
         UNCHANGED <<bg, life, swrPending>>
  PROVE  CoreInv'
<1> USE HomeAssumption, NoneAssumption
<1>1. lookup \in Lookups /\ holder \in Sends \cup {None} /\ GuestTypeOK
  BY TypeSplit DEF CoreInv
<1>2. /\ l \in Lookups
      /\ \A t \in Sends : t # s => l[t] = lookup[t]
      /\ l = lookup \/ l[s].st \in {"none", "closed"}
      /\ Return(s, "error") => l[s].st \in {"none", "closed"}
  BY <1>1, ClosedEffect DEF Return, Goto, GuestTypeOK, Results
<1>3. /\ lookup' \in Lookups
      /\ holder' = None
      /\ \A w \in Sends :
              IF l[w].st = "waiting"
                THEN lookup'[w].st = "open" /\ lookup'[w].flags = flags
                ELSE lookup'[w] = l[w]
  BY <1>2, CompleteCollapseEffect
<1>4. lookup[s].st = "open"
  BY <1>1 DEF CoreInv, SendInv, Lookups
<1>5. GuestTypeOK'
  BY <1>1 DEF GuestTypeOK, Return, Goto, PCs, Results
<1>6. ASSUME NEW t \in Sends PROVE SendInv(t)'
  BY <1>1, <1>2, <1>3, <1>4, <1>5 DEF CoreInv, SendInv, Return, Goto, GuestTypeOK, BgActive
<1>7. CollapseInv'
  BY <1>2, <1>3 DEF CollapseInv, Waiters
<1>8. ASSUME NEW t \in Sends PROVE (holder = t <=> Owes(t))'
  BY <1>1, <1>2, <1>3, <1>4, <1>5
     DEF CoreInv, SendInv, ObligationTracked, Owes, Working, Return, Goto, GuestTypeOK, BgActive
<1>9. WeakTypeOK'
  BY <1>3, <1>5 DEF WeakTypeOK, HostTypeOK, GuestTypeOK, Lookups
<1>10. QED
  BY <1>6, <1>7, <1>8, <1>9 DEF CoreInv, ObligationTracked

\* The same for a background revalidation.
LEMMA BgFulfils ==
  ASSUME CoreInv, NEW s \in Sends, NEW l, NEW flags \in SUBSET Flags,
         holder = s, bg[s] = "candidate",
         \/ l = lookup /\ BgGoto(s, "copying")
         \/ l = Closed({s}) /\ BgDone(s, "closed"),
         "must" \notin flags, CompleteCollapse(flags, l),
         entry' \in Entries, stream' \in Sends \cup {None},
         BgUnchanged
  PROVE  CoreInv'
<1> USE HomeAssumption, NoneAssumption
<1>1. lookup \in Lookups /\ holder \in Sends \cup {None} /\ GuestTypeOK
  BY TypeSplit DEF CoreInv
<1>2. /\ l \in Lookups
      /\ \A t \in Sends : t # s => l[t] = lookup[t]
      /\ \/ l = lookup /\ bg'[s] = "copying"
         \/ l[s].st \in {"none", "closed"} /\ bg'[s] = "closed"
      /\ \A t \in Sends : t # s => bg'[t] = bg[t]
  BY <1>1, ClosedEffect DEF BgGoto, BgDone, GuestTypeOK
<1>3. /\ lookup' \in Lookups
      /\ holder' = None
      /\ \A w \in Sends :
              IF l[w].st = "waiting"
                THEN lookup'[w].st = "open" /\ lookup'[w].flags = flags
                ELSE lookup'[w] = l[w]
  BY <1>2, CompleteCollapseEffect
<1>4. GuestTypeOK'
  BY <1>1 DEF GuestTypeOK, BgGoto, BgDone, BgUnchanged, BgStates
<1>5. ASSUME NEW t \in Sends PROVE SendInv(t)'
  BY <1>1, <1>2, <1>3, <1>4 DEF CoreInv, SendInv, BgUnchanged, GuestTypeOK, BgActive
<1>6. CollapseInv'
  BY <1>2, <1>3 DEF CollapseInv, Waiters
<1>7. ASSUME NEW t \in Sends PROVE (holder = t <=> Owes(t))'
  BY <1>1, <1>2, <1>3, <1>4
     DEF CoreInv, SendInv, ObligationTracked, Owes, Working, BgUnchanged, GuestTypeOK, BgActive
<1>8. WeakTypeOK'
  BY <1>3, <1>4 DEF WeakTypeOK, HostTypeOK, GuestTypeOK, Lookups
<1>9. QED
  BY <1>5, <1>6, <1>7, <1>8 DEF CoreInv, ObligationTracked

\* DoNotStore that succeeds: the obligation goes to a waiter, the handle stays.
LEMMA ReturnAbandoned ==
  ASSUME CoreInv, NEW s \in Sends, pc[s] = "candidate",
         TransactionAbandon(s, lookup), Return(s, "response"),
         UNCHANGED <<bg, life, swrPending>>
  PROVE  CoreInv'
<1> USE HomeAssumption, NoneAssumption
<1>1. /\ lookup \in Lookups /\ holder = s /\ GuestTypeOK
      /\ entry' = entry /\ stream' = stream /\ entry \in Entries /\ stream \in Sends \cup {None}
  BY TypeSplit DEF CoreInv, TransactionAbandon
<1>2. /\ lookup' \in Lookups
      /\ holder' \in Sends \cup {None}
      /\ \/ holder' = None /\ lookup' = lookup /\ \A w \in Sends : lookup[w].st # "waiting"
         \/ /\ holder' \in Sends
            /\ lookup[holder'].st = "waiting"
            /\ lookup'[holder'].st = "open"
            /\ "must" \in lookup'[holder'].flags
            /\ \A w \in Sends : w # holder' => lookup'[w] = lookup[w]
  BY <1>1, HandOverEffect DEF TransactionAbandon
<1>3. GuestTypeOK'
  BY <1>1 DEF GuestTypeOK, Return, PCs, Results
<1>4. ASSUME NEW t \in Sends PROVE SendInv(t)'
  BY <1>1, <1>2, <1>3 DEF CoreInv, SendInv, Return, GuestTypeOK, BgActive
<1>5. CollapseInv'
  BY <1>1, <1>2 DEF CoreInv, CollapseInv, Waiters
<1>6. ASSUME NEW t \in Sends PROVE (holder = t <=> Owes(t))'
  BY <1>1, <1>2, <1>3 DEF CoreInv, SendInv, ObligationTracked, Owes, Working, Return, GuestTypeOK, BgActive
<1>7. WeakTypeOK'
  BY <1>1, <1>2, <1>3 DEF WeakTypeOK, HostTypeOK, GuestTypeOK, Lookups
<1>8. QED
  BY <1>4, <1>5, <1>6, <1>7 DEF CoreInv, ObligationTracked

\* A background revalidation that ends with its handle closed and its
\* obligation, if it still had it, given up.
LEMMA BgCloses ==
  ASSUME CoreInv, NEW s \in Sends, bg[s] = "candidate",
         TransactionClose(s), BgDone(s, "closed"), BgUnchanged
  PROVE  CoreInv'
<1> DEFINE c == Closed({s})
<1> USE HomeAssumption, NoneAssumption
<1>1. /\ lookup \in Lookups /\ holder \in Sends \cup {None} /\ GuestTypeOK
      /\ entry' = entry /\ stream' = stream /\ entry \in Entries /\ stream \in Sends \cup {None}
  BY TypeSplit DEF CoreInv, TransactionClose
<1>2. /\ c \in Lookups
      /\ \A t \in Sends : t # s => c[t] = lookup[t]
      /\ c[s].st \in {"none", "closed"}
  BY <1>1, ClosedEffect
<1>3. HandOver({s}, c)
  BY DEF TransactionClose
<1> HIDE DEF c
<1>4. /\ lookup' \in Lookups
      /\ holder' \in Sends \cup {None}
      /\ holder # s => lookup' = c /\ holder' = holder
      /\ holder = s =>
              \/ holder' = None /\ lookup' = c /\ \A w \in Sends : c[w].st # "waiting"
              \/ /\ holder' \in Sends
                 /\ c[holder'].st = "waiting"
                 /\ lookup'[holder'].st = "open"
                 /\ "must" \in lookup'[holder'].flags
                 /\ \A w \in Sends : w # holder' => lookup'[w] = c[w]
  BY <1>1, <1>2, <1>3, HandOverAlone
<1>5. GuestTypeOK' /\ bg'[s] = "closed" /\ \A t \in Sends : t # s => bg'[t] = bg[t]
  BY <1>1 DEF GuestTypeOK, BgDone, BgUnchanged, BgStates
<1>6. ASSUME NEW t \in Sends PROVE SendInv(t)'
  BY <1>1, <1>2, <1>4, <1>5 DEF CoreInv, SendInv, BgUnchanged, GuestTypeOK, BgActive
<1>7. CollapseInv'
  BY <1>1, <1>2, <1>4 DEF CoreInv, CollapseInv, Waiters
<1>8. ASSUME NEW t \in Sends PROVE (holder = t <=> Owes(t))'
  BY <1>1, <1>2, <1>4, <1>5
     DEF CoreInv, SendInv, ObligationTracked, Owes, Working, BgUnchanged, GuestTypeOK, BgActive
<1>9. WeakTypeOK'
  BY <1>1, <1>4, <1>5 DEF WeakTypeOK, HostTypeOK, GuestTypeOK, Lookups
<1>10. QED
  BY <1>6, <1>7, <1>8, <1>9 DEF CoreInv, ObligationTracked

\* The end of a sandbox, orderly or not.
LEMMA SandboxEnds ==
  ASSUME CoreInv, WaitGroupInv, NEW x \in Sandboxes, Exit(x) \/ Crash(x)
  PROVE  CoreInv'
<1> DEFINE gone == SendsOf(x)
<1> DEFINE c == Closed(gone)
<1> USE HomeAssumption, NoneAssumption
<1>1. /\ lookup \in Lookups /\ holder \in Sends \cup {None} /\ GuestTypeOK
      /\ entry \in Entries /\ stream \in Sends \cup {None} /\ gone \in SUBSET Sends
  BY TypeSplit DEF CoreInv, SendsOf
<1>2. /\ c \in Lookups
      /\ \A t \in Sends : t \notin gone => c[t] = lookup[t]
      /\ \A t \in gone : c[t].st \in {"none", "closed"}
      /\ \A t \in gone : lookup[t].st = "none" => c[t].st = "none"
  BY <1>1, ClosedEffect
<1>3. /\ HandOver(gone, c)
      /\ entry' \in {entry, "absent"} /\ stream' \in {stream, None}
  BY DEF Exit, Crash, DropHandles
<1>4. \A t \in Sends : t \in gone <=> Home[t] = x
  BY DEF SendsOf
<1> HIDE DEF c, gone
<1>5. /\ lookup' \in Lookups
      /\ holder' \in Sends \cup {None}
      /\ holder \notin gone => lookup' = c /\ holder' = holder
      /\ holder \in gone =>
              \/ holder' = None /\ lookup' = c /\ \A w \in Sends : c[w].st # "waiting"
              \/ /\ holder' \in Sends
                 /\ c[holder'].st = "waiting"
                 /\ lookup'[holder'].st = "open"
                 /\ "must" \in lookup'[holder'].flags
                 /\ \A w \in Sends : w # holder' => lookup'[w] = c[w]
  BY <1>1, <1>2, <1>3, HandOverEffect
<1>6. GuestTypeOK'
  BY <1>1 DEF GuestTypeOK, Exit, Crash, PCs, Results, BgStates
<1>7. ASSUME NEW t \in Sends PROVE SendInv(t)'
  <2>1. CASE Exit(x)
    <3>1. Cardinality(ActiveOf(x)) = 0
      BY <2>1 DEF WaitGroupInv, Exit
    <3>2. IsFiniteSet(ActiveOf(x))
      BY SendsAssumption, FS_Subset DEF ActiveOf, SendsOf
    <3>3. ActiveOf(x) = {}
      BY <3>1, <3>2, FS_EmptySet
    <3>4. Home[t] = x => ~BgActive(t)
      BY <3>3 DEF ActiveOf, SendsOf
    <3>5. QED
      BY <1>1, <1>2, <1>4, <1>5, <1>6, <2>1, <3>4
         DEF CoreInv, SendInv, Exit, GuestTypeOK, BgActive
  <2>2. CASE Crash(x)
    BY <1>1, <1>2, <1>4, <1>5, <1>6, <2>2 DEF CoreInv, SendInv, Crash, GuestTypeOK, BgActive
  <2>3. QED BY <2>1, <2>2
<1>8. CollapseInv'
  BY <1>1, <1>2, <1>3, <1>5 DEF CoreInv, CollapseInv, Waiters, Collapses
<1>9. ASSUME NEW t \in Sends PROVE (holder = t <=> Owes(t))'
  <2>1. CASE Exit(x)
    BY <1>1, <1>2, <1>4, <1>5, <1>6, <2>1
       DEF CoreInv, SendInv, ObligationTracked, Owes, Working, Exit, GuestTypeOK, BgActive
  <2>2. CASE Crash(x)
    BY <1>1, <1>2, <1>4, <1>5, <1>6, <2>2
       DEF CoreInv, SendInv, ObligationTracked, Owes, Working, Crash, GuestTypeOK, BgActive
  <2>3. QED BY <2>1, <2>2
<1>10. WeakTypeOK'
  BY <1>1, <1>3, <1>5, <1>6 DEF WeakTypeOK, HostTypeOK, GuestTypeOK, Lookups, Entries
<1>11. QED
  BY <1>7, <1>8, <1>9, <1>10 DEF CoreInv, ObligationTracked

\* The steps that neither fulfil an obligation nor give one up.
LEMMA LookupStep ==
  ASSUME CoreInv, NEW s \in Sends, SendLookup(s)
  PROVE  CoreInv'
<1> USE HomeAssumption, NoneAssumption
<1>1. /\ lookup \in Lookups /\ holder \in Sends \cup {None} /\ GuestTypeOK
      /\ entry' = entry /\ stream' = stream /\ entry \in Entries /\ stream \in Sends \cup {None}
  BY TypeSplit DEF CoreInv, SendLookup, TransactionLookup
<1>2. /\ EntryFlags(entry) \in SUBSET Flags
      /\ "must" \notin EntryFlags(entry)
      /\ EntryFlags(entry) \cup {"must"} \in SUBSET Flags
  BY EntryFlagsType DEF Flags
<1>3. /\ lookup' \in Lookups
      /\ holder' \in Sends \cup {None}
      /\ \A t \in Sends : t # s => lookup'[t] = lookup[t]
      /\ \/ /\ holder = None /\ holder' = s
            /\ lookup'[s].st = "open" /\ "must" \in lookup'[s].flags
         \/ /\ holder # None /\ holder' = holder /\ Collapses(entry)
            /\ lookup'[s].st = "waiting"
         \/ /\ holder' = holder
            /\ lookup'[s].st = "open" /\ "must" \notin lookup'[s].flags
  BY <1>1, <1>2 DEF SendLookup, TransactionLookup, Lookups, Open
<1>4. GuestTypeOK'
  BY <1>1 DEF GuestTypeOK, SendLookup, Goto, PCs
<1>5. ASSUME NEW t \in Sends PROVE SendInv(t)'
  BY <1>1, <1>3, <1>4 DEF CoreInv, SendInv, SendLookup, Ready, Goto, GuestTypeOK, BgActive
<1>6. CollapseInv'
  BY <1>1, <1>3 DEF CoreInv, CollapseInv, Waiters
<1>7. ASSUME NEW t \in Sends PROVE (holder = t <=> Owes(t))'
  BY <1>1, <1>3, <1>4
     DEF CoreInv, SendInv, ObligationTracked, Owes, Working, SendLookup, Ready, Goto, GuestTypeOK, BgActive
<1>8. WeakTypeOK'
  BY <1>1, <1>3, <1>4 DEF WeakTypeOK, HostTypeOK, GuestTypeOK, Lookups
<1>9. QED
  BY <1>5, <1>6, <1>7, <1>8 DEF CoreInv, ObligationTracked

\* The body has been copied into the cache: only the stream ends.
LEMMA CopyStep ==
  ASSUME CoreInv, NEW s \in Sends, CopyDone(s) \/ BgCopyEnds(s)
  PROVE  CoreInv'
<1> USE HomeAssumption, NoneAssumption
<1>1. /\ lookup \in Lookups /\ holder \in Sends \cup {None} /\ GuestTypeOK
      /\ entry' = entry /\ holder' = holder /\ entry \in Entries /\ stream \in Sends \cup {None}
      /\ stream' \in {stream, None}
  BY TypeSplit DEF CoreInv, CopyDone, BgCopyEnds, BodyClose
<1>2. /\ lookup' \in Lookups
      /\ \A t \in Sends : t # s => lookup'[t] = lookup[t]
      /\ \/ lookup'[s] = lookup[s] /\ Return(s, "response")
         \/ lookup'[s].st \in {"none", "closed"}
  BY <1>1, ClosedEffect DEF CopyDone, BgCopyEnds
<1>3. lookup[s].st = "open" /\ (pc[s] = "copying" \/ bg[s] = "copying")
  BY <1>1 DEF CoreInv, SendInv, CopyDone, BgCopyEnds, At, BgAt, BgActive, Lookups
<1>4. GuestTypeOK'
  BY <1>1 DEF GuestTypeOK, CopyDone, BgCopyEnds, BgDone, BgUnchanged, Return, PCs, Results, BgStates
<1>5. ASSUME NEW t \in Sends PROVE SendInv(t)'
  BY <1>1, <1>2, <1>3, <1>4
     DEF CoreInv, SendInv, CopyDone, BgCopyEnds, At, BgAt, BgDone, BgUnchanged, Return,
         GuestTypeOK, BgActive
<1>6. CollapseInv'
  BY <1>1, <1>2, <1>3 DEF CoreInv, CollapseInv, Waiters
<1>7. ASSUME NEW t \in Sends PROVE (holder = t <=> Owes(t))'
  BY <1>1, <1>2, <1>3, <1>4
     DEF CoreInv, SendInv, ObligationTracked, Owes, Working, CopyDone, BgCopyEnds, At, BgAt, BgDone,
         BgUnchanged, Return, GuestTypeOK, BgActive
<1>8. WeakTypeOK'
  BY <1>1, <1>2, <1>4 DEF WeakTypeOK, HostTypeOK, GuestTypeOK, Lookups
<1>9. QED
  BY <1>5, <1>6, <1>7, <1>8 DEF CoreInv, ObligationTracked

\* Steps that leave the host's cache alone.
LEMMA LocalStep ==
  ASSUME CoreInv, NEW s \in Sends, UNCHANGED hostVars,
         \/ SendUncacheable(s) \/ ReturnCachedAndRevalidate(s) \/ FetchForCaching(s)
         \/ BackendAnswers(s) \/ BgAnswer(s) \/ BgCandidateFails(s)
  PROVE  CoreInv'
<1> USE HomeAssumption, NoneAssumption
<1> USE DEF SendUncacheable, ReturnCachedAndRevalidate, FetchForCaching, BackendAnswers,
            BgAnswer, BgCandidateFails, Ready, At, Looked, BgAt, Goto, Return, BgGoto, BgDone,
            BgUnchanged
<1>1. GuestTypeOK /\ lookup \in Lookups /\ lookup' = lookup /\ holder' = holder /\ entry' = entry /\ stream' = stream
  BY TypeSplit DEF CoreInv, hostVars
<1>2. GuestTypeOK'
  <2>1. (swrPending \in [Sandboxes -> Int])'
    BY <1>1 DEF GuestTypeOK
  <2>2. QED
    BY <1>1, <2>1 DEF GuestTypeOK, PCs, Results, BgStates
<1>3. ASSUME NEW t \in Sends PROVE SendInv(t)'
  BY <1>1, <1>2 DEF CoreInv, SendInv, GuestTypeOK, BgActive, Lookups
<1>4. CollapseInv'
  BY <1>1 DEF CoreInv, CollapseInv, Waiters
<1>5. ASSUME NEW t \in Sends PROVE (holder = t <=> Owes(t))'
  BY <1>1, <1>2 DEF CoreInv, SendInv, ObligationTracked, Owes, Working, GuestTypeOK, BgActive, Lookups
<1>6. WeakTypeOK'
  BY <1>1, <1>2 DEF CoreInv, WeakTypeOK, HostTypeOK, GuestTypeOK
<1>7. QED
  BY <1>3, <1>4, <1>5, <1>6 DEF CoreInv, ObligationTracked

\* The loop of ServeMany ends; time passes in the cache.
LEMMA EnvironmentStep ==
  ASSUME CoreInv,
         (\E x \in Sandboxes : StopServing(x)) \/ (Expire /\ UNCHANGED guestVars)
  PROVE  CoreInv'
<1> USE HomeAssumption, NoneAssumption
<1> USE DEF StopServing, InSend, SendsOf, Expire, guestVars, hostVars
<1>1. /\ GuestTypeOK /\ lookup \in Lookups /\ entry \in Entries /\ stream \in Sends \cup {None}
      /\ holder \in Sends \cup {None} /\ lookup' = lookup /\ holder' = holder
  BY TypeSplit DEF CoreInv
<1>2. GuestTypeOK' /\ (entry \in Entries)' /\ (stream \in Sends \cup {None})'
  BY <1>1 DEF GuestTypeOK, Entries
<1>3. ASSUME NEW t \in Sends PROVE SendInv(t)'
  BY <1>1, <1>2 DEF CoreInv, SendInv, GuestTypeOK, BgActive, Lookups
<1>4. CollapseInv'
  BY <1>1 DEF CoreInv, CollapseInv, Waiters, Collapses
<1>5. ASSUME NEW t \in Sends PROVE (holder = t <=> Owes(t))'
  BY <1>1 DEF CoreInv, ObligationTracked, Owes, Working
<1>6. WeakTypeOK'
  BY <1>1, <1>2 DEF WeakTypeOK, HostTypeOK, GuestTypeOK, Lookups
<1>7. QED
  BY <1>3, <1>4, <1>5, <1>6 DEF CoreInv, ObligationTracked

\* One step per action of the main goroutine.
LEMMA MainStep ==
  ASSUME CoreInv, NEW s \in Sends, Main(s)
  PROVE  CoreInv'
<1>1. /\ pc[s] \in {"looking", "sent", "candidate", "copying"} => lookup[s].st \in {"waiting", "open"}
      /\ lookup[s].st = "waiting" => pc[s] = "looking"
      /\ entry \in Entries /\ stream \in Sends \cup {None}
  BY DEF CoreInv, WeakTypeOK, HostTypeOK, GuestTypeOK, SendInv
<1>2. ASSUME NEW e PROVE EntryFlags(e) \in SUBSET Flags /\ "must" \notin EntryFlags(e)
  BY EntryFlagsType
<1>3. CASE LookupFails(s)
  BY <1>1, <1>3, ReturnClosed DEF LookupFails, Looked, At
<1>4. CASE ReturnCached(s)
  BY <1>1, <1>4, ReturnClosed DEF ReturnCached, Looked, At
<1>5. CASE SendForCachingFails(s)
  BY <1>5, ReturnClosed DEF SendForCachingFails, Looked, At
<1>6. CASE SendOriginal(s)
  <2>1. PICK r \in {"response", "error"} : Return(s, r)
    BY <1>6 DEF SendOriginal
  <2>2. QED
    BY <1>6, <2>1, ReturnClosed DEF SendOriginal, Looked, At
<1>7. CASE CandidateFails(s)
  BY <1>1, <1>7, ReturnClosed DEF CandidateFails, NoCandidate, At
<1>8. CASE ReturnStale(s)
  <2>1. PICK r \in {"response", "error"} : Return(s, r)
    BY <1>8 DEF ReturnStale
  <2>2. {"found", "usable", "stale", "sie"} \in SUBSET Flags
    BY DEF Flags
  <2>3. CASE TransactionChooseStale(s, Closed({s}))
    BY <1>1, <1>8, <2>1, <2>2, <2>3, MainFulfils
       DEF ReturnStale, TransactionChooseStale, NoCandidate, At
  <2>4. CASE TransactionClose(s)
    BY <1>1, <1>8, <2>1, <2>4, ReturnClosed DEF ReturnStale, NoCandidate, At
  <2>5. QED
    BY <1>8, <2>3, <2>4 DEF ReturnStale
<1>9. CASE StoreFails(s)
  BY <1>1, <1>9, ReturnClosed DEF StoreFails, At
<1>10. CASE StoreInsert(s)
  BY <1>1, <1>2, <1>10, MainFulfils DEF StoreInsert, TransactionInsert, At, Entries
<1>11. CASE StoreUpdate(s)
  BY <1>1, <1>2, <1>11, MainFulfils DEF StoreUpdate, ReturnStored, TransactionUpdate, At, Entries
<1>12. CASE DoNotStore(s)
  <2>1. CASE TransactionAbandon(s, lookup) /\ Return(s, "response")
    BY <1>12, <2>1, ReturnAbandoned DEF DoNotStore, ReturnStored, At
  <2>2. CASE TransactionAbandon(s, Closed({s})) /\ Return(s, "error")
    BY <1>1, <1>12, <2>2, ReturnClosed
       DEF DoNotStore, ReturnStored, TransactionAbandon, TransactionClose, At
  <2>3. QED
    BY <1>12, <2>1, <2>2 DEF DoNotStore, ReturnStored
<1>13. CASE RecordUncacheable(s)
  BY <1>1, <1>2, <1>13, MainFulfils
     DEF RecordUncacheable, ReturnStored, TransactionRecordNotCacheable, At, Entries
<1>14. CASE CopyFails(s)
  BY <1>1, <1>14, ReturnClosed DEF CopyFails, At
<1>15. CASE CopyDone(s)
  BY <1>15, CopyStep
<1>16. CASE SendLookup(s)
  BY <1>16, LookupStep
<1>17. CASE \/ SendUncacheable(s) \/ ReturnCachedAndRevalidate(s) \/ FetchForCaching(s)
            \/ BackendAnswers(s)
  <2>1. UNCHANGED hostVars
    BY <1>17 DEF SendUncacheable, ReturnCachedAndRevalidate, FetchForCaching, BackendAnswers
  <2>2. QED
    BY <1>17, <2>1, LocalStep
<1>18. QED
  BY <1>3, <1>4, <1>5, <1>6, <1>7, <1>8, <1>9, <1>10, <1>11, <1>12, <1>13, <1>14, <1>15,
     <1>16, <1>17 DEF Main

\* One step per action of a background revalidation.
LEMMA BackgroundStep ==
  ASSUME CoreInv, NEW s \in Sends, Background(s)
  PROVE  CoreInv'
<1>1. entry \in Entries /\ stream \in Sends \cup {None}
  BY DEF CoreInv, WeakTypeOK, HostTypeOK
<1>2. ASSUME NEW e PROVE EntryFlags(e) \in SUBSET Flags /\ "must" \notin EntryFlags(e)
  BY EntryFlagsType
<1>3. CASE BgAnswer(s) \/ BgCandidateFails(s)
  <2>1. UNCHANGED hostVars
    BY <1>3 DEF BgAnswer, BgCandidateFails
  <2>2. QED
    BY <1>3, <2>1, LocalStep
<1>4. CASE BgStoreFails(s)
  BY <1>4, BgCloses DEF BgStoreFails, BgAt
<1>5. CASE BgStoreInsert(s)
  BY <1>1, <1>2, <1>5, BgFulfils DEF BgStoreInsert, TransactionInsert, BgAt, Entries
<1>6. CASE BgStore(s)
  <2>1. CASE TransactionUpdate(s, Closed({s}))
    BY <1>1, <1>2, <1>6, <2>1, BgFulfils DEF BgStore, TransactionUpdate, BgAt, Entries
  <2>2. CASE TransactionAbandon(s, Closed({s}))
    BY <1>6, <2>2, BgCloses DEF BgStore, BgAt, TransactionAbandon, TransactionClose
  <2>3. CASE TransactionRecordNotCacheable(s, Closed({s}))
    BY <1>1, <1>2, <1>6, <2>3, BgFulfils
       DEF BgStore, TransactionRecordNotCacheable, BgAt, Entries
  <2>4. QED
    BY <1>6, <2>1, <2>2, <2>3 DEF BgStore
<1>7. CASE BgCopyEnds(s)
  BY <1>7, CopyStep
<1>8. QED
  BY <1>3, <1>4, <1>5, <1>6, <1>7 DEF Background

\* Every step keeps the invariant without the wait group.
LEMMA CoreStep ==
  ASSUME IInv, [Next]_vars
  PROVE  CoreInv'
<1> USE DEF IInv
<1>1. CASE \E s \in Sends : Main(s) \/ Background(s)
  BY <1>1, MainStep, BackgroundStep
<1>2. CASE \E x \in Sandboxes : Exit(x) \/ Crash(x)
  BY <1>2, SandboxEnds
<1>3. CASE (\E x \in Sandboxes : StopServing(x)) \/ (Expire /\ UNCHANGED guestVars)
  BY <1>3, EnvironmentStep
<1>4. CASE UNCHANGED vars
  BY <1>4 DEF vars, hostVars, guestVars, CoreInv, WeakTypeOK, HostTypeOK, GuestTypeOK, SendInv, BgActive,
              CollapseInv, Waiters, ObligationTracked, Owes, Working
<1>5. QED
  BY <1>1, <1>2, <1>3, <1>4 DEF Next

\* No revalidation is running at the start.
LEMMA InitWaitGroup == Init => WaitGroupInv
<1> SUFFICES ASSUME Init, NEW x \in Sandboxes PROVE swrPending[x] = Cardinality(ActiveOf(x))
  BY DEF WaitGroupInv
<1>1. ActiveOf(x) = {} /\ swrPending[x] = 0
  BY DEF Init, ActiveOf, SendsOf, BgActive
<1>2. QED
  BY <1>1, FS_EmptySet

\* A step of s that starts its goroutine and counts it, or ends it and counts
\* it off, keeps the counter right; so does one that does neither.
LEMMA CounterStep ==
  ASSUME WeakTypeOK, WaitGroupInv, NEW s \in Sends,
         \A t \in Sends : t # s => bg'[t] = bg[t],
         \/ ~BgActive(s) /\ BgActive(s)' /\ swrPending' = [swrPending EXCEPT ![Home[s]] = @ + 1]
         \/ BgActive(s) /\ ~BgActive(s)' /\ swrPending' = [swrPending EXCEPT ![Home[s]] = @ - 1]
         \/ (BgActive(s) <=> BgActive(s)') /\ swrPending' = swrPending
  PROVE  WaitGroupInv'
<1> SUFFICES ASSUME NEW x \in Sandboxes PROVE (swrPending[x] = Cardinality(ActiveOf(x)))'
  BY DEF WaitGroupInv
<1>1. /\ swrPending[x] = Cardinality(ActiveOf(x))
      /\ swrPending \in [Sandboxes -> Int]
      /\ Home[s] \in Sandboxes
  BY HomeAssumption DEF WaitGroupInv, WeakTypeOK, GuestTypeOK
<1>2. IsFiniteSet(ActiveOf(x)) /\ Cardinality(ActiveOf(x)) \in Nat
  BY SendsAssumption, FS_Subset, FS_CardinalityType DEF ActiveOf, SendsOf
<1>3. \A t \in Sends : t # s => (BgActive(t) <=> BgActive(t)')
  BY DEF BgActive
<1>4. CASE Home[s] = x /\ ~BgActive(s) /\ BgActive(s)'
  <2>1. ActiveOf(x)' = ActiveOf(x) \cup {s} /\ s \notin ActiveOf(x)
    BY <1>3, <1>4 DEF ActiveOf, SendsOf
  <2>2. Cardinality(ActiveOf(x)') = Cardinality(ActiveOf(x)) + 1
    BY <1>2, <2>1, FS_AddElement
  <2>3. QED
    BY <1>1, <1>2, <1>4, <2>2
<1>5. CASE Home[s] = x /\ BgActive(s) /\ ~BgActive(s)'
  <2>1. ActiveOf(x)' = ActiveOf(x) \ {s} /\ s \in ActiveOf(x)
    BY <1>3, <1>5 DEF ActiveOf, SendsOf
  <2>2. Cardinality(ActiveOf(x)') = Cardinality(ActiveOf(x)) - 1
    BY <1>2, <2>1, FS_RemoveElement
  <2>3. QED
    BY <1>1, <1>2, <1>5, <2>2
<1>6. CASE Home[s] # x \/ (BgActive(s) <=> BgActive(s)')
  <2>1. ActiveOf(x)' = ActiveOf(x)
    BY <1>3, <1>6 DEF ActiveOf, SendsOf
  <2>2. QED
    BY <1>1, <1>6, <2>1
<1>7. QED
  BY <1>4, <1>5, <1>6

\* A step that leaves the goroutines and the counters alone.
LEMMA CounterStutter ==
  ASSUME WaitGroupInv, bg' = bg, swrPending' = swrPending
  PROVE  WaitGroupInv'
<1>1. \A x \in Sandboxes : ActiveOf(x)' = ActiveOf(x)
  BY DEF ActiveOf, SendsOf, BgActive
<1>2. QED
  BY <1>1 DEF WaitGroupInv

\* Every step keeps the counter of the wait group equal to the goroutines.
LEMMA WaitGroupStep ==
  ASSUME IInv, [Next]_vars
  PROVE  WaitGroupInv'
<1>1. WaitGroupInv /\ WeakTypeOK /\ bg \in [Sends -> BgStates] /\ CoreInv
  BY DEF IInv, CoreInv, WeakTypeOK, GuestTypeOK
<1>2. CASE \E s \in Sends : Main(s)
  <2>1. PICK s \in Sends : Main(s)
    BY <1>2
  <2>2. CASE ReturnCachedAndRevalidate(s)
    <3>1. bg[s] = "off" /\ bg'[s] = "spawned" /\ \A t \in Sends : t # s => bg'[t] = bg[t]
      BY <1>1, <2>2 DEF ReturnCachedAndRevalidate, Looked, At, CoreInv, SendInv
    <3>2. swrPending' = [swrPending EXCEPT ![Home[s]] = @ + 1]
      BY <2>2 DEF ReturnCachedAndRevalidate
    <3>3. ~BgActive(s) /\ BgActive(s)'
      BY <3>1 DEF BgActive
    <3>4. QED
      BY <1>1, <3>1, <3>2, <3>3, CounterStep
  <2>3. CASE ~ReturnCachedAndRevalidate(s)
    <3>1. bg' = bg /\ swrPending' = swrPending
      BY <2>1, <2>3
         DEF Main, SendUncacheable, SendLookup, LookupFails, ReturnCached, SendForCachingFails,
             FetchForCaching, SendOriginal, BackendAnswers, CandidateFails, ReturnStale,
             StoreFails, StoreInsert, StoreUpdate, DoNotStore, RecordUncacheable, ReturnStored,
             CopyDone, CopyFails
    <3>2. QED
      BY <1>1, <3>1, CounterStutter
  <2>4. QED
    BY <2>2, <2>3
<1>3. CASE \E s \in Sends : Background(s)
  <2>1. PICK s \in Sends : Background(s)
    BY <1>3
  <2>2. /\ bg[s] \in {"spawned", "candidate", "copying"}
        /\ \/ \E a \in {"candidate", "copying"} : BgGoto(s, a)
           \/ \E a \in {"closed", "leaked"} : BgDone(s, a)
    BY <2>1 DEF Background, BgAnswer, BgCandidateFails, BgStoreFails, BgStoreInsert, BgStore,
                BgCopyEnds, BgAt
  <2>3. \A t \in Sends : t # s => bg'[t] = bg[t]
    BY <1>1, <2>2 DEF BgGoto, BgDone
  <2>4. BgActive(s)
    BY <2>2 DEF BgActive
  <2>5. CASE \E a \in {"candidate", "copying"} : BgGoto(s, a)
    <3>1. BgActive(s)' /\ swrPending' = swrPending
      BY <1>1, <2>5 DEF BgActive, BgGoto
    <3>2. QED
      BY <1>1, <2>3, <2>4, <3>1, CounterStep
  <2>6. CASE \E a \in {"closed", "leaked"} : BgDone(s, a)
    <3>1. ~BgActive(s)' /\ swrPending' = [swrPending EXCEPT ![Home[s]] = @ - 1]
      BY <1>1, <2>6 DEF BgActive, BgDone
    <3>2. QED
      BY <1>1, <2>3, <2>4, <3>1, CounterStep
  <2>7. QED
    BY <2>2, <2>5, <2>6
<1>4. CASE \E x \in Sandboxes : Crash(x)
  <2>1. PICK x \in Sandboxes : Crash(x)
    BY <1>4
  <2> SUFFICES ASSUME NEW y \in Sandboxes PROVE (swrPending[y] = Cardinality(ActiveOf(y)))'
    BY DEF WaitGroupInv
  <2>3. CASE y = x
    <3>1. ActiveOf(x)' = {}
      BY <2>1 DEF Crash, ActiveOf, SendsOf, BgActive
    <3>2. swrPending'[x] = 0
      BY <1>1, <2>1 DEF Crash, WeakTypeOK, GuestTypeOK
    <3>3. QED
      BY <2>3, <3>1, <3>2, FS_EmptySet
  <2>4. CASE y # x
    <3>1. ActiveOf(y)' = ActiveOf(y)
      BY <2>1, <2>4 DEF Crash, ActiveOf, SendsOf, BgActive
    <3>2. swrPending'[y] = swrPending[y]
      BY <1>1, <2>1, <2>4 DEF Crash, WeakTypeOK, GuestTypeOK
    <3>3. QED
      BY <1>1, <3>1, <3>2 DEF WaitGroupInv
  <2>5. QED
    BY <2>3, <2>4
<1>5. CASE \/ \E x \in Sandboxes : StopServing(x) \/ Exit(x)
           \/ Expire /\ UNCHANGED guestVars
           \/ UNCHANGED vars
  <2>1. bg' = bg /\ swrPending' = swrPending
    BY <1>5 DEF StopServing, Exit, vars, guestVars
  <2>2. QED
    BY <1>1, <2>1, CounterStutter
<1>6. QED
  BY <1>2, <1>3, <1>4, <1>5 DEF Next

(***************************************************************************)
(* The invariant, and what follows from it.                                *)
(***************************************************************************)

\* IInv holds of every reachable state: what sendWithGuestCache, its
\* background goroutines and the sandbox's wait group agree on at all times.
THEOREM Invariance == Spec => []IInv
<1>1. Init => IInv
  BY InitCore, InitWaitGroup DEF IInv
<1>2. IInv /\ [Next]_vars => IInv'
  BY CoreStep, WaitGroupStep DEF IInv
<1>3. QED
  BY <1>1, <1>2, PTL DEF Spec

\* The state of the host's cache, of Send and of the sandboxes keeps its type;
\* in particular the counter of guestCacheSWRPending is never negative, which
\* would make Done panic.
THEOREM TypeCorrect == Spec => []TypeOK
<1>1. IInv => TypeOK
  <2> SUFFICES ASSUME IInv PROVE TypeOK
    OBVIOUS
  <2>1. \A x \in Sandboxes : swrPending[x] \in Nat
    <3> SUFFICES ASSUME NEW x \in Sandboxes PROVE swrPending[x] \in Nat
      OBVIOUS
    <3>1. IsFiniteSet(ActiveOf(x))
      BY SendsAssumption, FS_Subset DEF ActiveOf, SendsOf
    <3>2. QED
      BY <3>1, FS_CardinalityType DEF IInv, WaitGroupInv
  <2>2. QED
    BY <2>1 DEF IInv, CoreInv, WeakTypeOK, GuestTypeOK, TypeOK
<1>2. QED
  BY <1>1, Invariance, PTL

\* The lookup flags that sendWithGuestCache reads once and acts on much later
\* agree with the obligation the host has recorded, on every path of Send and
\* of its background goroutine.
THEOREM ObligationSafe == Spec => []ObligationTracked
<1>1. IInv => ObligationTracked
  BY DEF IInv, CoreInv
<1>2. QED
  BY <1>1, Invariance, PTL

\* Request collapsing: sendAsyncForCaching never has two requests for the same
\* key in flight, however many sandboxes and Sends there are.
THEOREM CollapsingSafe == Spec => []OneFetchInFlight
<1>1. IInv => OneFetchInFlight
  <2> SUFFICES ASSUME IInv, NEW s \in Sends, Fetching(s) PROVE holder = s
    BY DEF OneFetchInFlight
  <2>2. lookup[s].st \in {"none", "waiting", "open", "closed"}
    BY DEF IInv, CoreInv, WeakTypeOK, HostTypeOK
  <2>3. Owes(s)
    BY <2>2 DEF IInv, CoreInv, SendInv, BgActive, Owes, Working, Fetching
  <2>4. QED
    BY <2>3 DEF IInv, CoreInv, ObligationTracked
<1>2. QED
  BY <1>1, Invariance, PTL

\* The deferred close of sendWithGuestCache covers every error return: an
\* error leaves neither a cache handle nor an obligation behind.
THEOREM FailureSafe == Spec => []FailedSendLetsGo
<1>1. IInv => FailedSendLetsGo
  BY DEF IInv, CoreInv, SendInv, ObligationTracked, Owes, Working, FailedSendLetsGo
<1>2. QED
  BY <1>1, Invariance, PTL

\* guestCacheSWRPending.Wait() returns only when every background goroutine of
\* the sandbox is over, and no goroutine is ever counted twice.
THEOREM DrainSafe == Spec => []RevalidationsDrained
<1>1. IInv => RevalidationsDrained
  BY DEF IInv, CoreInv, SendInv, RevalidationsDrained
<1>2. QED
  BY <1>1, Invariance, PTL

(***************************************************************************)
(* The refinement: the roles the code of the Sends gives them are phases   *)
(* of request collapsing.                                                  *)
(***************************************************************************)
roles == [s \in Sends |-> Role(s)]

PromiseStep == Promise!Next \/ UNCHANGED <<holder, roles>>

\* The invariant makes the host agree with the role of a Send.
LEMMA RoleFacts ==
  CoreInv => \A s \in Sends :
               /\ Role(s) \in {"idle", "waiting", "leading", "stuck", "over"}
               /\ Role(s) \in {"leading", "stuck"} <=> holder = s
               /\ Role(s) = "waiting" <=> lookup[s].st = "waiting"
               /\ Role(s) = "idle" <=> pc[s] = "new"
               /\ holder = s /\ Working(s) => Role(s) = "leading"
               /\ holder = s /\ bg[s] = "leaked" => Role(s) = "stuck"
<1> SUFFICES ASSUME CoreInv, NEW s \in Sends
             PROVE  /\ Role(s) \in {"idle", "waiting", "leading", "stuck", "over"}
                    /\ Role(s) \in {"leading", "stuck"} <=> holder = s
                    /\ Role(s) = "waiting" <=> lookup[s].st = "waiting"
                    /\ Role(s) = "idle" <=> pc[s] = "new"
                    /\ holder = s /\ Working(s) => Role(s) = "leading"
                    /\ holder = s /\ bg[s] = "leaked" => Role(s) = "stuck"
  OBVIOUS
<1>1. /\ lookup[s].st \in {"none", "waiting", "open", "closed"}
      /\ pc[s] \in PCs
      /\ SendInv(s)
      /\ holder = s <=> Owes(s)
  BY DEF CoreInv, WeakTypeOK, HostTypeOK, GuestTypeOK, ObligationTracked
<1>2. QED
  BY <1>1 DEF SendInv, BgActive, Owes, Working, Role, PCs

\* The same after a step that keeps the invariant.
LEMMA RolesNext ==
  CoreInv' => (\A s \in Sends :
               /\ Role(s) \in {"idle", "waiting", "leading", "stuck", "over"}
               /\ Role(s) \in {"leading", "stuck"} <=> holder = s
               /\ Role(s) = "waiting" <=> lookup[s].st = "waiting"
               /\ Role(s) = "idle" <=> pc[s] = "new"
               /\ holder = s /\ Working(s) => Role(s) = "leading"
               /\ holder = s /\ bg[s] = "leaked" => Role(s) = "stuck")'
BY RoleFacts, PTL

\* A Send whose code and handle a step leaves alone keeps its role.
LEMMA SameRole ==
  ASSUME NEW t \in Sends, pc'[t] = pc[t], bg'[t] = bg[t], lookup'[t] = lookup[t],
         life'[Home[t]] = life[Home[t]]
  PROVE  Role(t)' = Role(t)
BY DEF Role, Working

\* The Sends in gone close their handles, or give up what they may be held to.
LEMMA GonePromise ==
  ASSUME CoreInv, CoreInv', NEW gone \in SUBSET Sends, NEW l \in Lookups, HandOver(gone, l),
         \A t \in Sends : t \notin gone =>
           /\ l[t] = lookup[t] /\ pc'[t] = pc[t] /\ bg'[t] = bg[t]
           /\ life'[Home[t]] = life[Home[t]],
         \A t \in gone : l[t].st # "waiting" /\ (pc'[t] = "new" => pc[t] = "new")
  PROVE  PromiseStep
<1> DEFINE left == {t \in gone : pc'[t] # "new"}
<1> USE NoneAssumption
<1>1. holder \in Sends \cup {None}
  BY TypeSplit DEF CoreInv
<1>2. /\ holder' \in Sends \cup {None}
      /\ holder \notin gone => lookup' = l /\ holder' = holder
      /\ holder \in gone =>
              \/ holder' = None /\ lookup' = l /\ \A w \in Sends : l[w].st # "waiting"
              \/ /\ holder' \in Sends
                 /\ l[holder'].st = "waiting"
                 /\ lookup'[holder'].st = "open"
                 /\ "must" \in lookup'[holder'].flags
                 /\ \A w \in Sends : w # holder' => lookup'[w] = l[w]
  BY <1>1, HandOverEffect
<1>3. \A t \in Sends : t \notin gone /\ (holder \in gone => t # holder') => Role(t)' = Role(t)
  BY <1>2, SameRole
<1>4. \A t \in gone : IF t \in left THEN Role(t)' = "over" ELSE Role(t)' = Role(t)
  BY <1>2, RoleFacts, RolesNext
<1>5. left \in SUBSET Sends /\ left \subseteq gone /\ (holder \in gone <=> holder \in left)
  BY RoleFacts, RolesNext, <1>2
<1> HIDE DEF left
<1>6. CASE holder \notin gone
  <2>1. roles' = [c \in Sends |-> IF c \in left THEN "over" ELSE roles[c]]
    BY <1>3, <1>4, <1>5, <1>6 DEF roles
  <2>2. Promise!Leave(left)
    BY <1>2, <1>5, <1>6, <2>1 DEF Promise!Leave, Promise!Left, roles
  <2>3. QED
    BY <1>5, <2>2 DEF PromiseStep, Promise!Next
<1>7. CASE holder \in gone /\ holder' = None
  <2>1. roles' = [c \in Sends |-> IF c \in left THEN "over" ELSE roles[c]]
    BY <1>3, <1>4, <1>5, <1>7 DEF roles
  <2>2. \A c \in Sends : Role(c) = "waiting" => c \in left
    BY <1>2, <1>4, <1>7, RoleFacts, RolesNext
  <2>3. Promise!Dissolve(left)
    BY <1>5, <1>7, <2>1, <2>2 DEF Promise!Dissolve, Promise!Left, Promise!Waiting, roles
  <2>4. QED
    BY <1>5, <2>3 DEF PromiseStep, Promise!Next
<1>8. CASE holder \in gone /\ holder' # None
  <2>1. PICK w \in Sends : /\ w = holder' /\ w \notin gone /\ lookup[w].st = "waiting" /\ lookup'[w].st = "open"
                           /\ "must" \in lookup'[w].flags /\ pc'[w] = pc[w]
    BY <1>2, <1>8
  <2>2. Role(w) = "waiting" /\ pc[w] = "looking"
    BY <2>1, RoleFacts DEF CoreInv, SendInv
  <2>3. Role(w)' = "leading"
    BY <2>1, <2>2 DEF Role, Working
  <2>4. roles' = [[c \in Sends |-> IF c \in left THEN "over" ELSE roles[c]] EXCEPT ![w] = "leading"]
    BY <1>3, <1>4, <1>5, <1>8, <2>1, <2>3 DEF roles
  <2>5. Promise!HandOn(left, w)
    BY <1>5, <1>8, <2>1, <2>2, <2>4
       DEF left, Promise!HandOn, Promise!Left, Promise!Waiting, roles
  <2>6. QED
    BY <1>5, <2>1, <2>5 DEF PromiseStep, Promise!Next
<1>9. QED
  BY <1>6, <1>7, <1>8

\* The same for one Send, in its main goroutine or in the background.
LEMMA AlonePromise ==
  ASSUME CoreInv, CoreInv', NEW s \in Sends,
         NEW l \in Lookups, HandOver({s}, l),
         \A t \in Sends : t # s => l[t] = lookup[t] /\ pc'[t] = pc[t] /\ bg'[t] = bg[t],
         UNCHANGED life, l[s].st # "waiting", pc'[s] # "new"
  PROVE  PromiseStep
<1>1. {s} \in SUBSET Sends
  OBVIOUS
<1>2. \A t \in Sends : t \notin {s} =>
        l[t] = lookup[t] /\ pc'[t] = pc[t] /\ bg'[t] = bg[t] /\ life'[Home[t]] = life[Home[t]]
  OBVIOUS
<1>3. \A t \in {s} : l[t].st # "waiting" /\ (pc'[t] = "new" => pc[t] = "new")
  OBVIOUS
<1>4. QED
  BY <1>1, <1>2, <1>3, GonePromise

\* Insert, Update, ChooseStale and RecordNotCacheable, by a Send at work on the
\* answer, are an answer to everybody.
LEMMA FulfilPromise ==
  ASSUME CoreInv, CoreInv', NEW s \in Sends, NEW flags \in SUBSET Flags,
         NEW l \in {lookup, Closed({s})}, holder = s, Working(s), CompleteCollapse(flags, l),
         \A t \in Sends : t # s => pc'[t] = pc[t] /\ bg'[t] = bg[t],
         UNCHANGED life, pc'[s] # "new"
  PROVE  PromiseStep
<1> USE NoneAssumption
<1>1. lookup \in Lookups
  BY TypeSplit DEF CoreInv
<1>2. l \in Lookups /\ \A t \in Sends : t # s => l[t] = lookup[t]
  <2>1. Closed({s}) \in Lookups /\ \A t \in Sends : t \notin {s} => Closed({s})[t] = lookup[t]
    BY <1>1, ClosedEffect
  <2>2. QED
    BY <1>1, <2>1
<1>3. /\ holder' = None
      /\ \A w \in Sends :
              IF l[w].st = "waiting"
                THEN lookup'[w].st = "open"
                ELSE lookup'[w] = l[w]
  BY <1>2, CompleteCollapseEffect
<1>4. Role(s) = "leading" /\ Role(s)' = "over"
  <2>1. lookup[s].st = "open" /\ l[s].st # "waiting"
    BY <1>1, ClosedEffect DEF CoreInv, ObligationTracked, Owes
  <2>2. QED
    BY <1>3, <2>1, RoleFacts, RolesNext
<1>5. \A t \in Sends : t # s => Role(t)' = IF Role(t) = "waiting" THEN "over" ELSE Role(t)
  <2> SUFFICES ASSUME NEW t \in Sends, t # s
               PROVE  Role(t)' = IF Role(t) = "waiting" THEN "over" ELSE Role(t)
    OBVIOUS
  <2>1. CASE lookup[t].st = "waiting"
    BY <1>2, <1>3, <2>1, RoleFacts, RolesNext
  <2>2. CASE lookup[t].st # "waiting"
    BY <1>2, <1>3, <2>2, SameRole, RoleFacts
  <2>3. QED
    BY <2>1, <2>2
<1>6. roles' = [c \in Sends |-> IF c \in {d \in Sends : roles[d] = "waiting"} \cup {s} THEN "over" ELSE roles[c]]
  BY <1>4, <1>5 DEF roles
<1>7. Promise!Fulfil
  BY <1>3, <1>4, <1>6 DEF Promise!Fulfil, Promise!Waiting, roles
<1>8. QED
  BY <1>7 DEF PromiseStep, Promise!Next

\* A lookup leads, joins or is answered.
LEMMA LookupPromise ==
  ASSUME CoreInv, CoreInv', NEW s \in Sends, SendLookup(s)
  PROVE  PromiseStep
<1> USE NoneAssumption
<1>1. /\ lookup \in Lookups /\ holder \in Sends \cup {None} /\ pc[s] = "new" /\ pc'[s] = "looking"
      /\ \A t \in Sends : t # s => pc'[t] = pc[t]
      /\ bg' = bg /\ life' = life
  BY TypeSplit DEF CoreInv, SendLookup, Ready, Goto, GuestTypeOK
<1>2. \A t \in Sends : t # s => lookup'[t] = lookup[t]
  BY <1>1 DEF SendLookup, TransactionLookup, Lookups
<1>3. \A t \in Sends : t # s => Role(t)' = Role(t)
  BY <1>1, <1>2, SameRole
<1>4. Role(s) = "idle" /\ Role(s)' # "idle"
  BY <1>1, RoleFacts, RolesNext
<1>5. CASE holder = None /\ holder' = s
  <2>1. Role(s)' = "leading"
    <3>1. lookup'[s].st = "open" /\ "must" \in lookup'[s].flags
      BY <1>1, <1>5 DEF SendLookup, TransactionLookup, Lookups, Open
    <3>2. QED
      BY <1>1, <3>1 DEF Role, Working
  <2>2. roles' = [roles EXCEPT ![s] = "leading"]
    BY <1>3, <2>1 DEF roles
  <2>3. Promise!Lead(s)
    BY <1>4, <1>5, <2>2 DEF Promise!Lead, roles
  <2>4. QED
    BY <2>3 DEF PromiseStep, Promise!Next
<1>6. CASE holder' = holder /\ lookup'[s].st = "waiting"
  <2>1. Role(s)' = "waiting" /\ holder # None
    BY <1>1, <1>6, RolesNext DEF SendLookup, TransactionLookup, Lookups, Open
  <2>2. roles' = [roles EXCEPT ![s] = "waiting"]
    BY <1>3, <2>1 DEF roles
  <2>3. Promise!Join(s)
    BY <1>4, <1>6, <2>1, <2>2 DEF Promise!Join, roles
  <2>4. QED
    BY <2>3 DEF PromiseStep, Promise!Next
<1>7. CASE holder' = holder /\ lookup'[s].st = "open"
  <2>1. holder # s
    BY <1>4, RoleFacts
  <2>2. Role(s)' = "over"
    BY <1>4, <1>7, <2>1, RolesNext
  <2>3. roles' = [c \in Sends |-> IF c \in {s} THEN "over" ELSE roles[c]]
    BY <1>3, <2>2 DEF roles
  <2>4. Promise!Leave({s})
    BY <1>7, <2>1, <2>3 DEF Promise!Leave, Promise!Left, roles
  <2>5. QED
    BY <2>4 DEF PromiseStep, Promise!Next
<1>8. QED
  BY <1>1, <1>5, <1>6, <1>7 DEF SendLookup, TransactionLookup, Lookups, Open

\* Steps that change nobody's role.
LEMMA SameRoles ==
  ASSUME CoreInv, CoreInv', UNCHANGED <<holder, lookup, pc>>,
         \A t \in Sends : Role(t) \in {"leading", "stuck"} => (Role(t) = "stuck" <=> Role(t)' = "stuck")
  PROVE  PromiseStep
<1>1. \A t \in Sends : Role(t)' = Role(t)
  BY RoleFacts, RolesNext
<1>2. QED
  BY <1>1 DEF PromiseStep, roles

\* Every step of the main goroutine is a step of request collapsing, or none.
LEMMA MainPromise ==
  ASSUME CoreInv, CoreInv', NEW s \in Sends, Main(s)
  PROVE  PromiseStep
<1> USE NoneAssumption
<1>1. /\ lookup \in Lookups /\ GuestTypeOK /\ pc[s] \in PCs
      /\ SendInv(s) /\ (holder = s <=> Owes(s))
      /\ Closed({s}) \in Lookups
      /\ \A t \in Sends : t # s => Closed({s})[t] = lookup[t]
      /\ Closed({s})[s].st # "waiting"
  <2>1. lookup \in Lookups /\ GuestTypeOK
    BY TypeSplit DEF CoreInv
  <2>2. QED
    BY <2>1, ClosedEffect DEF CoreInv, GuestTypeOK, ObligationTracked
<1>2. ASSUME NEW e PROVE EntryFlags(e) \in SUBSET Flags
  BY EntryFlagsType
<1>3. {"found", "usable", "stale", "sie"} \in SUBSET Flags
  BY DEF Flags
<1>4. ASSUME NEW r, Return(s, r)
      PROVE  pc'[s] # "new" /\ \A t \in Sends : t # s => pc'[t] = pc[t]
  BY <1>1, <1>4 DEF Return, GuestTypeOK
<1>5. ASSUME TransactionClose(s), NEW r, Return(s, r), UNCHANGED <<bg, life>>
      PROVE  PromiseStep
  BY <1>1, <1>4, <1>5, AlonePromise DEF TransactionClose
<1>6. CASE \/ LookupFails(s) \/ ReturnCached(s) \/ SendForCachingFails(s) \/ SendOriginal(s)
           \/ CandidateFails(s) \/ StoreFails(s) \/ CopyFails(s)
  <2>1. TransactionClose(s) /\ UNCHANGED <<bg, life>> /\ \E r \in {"response", "error"} : Return(s, r)
    BY <1>6 DEF LookupFails, ReturnCached, SendForCachingFails, SendOriginal, CandidateFails,
                StoreFails, CopyFails
  <2>2. QED
    BY <2>1, <1>5
<1>7. CASE ReturnStale(s)
  <2>1. PICK r \in {"response", "error"} : Return(s, r)
    BY <1>7 DEF ReturnStale
  <2>2. CASE TransactionClose(s)
    BY <1>5, <1>7, <2>1, <2>2 DEF ReturnStale
  <2>3. CASE TransactionChooseStale(s, Closed({s}))
    BY <1>3, <1>4, <1>7, <2>1, <2>3, FulfilPromise
       DEF ReturnStale, TransactionChooseStale, NoCandidate, At, Working
  <2>4. QED
    BY <1>7, <2>2, <2>3 DEF ReturnStale
<1>8. CASE StoreInsert(s)
  <2>1. pc[s] = "candidate" /\ pc'[s] # "new" /\ (\A t \in Sends : t # s => pc'[t] = pc[t])
    BY <1>1, <1>8 DEF StoreInsert, At, Goto, GuestTypeOK
  <2>2. QED
    BY <1>2, <1>8, <2>1, FulfilPromise DEF StoreInsert, TransactionInsert, Working
<1>9. CASE StoreUpdate(s) \/ RecordUncacheable(s)
  <2>1. PICK r \in {"response", "error"}, l \in {lookup, Closed({s})} :
          /\ Return(s, r)
          /\ TransactionUpdate(s, l) \/ TransactionRecordNotCacheable(s, l)
    BY <1>9 DEF StoreUpdate, RecordUncacheable, ReturnStored
  <2>2. pc[s] = "candidate" /\ UNCHANGED <<bg, life>>
    BY <1>9 DEF StoreUpdate, RecordUncacheable, ReturnStored, At
  <2>3. holder = s /\ \E flags \in SUBSET Flags : CompleteCollapse(flags, l)
    BY <1>2, <2>1 DEF TransactionUpdate, TransactionRecordNotCacheable
  <2>4. QED
    BY <1>4, <2>1, <2>2, <2>3, FulfilPromise DEF Working
<1>10. CASE DoNotStore(s)
  <2>1. PICK r \in {"response", "error"}, l \in {lookup, Closed({s})} :
          Return(s, r) /\ HandOver({s}, l)
    BY <1>10 DEF DoNotStore, ReturnStored, TransactionAbandon
  <2>2. pc[s] = "candidate" /\ UNCHANGED <<bg, life>>
    BY <1>10 DEF DoNotStore, ReturnStored, At
  <2>3. l \in Lookups /\ l[s].st # "waiting" /\ \A t \in Sends : t # s => l[t] = lookup[t]
    BY <1>1, <2>1, <2>2 DEF SendInv
  <2>4. QED
    BY <1>4, <2>1, <2>2, <2>3, AlonePromise
<1>11. CASE SendLookup(s)
  BY <1>11, LookupPromise
<1>12. CASE SendUncacheable(s)
  <2>1. PICK r \in {"response", "error"} : Return(s, r)
    BY <1>12 DEF SendUncacheable
  <2>2. pc[s] = "new" /\ UNCHANGED <<hostVars, bg, life>>
    BY <1>12 DEF SendUncacheable, Ready
  <2>3. HandOver({s}, lookup) /\ lookup[s].st # "waiting"
    BY <1>1, <2>2 DEF HandOver, hostVars, SendInv, Owes
  <2>4. QED
    BY <1>1, <1>4, <2>1, <2>2, <2>3, AlonePromise
<1>13. CASE CopyDone(s)
  <2>1. PICK r \in {"response", "error"} : Return(s, r)
    BY <1>13 DEF CopyDone
  <2>2. pc[s] = "copying" /\ UNCHANGED <<holder, bg, life>> /\ lookup' \in {lookup, Closed({s})}
    BY <1>13 DEF CopyDone, At
  <2>3. holder # s
    BY <1>1, <2>2 DEF SendInv, Owes, Working
  <2>4. /\ HandOver({s}, lookup') /\ lookup' \in Lookups /\ lookup'[s].st # "waiting"
        /\ \A t \in Sends : t # s => lookup'[t] = lookup[t]
    BY <1>1, <2>2, <2>3 DEF HandOver, SendInv
  <2>5. QED
    BY <1>1, <1>4, <2>1, <2>2, <2>4, AlonePromise
<1>14. CASE ReturnCachedAndRevalidate(s)
  <2>1. /\ pc[s] = "looking" /\ lookup[s].st = "open" /\ "must" \in lookup[s].flags
        /\ bg'[s] = "spawned" /\ UNCHANGED <<hostVars, life>>
        /\ pc'[s] = "done" /\ \A t \in Sends : t # s => pc'[t] = pc[t] /\ bg'[t] = bg[t]
    BY <1>1 , <1>14 DEF ReturnCachedAndRevalidate, Looked, At, Return, GuestTypeOK
  <2>2. Role(s) = "leading" /\ Role(s)' = "leading"
    BY <2>1 DEF Role, Working, hostVars
  <2>3. \A t \in Sends : t # s => Role(t)' = Role(t)
    BY <2>1, SameRole DEF hostVars
  <2>4. QED
    BY <2>1, <2>2, <2>3 DEF PromiseStep, roles, hostVars
<1>15. CASE FetchForCaching(s) \/ BackendAnswers(s)
  <2>1. /\ pc[s] \in {"sent", "looking"} /\ pc'[s] \in {"sent", "candidate"}
        /\ pc[s] = "looking" => lookup[s].st = "open" /\ "must" \in lookup[s].flags
        /\ UNCHANGED <<hostVars, bg, life>>
        /\ \A t \in Sends : t # s => pc'[t] = pc[t]
    BY <1>1, <1>15 DEF FetchForCaching, BackendAnswers, Looked, At, Goto, GuestTypeOK
  <2>2. Role(s) = "leading" /\ Role(s)' = "leading"
    BY <2>1 DEF Role, Working, hostVars
  <2>3. \A t \in Sends : t # s => Role(t)' = Role(t)
    BY <2>1, SameRole DEF hostVars
  <2>4. QED
    BY <2>1, <2>2, <2>3 DEF PromiseStep, roles, hostVars
<1>16. QED
  BY <1>6, <1>7, <1>8, <1>9, <1>10, <1>11, <1>12, <1>13, <1>14, <1>15 DEF Main

\* So is every step of a background revalidation.
LEMMA BackgroundPromise ==
  ASSUME CoreInv, CoreInv', NEW s \in Sends, Background(s)
  PROVE  PromiseStep
<1> USE NoneAssumption
<1>1. /\ lookup \in Lookups /\ GuestTypeOK /\ bg[s] \in BgStates
      /\ SendInv(s) /\ (holder = s <=> Owes(s))
      /\ Closed({s}) \in Lookups
      /\ \A t \in Sends : t # s => Closed({s})[t] = lookup[t]
      /\ Closed({s})[s].st # "waiting"
  <2>1. lookup \in Lookups /\ GuestTypeOK
    BY TypeSplit DEF CoreInv
  <2>2. QED
    BY <2>1, ClosedEffect DEF CoreInv, GuestTypeOK, ObligationTracked
<1>2. /\ bg[s] \in {"spawned", "candidate", "copying"} /\ lookup[s].st = "open"
      /\ pc[s] # "new" /\ pc' = pc /\ life' = life
      /\ life[Home[s]] \in {"serving", "draining"}
      /\ \A t \in Sends : t # s => bg'[t] = bg[t]
  BY <1>1 DEF Background, BgAnswer, BgCandidateFails, BgStoreFails, BgStoreInsert, BgStore, BgCopyEnds,
              BgAt, BgGoto, BgDone, BgUnchanged, SendInv, BgActive, GuestTypeOK
<1>3. ASSUME NEW e PROVE EntryFlags(e) \in SUBSET Flags
  BY EntryFlagsType
<1>4. CASE BgAnswer(s)
  <2>1. bg[s] = "spawned" /\ bg'[s] = "candidate" /\ UNCHANGED hostVars
    BY <1>1, <1>4 DEF BgAnswer, BgAt, BgGoto, GuestTypeOK
  <2>2. Role(s) = "leading" /\ Role(s)' = "leading"
    BY <1>2, <2>1 DEF Role, Working, hostVars
  <2>3. \A t \in Sends : t # s => Role(t)' = Role(t)
    BY <1>2, <2>1, SameRole DEF hostVars
  <2>4. QED
    BY <2>1, <2>2, <2>3 DEF PromiseStep, roles, hostVars
<1>5. CASE BgCandidateFails(s)
  <2>1. bg[s] \in {"spawned", "candidate"} /\ bg'[s] = "leaked" /\ UNCHANGED hostVars
    BY <1>1, <1>5 DEF BgCandidateFails, BgAt, BgDone, GuestTypeOK
  <2>2. Role(s) = "leading"
    BY <1>2, <2>1 DEF Role, Working
  <2>3. holder = s /\ holder' = holder /\ Role(s)' = "stuck"
    BY <1>1, <1>2, <2>1, RolesNext DEF Owes, Working, hostVars
  <2>4. \A t \in Sends : t # s => Role(t)' = Role(t)
    BY <1>2, <2>1, SameRole DEF hostVars
  <2>5. roles' = [roles EXCEPT ![s] = "stuck"]
    BY <2>3, <2>4 DEF roles
  <2>6. Promise!GetStuck
    BY <2>2, <2>3, <2>5 DEF Promise!GetStuck, roles
  <2>7. QED
    BY <2>6 DEF PromiseStep, Promise!Next
<1>6. CASE BgStoreFails(s)
  BY <1>1, <1>2, <1>6, AlonePromise DEF BgStoreFails, TransactionClose
<1>7. CASE BgStoreInsert(s)
  BY <1>2, <1>3, <1>7, FulfilPromise DEF BgStoreInsert, BgAt, TransactionInsert, Working
<1>8. CASE BgStore(s)
  <2>1. bg[s] = "candidate"
    BY <1>8 DEF BgStore, BgAt
  <2>2. CASE TransactionAbandon(s, Closed({s}))
    BY <1>1, <1>2, <2>2, AlonePromise DEF TransactionAbandon
  <2>3. CASE TransactionUpdate(s, Closed({s})) \/ TransactionRecordNotCacheable(s, Closed({s}))
    <3>1. holder = s /\ \E flags \in SUBSET Flags : CompleteCollapse(flags, Closed({s}))
      BY <1>3, <2>3 DEF TransactionUpdate, TransactionRecordNotCacheable
    <3>2. QED
      BY <1>2, <2>1, <3>1, FulfilPromise DEF Working
  <2>4. QED
    BY <1>8, <2>2, <2>3 DEF BgStore
<1>9. CASE BgCopyEnds(s)
  <2>1. bg[s] = "copying" /\ lookup' = Closed({s}) /\ holder' = holder
    BY <1>9 DEF BgCopyEnds, BgAt
  <2>2. holder # s
    BY <1>1, <1>2, <2>1 DEF SendInv, BgActive, Owes, Working
  <2>3. HandOver({s}, Closed({s}))
    BY <2>1, <2>2 DEF HandOver
  <2>4. QED
    BY <1>1, <1>2, <2>3, AlonePromise
<1>10. QED
  BY <1>4, <1>5, <1>6, <1>7, <1>8, <1>9 DEF Background

\* So is the end of a sandbox.
LEMMA EndPromise ==
  ASSUME CoreInv, CoreInv', NEW x \in Sandboxes, Exit(x) \/ Crash(x)
  PROVE  PromiseStep
<1>1. lookup \in Lookups /\ GuestTypeOK /\ SendsOf(x) \in SUBSET Sends
  BY TypeSplit DEF CoreInv, SendsOf
<1>2. /\ Closed(SendsOf(x)) \in Lookups
      /\ \A t \in Sends : t \notin SendsOf(x) => Closed(SendsOf(x))[t] = lookup[t]
      /\ \A t \in SendsOf(x) : Closed(SendsOf(x))[t].st # "waiting"
  BY <1>1, ClosedEffect
<1>3. HandOver(SendsOf(x), Closed(SendsOf(x)))
  BY DEF Exit, Crash, DropHandles
<1>4. \A t \in Sends : t \notin SendsOf(x) =>
        pc'[t] = pc[t] /\ bg'[t] = bg[t] /\ life'[Home[t]] = life[Home[t]]
  BY <1>1, HomeAssumption DEF Exit, Crash, SendsOf, GuestTypeOK
<1>5. \A t \in SendsOf(x) : pc'[t] = "new" => pc[t] = "new"
  BY <1>1 DEF Exit, Crash, SendsOf, GuestTypeOK
<1>6. QED
  BY <1>1, <1>2, <1>3, <1>4, <1>5, GonePromise

\* The rest of the environment is not seen.
LEMMA QuietPromise ==
  ASSUME CoreInv, CoreInv',
         \/ \E x \in Sandboxes : StopServing(x)
         \/ Expire /\ UNCHANGED guestVars
         \/ UNCHANGED vars
  PROVE  PromiseStep
<1>1. UNCHANGED <<holder, lookup, pc, bg>>
  BY DEF StopServing, Expire, vars, hostVars, guestVars
<1>2. SUFFICES ASSUME NEW t \in Sends, Role(t) \in {"leading", "stuck"}
               PROVE  Role(t) = "stuck" <=> Role(t)' = "stuck"
  BY <1>1, SameRoles
<1>3. holder = t /\ holder' = t /\ (Working(t)' <=> Working(t)) /\ (Owes(t)' <=> Owes(t)) /\ Owes(t)
  BY <1>1, <1>2, RoleFacts DEF Working, Owes, CoreInv, ObligationTracked
<1>4. QED
  BY <1>1, <1>3, RoleFacts, RolesNext DEF Owes, Role

\* In the very step in which the code of a Send stops working for an answer, on
\* every return of sendWithGuestCache, at the end of its goroutine and with its
\* sandbox, everybody who waits has an answer, or one of them is at work on it:
\* what request collapsing promises, but for the goroutine that returns with
\* its handle open.
THEOREM PromiseKept == Spec => KeepsPromise
<1>1. Init => Promise!Init
  <2> SUFFICES ASSUME Init PROVE holder = None /\ roles = [s \in Sends |-> "idle"]
    BY DEF Promise!Init, roles
  <2>1. \A s \in Sends : Role(s) = "idle"
    BY DEF Init, Role
  <2>2. QED
    BY <2>1 DEF Init, HostInit, roles
<1>2. IInv /\ IInv' /\ [Next]_vars => [Promise!Next]_(Promise!collapsingVars)
  <2> SUFFICES ASSUME CoreInv, CoreInv', [Next]_vars PROVE PromiseStep
    BY DEF IInv, PromiseStep, Promise!collapsingVars, roles
  <2>1. QED
    BY MainPromise, BackgroundPromise, EndPromise, QuietPromise DEF Next
<1>3. QED
  BY <1>1, <1>2, Invariance, PTL DEF Spec, KeepsPromise, Promise!Spec
=============================================================================
