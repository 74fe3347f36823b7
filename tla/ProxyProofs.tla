----------------------------- MODULE ProxyProofs -----------------------------
(***************************************************************************)
(* Proofs about the parts of the proxy below the message trees: the        *)
(* sliding window, the provider's rate limiter, the messaging limiter, the *)
(* session store, the CLI sessions and the conversion of messages.         *)
(***************************************************************************)
EXTENDS ProviderRate, MessagingLimiter, SessionStore, SlidingWindow, CliSessions, MessageConversion,
        TLAPS, FiniteSetTheorems, SequenceTheorems, NaturalsInduction, WellFoundedInduction

-----------------------------------------------------------------------------
(***************************************************************************)
(* StrictSlidingWindowLimiter.  WindowKept is not inductive: nothing in it *)
(* says that what has left the deque is old.  WindowInv adds exactly that. *)
(***************************************************************************)
\* Every acquisition that is no longer in the deque is a window old.
PoppedIsOld == \A i \in 1..(swFirst - 1) : swGrants[i] <= swNow - RateWindow

WindowInv == SWTypeOK /\ PoppedIsOld /\ WindowKept

\* Initially nothing was acquired.
LEMMA WindowInit == SWInit => WindowInv
  BY RateAssumption DEF SWInit, WindowInv, SWTypeOK, PoppedIsOld, WindowKept

\* A turn of acquire that takes a slot keeps the invariant: the acquisition
\* RateLimit places earlier has left the deque, so it is a window old.
LEMMA GrantKeeps ==
  ASSUME WindowInv, NEW k \in swFirst..(Len(swGrants) + 1), Grant(k)
  PROVE  WindowInv'
<1> USE RateAssumption
<1> DEFINE n == Len(swGrants)
<1>1. /\ swNow \in Nat /\ swGrants \in Seq(Nat) /\ n \in Nat /\ swFirst \in 1..(n + 1) /\ k \in 1..(n + 1)
      /\ swNow' = swNow /\ swFirst' = k /\ swGrants' = Append(swGrants, swNow)
  BY DEF WindowInv, SWTypeOK, Grant
<1>2. /\ swGrants' \in Seq(Nat) /\ Len(swGrants') = n + 1
      /\ \A i \in 1..n : swGrants'[i] = swGrants[i] /\ swGrants[i] \in Nat
      /\ swGrants'[n + 1] = swNow
  BY <1>1
<1>3. SWTypeOK'
  BY <1>1, <1>2 DEF SWTypeOK
<1>4. \A i \in 1..(k - 1) : swGrants[i] <= swNow - RateWindow
  BY <1>1 DEF WindowInv, PoppedIsOld, Grant, Popped
<1>5. PoppedIsOld'
  BY <1>1, <1>2, <1>4 DEF PoppedIsOld
<1>6. WindowKept'
  <2> SUFFICES ASSUME NEW i \in DOMAIN swGrants', i + RateLimit <= n + 1
               PROVE  swGrants'[i + RateLimit] - swGrants'[i] >= RateWindow
    BY <1>2 DEF WindowKept
  <2>1. i \in 1..n /\ i + RateLimit \in 1..(n + 1)
    BY <1>1, <1>2
  <2>2. CASE i + RateLimit <= n
    <3>1. i \in DOMAIN swGrants /\ i + RateLimit <= Len(swGrants) /\ i + RateLimit \in 1..n
      BY <1>1, <2>1, <2>2
    <3>2. swGrants[i + RateLimit] - swGrants[i] >= RateWindow
      BY <3>1 DEF WindowInv, WindowKept
    <3> HIDE DEF n
    <3> QED BY <1>2, <2>1, <3>1, <3>2
  <2>3. CASE i + RateLimit = n + 1
    <3>1. n - k + 1 < RateLimit
      BY DEF Grant, Waiting
    <3>2. i \in 1..(k - 1)
      BY <1>1, <2>1, <2>3, <3>1
    <3>3. swGrants'[i] = swGrants[i] /\ swGrants[i] \in Nat /\ swGrants'[i + RateLimit] = swNow
      BY <1>2, <2>1, <2>3
    <3>4. swGrants[i] <= swNow - RateWindow
      BY <1>4, <3>2
    <3> HIDE DEF n
    <3> QED BY <1>1, <3>3, <3>4
  <2> QED BY <1>1, <2>1, <2>2, <2>3
<1> QED BY <1>3, <1>5, <1>6 DEF WindowInv

\* Every other step leaves the acquisitions alone.
LEMMA OtherKeeps ==
  ASSUME WindowInv,
         \/ \E k \in swFirst..(Len(swGrants) + 1) : Full(k)
         \/ \E d \in Nat \ {0} : Pass(d)
         \/ UNCHANGED swVars
  PROVE  WindowInv'
<1> USE RateAssumption
<1>1. swNow \in Nat /\ swGrants \in Seq(Nat) /\ Len(swGrants) \in Nat /\ swFirst \in 1..(Len(swGrants) + 1)
      /\ \A i \in 1..Len(swGrants) : swGrants[i] \in Nat
  BY DEF WindowInv, SWTypeOK
<1>2. ASSUME NEW k \in swFirst..(Len(swGrants) + 1), Full(k) PROVE WindowInv'
  BY <1>1, <1>2 DEF WindowInv, SWTypeOK, PoppedIsOld, WindowKept, Full, Popped
<1>3. ASSUME NEW d \in Nat \ {0}, Pass(d) PROVE WindowInv'
  BY <1>1, <1>3 DEF WindowInv, SWTypeOK, PoppedIsOld, WindowKept, Pass
<1>4. ASSUME UNCHANGED swVars PROVE WindowInv'
  BY <1>4 DEF WindowInv, SWTypeOK, PoppedIsOld, WindowKept, swVars
<1> QED BY <1>2, <1>3, <1>4

\* The limiter's type correctness.
THEOREM WindowTyped == SWSpec => []SWTypeOK
<1>1. WindowInv /\ [SWNext]_swVars => WindowInv'
  BY GrantKeeps, OtherKeeps DEF SWNext
<1>2. WindowInv => SWTypeOK
  BY DEF WindowInv
<1> QED BY WindowInit, <1>1, <1>2, PTL DEF SWSpec

\* The promise of StrictSlidingWindowLimiter, for every limit and window.
THEOREM WindowTheorem == SWSpec => []WindowKept
<1>1. WindowInv /\ [SWNext]_swVars => WindowInv'
  BY GrantKeeps, OtherKeeps DEF SWNext
<1>2. WindowInv => WindowKept
  BY DEF WindowInv
<1> QED BY WindowInit, <1>1, <1>2, PTL DEF SWSpec

-----------------------------------------------------------------------------
(***************************************************************************)
(* GlobalRateLimiter                                                       *)
(***************************************************************************)
\* Every step of the provider's limiter is a turn of acquire, the clock, or leaves the
\* window alone.
LEMMA RateWindowStep == WindowInv /\ [RNext]_rVars => WindowInv'
<1> SUFFICES ASSUME WindowInv, [RNext]_rVars PROVE WindowInv'
  OBVIOUS
<1>1. [SWNext]_swVars
  <2>1. CASE UNCHANGED rVars
    BY <2>1 DEF rVars
  <2>2. CASE RTick
    BY <2>2 DEF RTick, SWNext
  <2>3. ASSUME NEW q \in Requests, AcquireProactiveSlot(q) PROVE SWNext
    BY <2>3 DEF AcquireProactiveSlot, SWNext
  <2>4. ASSUME NEW q \in Requests,
               \/ OpenSlot(q) \/ WaitIfBlocked(q) \/ Wakes(q)
               \/ \E j \in {0, 1} : Backoff(q, j)
               \/ GivesUp(q) \/ CallsAgain(q) \/ CallFails(q) \/ CallSucceeds(q) \/ StreamEnds(q) \/ CancelStream(q)
        PROVE  UNCHANGED swVars
    BY <2>4 DEF OpenSlot, WaitIfBlocked, Wakes, Backoff, GivesUp, CallsAgain, CallFails, CallSucceeds,
                StreamEnds, CancelStream
  <2> QED BY <2>1, <2>2, <2>3, <2>4 DEF RNext
<1> QED BY <1>1, GrantKeeps, OtherKeeps DEF SWNext

\* Whatever requests wait, back off, fail or are cancelled, the provider never sees more
\* than rate_limit calls in any rate_window seconds.
THEOREM ProviderWindowKept == RSpec => []WindowKept
<1>1. RInit => WindowInv
  BY WindowInit DEF RInit
<1>2. WindowInv => WindowKept
  BY DEF WindowInv
<1> QED BY <1>1, <1>2, RateWindowStep, PTL DEF RSpec

\* What a step does to one request's row.
LEMMA PcStep ==
  ASSUME RateInv, NEW q \in Requests, NEW pc, NEW row,
         rReq' = [rReq EXCEPT ![q] = row],
         row = [pc |-> pc, attempt |-> row.attempt, wake |-> row.wake, again |-> row.again]
  PROVE  /\ DOMAIN rReq' = Requests /\ rReq' = [p \in Requests |-> rReq'[p]]
         /\ \A p \in Requests : rReq'[p] = [pc |-> rReq'[p].pc, attempt |-> rReq'[p].attempt, wake |-> rReq'[p].wake,
                                        again |-> rReq'[p].again]
         /\ rReq'[q].pc = pc /\ \A p \in Requests \ {q} : rReq'[p].pc = rReq[p].pc
BY DEF RateInv

LEMMA SlotTaken ==
  ASSUME RateInv, NEW q \in Requests, q \notin InSlot, rFree > 0, rFree' = rFree - 1,
         InSlot' = InSlot \cup {q}
  PROVE  rFree' \in Nat /\ SlotsAccounted'
<1>1. IsFiniteSet(InSlot)
  BY RequestsAssumption, FS_Subset DEF InSlot
<1>2. Cardinality(InSlot \cup {q}) = Cardinality(InSlot) + 1
  BY <1>1, FS_AddElement
<1>3. Cardinality(InSlot) \in Nat
  BY <1>1, FS_CardinalityType
<1>4. Cardinality(InSlot)' = Cardinality(InSlot) + 1
  BY <1>2
<1> QED BY <1>3, <1>4, RequestsAssumption DEF RateInv, SlotsAccounted

LEMMA SlotReturned ==
  ASSUME RateInv, NEW q \in InSlot, rFree' = rFree + 1, InSlot' = InSlot \ {q}
  PROVE  rFree' \in Nat /\ SlotsAccounted'
<1>1. IsFiniteSet(InSlot)
  BY RequestsAssumption, FS_Subset DEF InSlot
<1>2. Cardinality(InSlot \ {q}) = Cardinality(InSlot) - 1
  BY <1>1, FS_RemoveElement
<1>3. Cardinality(InSlot) \in Nat
  BY <1>1, FS_CardinalityType
<1>4. Cardinality(InSlot)' = Cardinality(InSlot) - 1
  BY <1>2
<1> QED BY <1>3, <1>4, RequestsAssumption DEF RateInv, SlotsAccounted

LEMMA SlotKept ==
  ASSUME RateInv, rFree' = rFree, InSlot' = InSlot
  PROVE  rFree' \in Nat /\ SlotsAccounted'
BY DEF RateInv, SlotsAccounted

\* The rows that To and Sleep write.
LEMMA ToRow ==
  ASSUME RateInv, NEW q \in Requests, NEW pc, To(q, pc) \/ \E t : Sleep(q, pc, t)
  PROVE  \E row : /\ rReq' = [rReq EXCEPT ![q] = row]
                  /\ row = [pc |-> pc, attempt |-> row.attempt, wake |-> row.wake, again |-> row.again]
<1>1. PICK a, t, g : rReq[q] = [pc |-> rReq[q].pc, attempt |-> a, wake |-> t, again |-> g]
  BY DEF RateInv
<1>2. CASE To(q, pc)
  <2>1. [rReq[q] EXCEPT !.pc = pc] = [pc |-> pc, attempt |-> a, wake |-> t, again |-> g]
    BY <1>1
  <2> QED BY <1>2, <2>1 DEF To
<1>3. ASSUME NEW u, Sleep(q, pc, u) PROVE \E row : /\ rReq' = [rReq EXCEPT ![q] = row]
                  /\ row = [pc |-> pc, attempt |-> row.attempt, wake |-> row.wake, again |-> row.again]
  <2>1. [rReq[q] EXCEPT !.pc = pc] = [pc |-> pc, attempt |-> a, wake |-> t, again |-> g]
    BY <1>1
  <2>2. [[pc |-> pc, attempt |-> a, wake |-> t, again |-> g] EXCEPT !.wake = u] = [pc |-> pc, attempt |-> a, wake |-> u, again |-> g]
    OBVIOUS
  <2>3. rReq' = [rReq EXCEPT ![q] = [[rReq[q] EXCEPT !.pc = pc] EXCEPT !.wake = u]]
    BY <1>3 DEF Sleep, RateInv
  <2> QED BY <2>1, <2>2, <2>3
<1> QED BY <1>2, <1>3

\* A request moves: what is left to show is where its slot goes.
LEMMA RateMove ==
  ASSUME RateInv, NEW q \in Requests, NEW pc, NEW row,
         rReq' = [rReq EXCEPT ![q] = row],
         row = [pc |-> pc, attempt |-> row.attempt, wake |-> row.wake, again |-> row.again],
         \/ rReq[q].pc = "new" /\ pc \notin {"new", "done", "failed"} /\ rFree > 0 /\ rFree' = rFree - 1
         \/ q \in InSlot /\ pc \in {"done", "failed"} /\ rFree' = rFree + 1
         \/ q \in InSlot /\ pc \notin {"new", "done", "failed"} /\ rFree' = rFree
  PROVE  RateInv'
<1>1. /\ DOMAIN rReq' = Requests /\ rReq' = [p \in Requests |-> rReq'[p]]
      /\ \A p \in Requests : rReq'[p] = [pc |-> rReq'[p].pc, attempt |-> rReq'[p].attempt, wake |-> rReq'[p].wake,
                                        again |-> rReq'[p].again]
      /\ rReq'[q].pc = pc /\ \A p \in Requests \ {q} : rReq'[p].pc = rReq[p].pc
  BY PcStep
<1>2. rFree' \in Nat /\ SlotsAccounted'
  <2>1. CASE rReq[q].pc = "new" /\ pc \notin {"new", "done", "failed"} /\ rFree > 0 /\ rFree' = rFree - 1
    <3>1. q \notin InSlot /\ InSlot' = InSlot \cup {q}
      BY <1>1, <2>1 DEF InSlot
    <3> QED BY <2>1, <3>1, SlotTaken
  <2>2. CASE q \in InSlot /\ pc \in {"done", "failed"} /\ rFree' = rFree + 1
    <3>1. InSlot' = InSlot \ {q}
      BY <1>1, <2>2 DEF InSlot
    <3> QED BY <2>2, <3>1, SlotReturned
  <2>3. CASE q \in InSlot /\ pc \notin {"new", "done", "failed"} /\ rFree' = rFree
    <3>1. InSlot' = InSlot
      BY <1>1, <2>3 DEF InSlot
    <3> QED BY <2>3, <3>1, SlotKept
  <2> QED BY <2>1, <2>2, <2>3
<1> QED BY <1>1, <1>2 DEF RateInv

LEMMA RateStep == RateInv /\ [RNext]_rVars => RateInv'
<1> SUFFICES ASSUME RateInv, [RNext]_rVars PROVE RateInv'
  OBVIOUS
<1>1. CASE UNCHANGED rVars \/ RTick
  BY <1>1 DEF rVars, RTick, RateInv, SlotsAccounted, InSlot
<1>2. ASSUME NEW q \in Requests, OpenSlot(q) PROVE RateInv'
  BY <1>2, ToRow, RateMove DEF OpenSlot, At
<1>3. ASSUME NEW q \in Requests, WaitIfBlocked(q) PROVE RateInv'
  BY <1>3, ToRow, RateMove DEF WaitIfBlocked, At, InSlot
<1>4. ASSUME NEW q \in Requests, Wakes(q) PROVE RateInv'
  BY <1>4, ToRow, RateMove DEF Wakes, At, InSlot
<1>5. ASSUME NEW q \in Requests, AcquireProactiveSlot(q) PROVE RateInv'
  <2>1. q \in InSlot /\ rFree' = rFree
    BY <1>5 DEF AcquireProactiveSlot, At, InSlot
  <2>2. To(q, "call") \/ \E t : Sleep(q, "window", t)
    BY <1>5 DEF AcquireProactiveSlot
  <2>3. CASE To(q, "call")
    BY <2>1, <2>3, ToRow, RateMove
  <2>4. CASE \E t : Sleep(q, "window", t)
    BY <2>1, <2>4, ToRow, RateMove
  <2> QED BY <2>2, <2>3, <2>4
<1>6. ASSUME NEW q \in Requests, (\E j \in {0, 1} : Backoff(q, j)) \/ CallsAgain(q) PROVE RateInv'
  <2>1. q \in InSlot /\ rFree' = rFree
    BY <1>6 DEF Backoff, CallsAgain, At, InSlot
  <2>2. ASSUME NEW j \in {0, 1}, Backoff(q, j) PROVE RateInv'
    <3>1. PICK a, t, g : rReq' = [rReq EXCEPT ![q] = [pc |-> "backoff", attempt |-> a, wake |-> t, again |-> g]]
      BY <2>2 DEF Backoff
    <3>2. PICK row : row = [pc |-> "backoff", attempt |-> a, wake |-> t, again |-> g]
      OBVIOUS
    <3>3. /\ rReq' = [rReq EXCEPT ![q] = row]
          /\ row = [pc |-> "backoff", attempt |-> row.attempt, wake |-> row.wake, again |-> row.again]
      BY <3>1, <3>2
    <3>4. "backoff" \notin {"new", "done", "failed"}
      OBVIOUS
    <3> QED BY <2>1, <3>3, <3>4, RateMove, Zenon
  <2>3. CASE CallsAgain(q)
    <3>1. PICK a, t, g : rReq' = [rReq EXCEPT ![q] = [pc |-> "check", attempt |-> a, wake |-> t, again |-> g]]
      BY <2>3 DEF CallsAgain
    <3>2. PICK row : row = [pc |-> "check", attempt |-> a, wake |-> t, again |-> g]
      OBVIOUS
    <3>3. /\ rReq' = [rReq EXCEPT ![q] = row]
          /\ row = [pc |-> "check", attempt |-> row.attempt, wake |-> row.wake, again |-> row.again]
      BY <3>1, <3>2
    <3>4. "check" \notin {"new", "done", "failed"}
      OBVIOUS
    <3> QED BY <2>1, <3>3, <3>4, RateMove, Zenon
  <2> QED BY <1>6, <2>2, <2>3
<1>7. ASSUME NEW q \in Requests, NEW pc \in {"done", "failed"}, q \in InSlot, Leave(q, pc) PROVE RateInv'
  BY <1>7, ToRow, RateMove DEF Leave
<1>8. ASSUME NEW q \in Requests, GivesUp(q) \/ CallFails(q) \/ StreamEnds(q) \/ CancelStream(q) PROVE RateInv'
  BY <1>7, <1>8 DEF GivesUp, CallFails, StreamEnds, CancelStream, At, InSlot
<1>9. ASSUME NEW q \in Requests, CallSucceeds(q) PROVE RateInv'
  BY <1>9, ToRow, RateMove DEF CallSucceeds, At, InSlot
<1> QED BY <1>1, <1>2, <1>3, <1>4, <1>5, <1>6, <1>8, <1>9 DEF RNext

\* concurrency_slot: never more streams than the cap, and on every way out of a stream
\* the slot comes back.
THEOREM SlotsAreAccounted == RSpec => []SlotsAccounted
<1>1. RInit => RateInv
  <2> SUFFICES ASSUME RInit PROVE RateInv
    OBVIOUS
  <2>1. InSlot = {}
    BY DEF RInit, InSlot
  <2>2. SlotsAccounted
    BY <2>1, FS_EmptySet, RequestsAssumption DEF RInit, SlotsAccounted
  <2> QED BY <2>2, RequestsAssumption DEF RInit, RateInv
<1>2. RateInv => SlotsAccounted
  BY DEF RateInv
<1> QED BY <1>1, <1>2, RateStep, PTL DEF RSpec

-----------------------------------------------------------------------------
(***************************************************************************)
(* SessionStore                                                            *)
(***************************************************************************)
\* What _schedule_save and a cancelled timer leave of the timers.
LEMMA CancelledTimer ==
  ASSUME NEW t \in [armed: Nat, fired: Nat, ref: {"none", "armed", "fired"}],
         t.ref = "armed" => t.armed > 0
  PROVE  /\ Cancelled(t) \in [armed: Nat, fired: Nat, ref: {"none", "armed", "fired"}]
         /\ Cancelled(t).ref = "none"
<1>1. CASE t.ref = "armed"
  <2>1. t.armed - 1 \in Nat
    BY <1>1
  <2> QED BY <1>1, <2>1 DEF Cancelled
<1>2. CASE t.ref # "armed"
  BY <1>2 DEF Cancelled
<1> QED BY <1>1, <1>2

\* A save that is scheduled has a timer.
LEMMA ScheduledTimer ==
  ASSUME StoreInv, ScheduleSave
  PROVE  /\ sTimer' \in [armed: Nat, fired: Nat, ref: {"none", "armed", "fired"}]
         /\ sTimer'.ref = "armed" /\ sTimer'.armed > 0 /\ sDirty' = TRUE
<1>1. PICK t \in [armed: Nat, fired: Nat, ref: {"none", "armed", "fired"}] : t = Cancelled(sTimer)
  BY CancelledTimer DEF StoreInv, TimersCounted
<1>2. sTimer' = [t EXCEPT !.armed = t.armed + 1, !.ref = "armed"] /\ sDirty' = TRUE
  BY <1>1 DEF ScheduleSave
<1>3. t.armed + 1 \in Nat /\ t.armed + 1 > 0
  OBVIOUS
<1>4. PICK n \in Nat : n = t.armed + 1
  BY <1>3
<1>5. sTimer' = [t EXCEPT !.armed = n, !.ref = "armed"]
  BY <1>2, <1>4
<1> QED BY <1>2, <1>3, <1>4, <1>5

\* The counters and the flag that only the proofs and the bounds read.
LEMMA GhostUpdate ==
  ASSUME NEW g \in [ops: Nat, faults: Nat, overlapped: BOOLEAN], NEW b \in BOOLEAN, NEW n \in Nat
  PROVE  /\ LET h == [g EXCEPT !.ops = n]
            IN  h \in [ops: Nat, faults: Nat, overlapped: BOOLEAN] /\ h.faults = g.faults /\ h.overlapped = g.overlapped
         /\ LET h == [g EXCEPT !.overlapped = b]
            IN  h \in [ops: Nat, faults: Nat, overlapped: BOOLEAN] /\ h.faults = g.faults /\ h.overlapped = b
                /\ h.ops = g.ops
         /\ LET h == [g EXCEPT !.faults = n]
            IN  h \in [ops: Nat, faults: Nat, overlapped: BOOLEAN] /\ h.faults = n /\ h.overlapped = g.overlapped
OBVIOUS

\* A change is remembered by the flag, and a timer will look at it.
LEMMA ChangeKeeps ==
  ASSUME StoreInv, NEW mem, Change(mem)
  PROVE  StoreInv'
<1>1. /\ sTimer' \in [armed: Nat, fired: Nat, ref: {"none", "armed", "fired"}]
      /\ sTimer'.ref = "armed" /\ sTimer'.armed > 0 /\ sDirty' = TRUE
  BY ScheduledTimer DEF Change
<1>2. sGhost \in [ops: Nat, faults: Nat, overlapped: BOOLEAN]
  BY DEF StoreInv, TimersCounted
<1>3. sGhost.ops + 1 \in Nat
  BY <1>2
<1>4. sGhost' \in [ops: Nat, faults: Nat, overlapped: BOOLEAN] /\ sGhost'.overlapped = sGhost.overlapped
  BY <1>2, <1>3, GhostUpdate DEF Change
<1>5. sWriters' = sWriters
  BY DEF Change
<1>6. TimersCounted'
  BY <1>1, <1>4 DEF TimersCounted
<1>7. LoneWriterIsCurrent'
  BY <1>1, <1>4, <1>5 DEF StoreInv, LoneWriterIsCurrent
<1>8. sTimer'.armed + sTimer'.fired > 0
  BY <1>1
<1>9. UnsavedIsRemembered'
  BY <1>1, <1>8 DEF UnsavedIsRemembered
<1> QED BY <1>6, <1>7, <1>9 DEF StoreInv

\* A writer takes its snapshot of what memory now holds, and the flag goes down.
LEMMA WriterStarts ==
  ASSUME StoreInv, Writing(sMem'), sDirty' = FALSE, sDisk' = sDisk,
         sTimer' \in [armed: Nat, fired: Nat, ref: {"none", "armed", "fired"}], sTimer'.ref # "armed",
         sGhost' \in [ops: Nat, faults: Nat, overlapped: BOOLEAN],
         sGhost'.overlapped = (sGhost.overlapped \/ sWriters # {})
  PROVE  StoreInv'
<1>1. PICK n : sWriters' = sWriters \cup {n} /\ n.snapshot = sMem'
  <2>1. PICK id : sWriters' = sWriters \cup {[id |-> id, snapshot |-> sMem']}
    BY DEF Writing
  <2>2. PICK n : n = [id |-> id, snapshot |-> sMem']
    OBVIOUS
  <2> QED BY <2>1, <2>2
<1>2. TimersCounted'
  BY DEF TimersCounted
<1>3. LoneWriterIsCurrent'
  BY <1>1 DEF LoneWriterIsCurrent
<1>4. UnsavedIsRemembered'
  BY <1>1 DEF UnsavedIsRemembered
<1> QED BY <1>2, <1>3, <1>4 DEF StoreInv

LEMMA OverlappingRow ==
  ASSUME StoreInv
  PROVE  /\ Overlapping \in [ops: Nat, faults: Nat, overlapped: BOOLEAN]
         /\ Overlapping.overlapped = (sGhost.overlapped \/ sWriters # {})
         /\ [Overlapping EXCEPT !.ops = @ + 1] \in [ops: Nat, faults: Nat, overlapped: BOOLEAN]
         /\ [Overlapping EXCEPT !.ops = @ + 1].overlapped = (sGhost.overlapped \/ sWriters # {})
<1>1. sGhost \in [ops: Nat, faults: Nat, overlapped: BOOLEAN]
  BY DEF StoreInv, TimersCounted
<1>2. (sGhost.overlapped \/ sWriters # {}) \in BOOLEAN
  BY <1>1
<1>3. /\ Overlapping \in [ops: Nat, faults: Nat, overlapped: BOOLEAN]
      /\ Overlapping.overlapped = (sGhost.overlapped \/ sWriters # {})
  BY <1>1, <1>2, GhostUpdate DEF Overlapping
<1>4. Overlapping.ops + 1 \in Nat
  BY <1>3
<1> QED BY <1>3, <1>4, GhostUpdate

LEMMA StoreStep == StoreInv /\ [SNext]_sVars => StoreInv'
<1> SUFFICES ASSUME StoreInv, [SNext]_sVars PROVE StoreInv'
  OBVIOUS
<1>0. /\ sTimer \in [armed: Nat, fired: Nat, ref: {"none", "armed", "fired"}]
      /\ sTimer.ref = "armed" => sTimer.armed > 0
      /\ sGhost \in [ops: Nat, faults: Nat, overlapped: BOOLEAN] /\ sDirty \in BOOLEAN
  BY DEF StoreInv, TimersCounted
<1>1. CASE UNCHANGED sVars
  BY <1>1 DEF sVars, StoreInv, TimersCounted, LoneWriterIsCurrent, UnsavedIsRemembered
<1>2. ASSUME \/ \E root \in Roots, nodes \in SUBSET TreeNodes : root \in nodes /\ SaveTree(root, nodes)
             \/ \E node \in TreeNodes, root \in Roots : RegisterNode(node, root)
             \/ \E nodes \in SUBSET TreeNodes \ {{}} : RemoveNodeMappings(nodes)
             \/ \E root \in Roots : RemoveTree(root)
             \/ SyncFromTreeData(<<>>, <<>>)
             \/ \E id \in MessageIds : RecordMessageId(id)
      PROVE  StoreInv'
  <2>1. \E mem : Change(mem)
    BY <1>2 DEF SaveTree, RegisterNode, RemoveNodeMappings, RemoveTree, SyncFromTreeData, RecordMessageId
  <2> QED BY <2>1, ChangeKeeps
<1>3. CASE ClearAll
  <2>1. Writing(sMem')
    BY <1>3 DEF ClearAll, Writing
  <2>2. /\ sTimer' \in [armed: Nat, fired: Nat, ref: {"none", "armed", "fired"}] /\ sTimer'.ref # "armed"
    BY <1>0, <1>3, CancelledTimer DEF ClearAll
  <2>3. /\ sGhost' \in [ops: Nat, faults: Nat, overlapped: BOOLEAN]
        /\ sGhost'.overlapped = (sGhost.overlapped \/ sWriters # {})
        /\ sDirty' = FALSE /\ sDisk' = sDisk
    BY <1>3, OverlappingRow DEF ClearAll
  <2> QED BY <2>1, <2>2, <2>3, WriterStarts
<1>4. CASE FlushPendingSave
  <2>1. Writing(sMem')
    BY <1>4 DEF FlushPendingSave, Writing
  <2>2. /\ sTimer' \in [armed: Nat, fired: Nat, ref: {"none", "armed", "fired"}] /\ sTimer'.ref # "armed"
    BY <1>0, <1>4, CancelledTimer DEF FlushPendingSave
  <2>3. /\ sGhost' \in [ops: Nat, faults: Nat, overlapped: BOOLEAN]
        /\ sGhost'.overlapped = (sGhost.overlapped \/ sWriters # {})
        /\ sDirty' = FALSE /\ sDisk' = sDisk
    BY <1>4, OverlappingRow DEF FlushPendingSave
  <2> QED BY <2>1, <2>2, <2>3, WriterStarts
<1>5. CASE SaveFromTimer
  <2>1. PICK n \in Nat : n = sTimer.fired - 1
    BY <1>0, <1>5 DEF SaveFromTimer
  <2>2. sTimer' = [sTimer EXCEPT !.fired = n, !.ref = "none"]
    BY <1>5, <2>1 DEF SaveFromTimer
  <2>3. /\ sTimer' \in [armed: Nat, fired: Nat, ref: {"none", "armed", "fired"}] /\ sTimer'.ref # "armed"
    BY <1>0, <2>2
  <2>4. CASE sDirty
    <3>1. Writing(sMem')
      BY <1>5, <2>4 DEF SaveFromTimer, Writing
    <3>2. /\ sGhost' \in [ops: Nat, faults: Nat, overlapped: BOOLEAN]
          /\ sGhost'.overlapped = (sGhost.overlapped \/ sWriters # {})
          /\ sDirty' = FALSE /\ sDisk' = sDisk
      BY <1>5, <2>4, OverlappingRow DEF SaveFromTimer
    <3> QED BY <2>3, <3>1, <3>2, WriterStarts
  <2>5. CASE ~sDirty
    <3>1. UNCHANGED <<sWriters, sDirty, sGhost, sMem, sDisk>>
      BY <1>5, <2>5 DEF SaveFromTimer
    <3> QED BY <2>3, <2>5, <3>1 DEF StoreInv, TimersCounted, LoneWriterIsCurrent, UnsavedIsRemembered
  <2> QED BY <2>4, <2>5
<1>6. CASE Restart
  <2>1. sGhost.faults + 1 \in Nat
    BY <1>0
  <2>2. sGhost' \in [ops: Nat, faults: Nat, overlapped: BOOLEAN]
    BY <1>0, <1>6, <2>1 DEF Restart
  <2>3. sTimer' \in [armed: Nat, fired: Nat, ref: {"none", "armed", "fired"}] /\ sTimer'.ref # "armed"
    BY <1>6 DEF Restart, NoTimers
  <2>4. sWriters' = {} /\ sDirty' = FALSE /\ sDisk' = sMem'
    BY <1>6 DEF Restart
  <2> QED BY <2>2, <2>3, <2>4 DEF StoreInv, TimersCounted, LoneWriterIsCurrent, UnsavedIsRemembered
<1>7. ASSUME NEW own \in BOOLEAN, TimerFires(own) PROVE StoreInv'
  <2>1. UNCHANGED <<sMem, sDirty, sWriters, sDisk, sGhost>>
    BY <1>7 DEF TimerFires
  <2>2. /\ sTimer' \in [armed: Nat, fired: Nat, ref: {"none", "armed", "fired"}]
        /\ sTimer'.ref = "armed" => sTimer'.armed > 0
        /\ sTimer'.armed + sTimer'.fired > 0
    BY <1>0, <1>7 DEF TimerFires
  <2> QED BY <2>1, <2>2 DEF StoreInv, TimersCounted, LoneWriterIsCurrent, UnsavedIsRemembered
<1>8. ASSUME NEW w \in sWriters, WriteSucceeds(w) PROVE StoreInv'
  <2>1. sDisk' = w.snapshot /\ sWriters' = sWriters \ {w} /\ UNCHANGED <<sMem, sDirty, sTimer, sGhost>>
    BY <1>8 DEF WriteSucceeds
  <2>2. TimersCounted'
    BY <2>1 DEF StoreInv, TimersCounted
  <2>3. LoneWriterIsCurrent'
    BY <2>1 DEF StoreInv, LoneWriterIsCurrent
  <2>4. UnsavedIsRemembered'
    <3>1. ~sGhost.overlapped /\ ~sDirty => sDisk' = sMem'
      BY <2>1 DEF StoreInv, LoneWriterIsCurrent
    <3> QED BY <2>1, <3>1 DEF StoreInv, UnsavedIsRemembered
  <2> QED BY <2>2, <2>3, <2>4 DEF StoreInv
<1>9. ASSUME NEW w \in sWriters, WriteFails(w) PROVE StoreInv'
  <2>1. sGhost.faults + 1 \in Nat /\ sGhost.faults + 1 # 0
    BY <1>0
  <2>2. /\ sGhost' \in [ops: Nat, faults: Nat, overlapped: BOOLEAN]
        /\ sGhost'.overlapped = sGhost.overlapped /\ sGhost'.faults # 0
    BY <1>0, <1>9, <2>1, GhostUpdate DEF WriteFails
  <2>3. sWriters' = sWriters \ {w} /\ sDirty' = TRUE /\ UNCHANGED <<sMem, sTimer, sDisk>>
    BY <1>9 DEF WriteFails
  <2> QED BY <1>0, <2>2, <2>3 DEF StoreInv, TimersCounted, LoneWriterIsCurrent, UnsavedIsRemembered
<1> QED BY <1>1, <1>2, <1>3, <1>4, <1>5, <1>6, <1>7, <1>8, <1>9 DEF SNext

\* Whatever timers fire late, writes fail and processes restart: as long as no two writers
\* have overlapped since the last restart, what the file lacks is flagged or in the hands of a writer, and a flag that is
\* up has a timer unless a write failed (_schedule_save, _save_from_timer, flush).
THEOREM UnsavedStaysRemembered == SSpec => []UnsavedIsRemembered
<1>1. SInit => StoreInv
  <2> SUFFICES ASSUME SInit PROVE StoreInv
    OBVIOUS
  <2>1. sTimer \in [armed: Nat, fired: Nat, ref: {"none", "armed", "fired"}] /\ sTimer.ref = "none"
    BY DEF SInit, NoTimers
  <2>2. sGhost \in [ops: Nat, faults: Nat, overlapped: BOOLEAN]
    BY DEF SInit
  <2>3. sDirty = FALSE /\ sDisk = sMem /\ sWriters = {}
    BY DEF SInit
  <2> QED BY <2>1, <2>2, <2>3 DEF StoreInv, TimersCounted, LoneWriterIsCurrent, UnsavedIsRemembered
<1>2. StoreInv => UnsavedIsRemembered
  BY DEF StoreInv
<1> QED BY <1>1, <1>2, StoreStep, PTL DEF SSpec

-----------------------------------------------------------------------------
(***************************************************************************)
(* MessagingRateLimiter                                                    *)
(***************************************************************************)
LPc == {"new", "waiting", "cancelled", "done", "backoff", "failed"}

\* The callers' states, without what their records hold besides.
LEMMA CallerTypes ==
  ASSUME LTypeOK, NEW c \in Callers
  PROVE  lCaller[c].pc \in LPc /\ lCaller[c].tries \in Nat /\ KeyOf[c] \in Keys /\ c \in Nat \ {0}
BY LimiterBounds DEF LTypeOK, LPc, Keys

\* A retry that happened stays: the tries of a caller only grow.
LEMMA RetriedStays ==
  ASSUME LTypeOK, NEW c \in Callers, OlderRetried(c),
         \A d \in Callers : lCaller[d].tries > 1 => lCaller'[d].tries > 1
  PROVE  OlderRetried(c)'
BY DEF OlderRetried

\* _enqueue_internal_multi, for the first time or again: nobody's future is dropped, and
\* the new text is the newest one unless it was queued before.
LEMMA EnqueueKeeps ==
  ASSUME LimiterInv, NEW c \in Callers, Enqueued1(c),
         \/ lCaller[c].pc = "new" /\ \A d \in Callers : d < c => lCaller[d].pc # "new"
         \/ lCaller[c].pc = "backoff"
  PROVE  LimiterInv'
<1> DEFINE k == KeyOf[c]
           t == Compacted(lTasks[k], c)
           tries == lCaller[c].tries + 1
<1>0. LTypeOK /\ k \in Keys /\ c \in Nat \ {0} /\ lCaller[c].tries \in Nat
  BY CallerTypes DEF LimiterInv
<1>1. /\ lTasks' = [lTasks EXCEPT ![k] = t]
      /\ lQueue' = IF Queued(k) THEN lQueue ELSE Append(lQueue, k)
      /\ lCaller' = [lCaller EXCEPT ![c] = [pc |-> "waiting", tries |-> tries]]
      /\ UNCHANGED <<lWorker, lPaused, lShown>>
  BY DEF Enqueued1
<1>2. t \in LTask /\ t.what = c /\ t.futures = lTasks[k].futures \cup {c}
  BY <1>0 DEF Compacted, LTypeOK, LTask
<1>3. /\ lTasks'[k] = t
      /\ \A j \in Keys : j # k => lTasks'[j] = lTasks[j]
  BY <1>0, <1>1 DEF LTypeOK
<1>4. /\ lCaller'[c].pc = "waiting" /\ lCaller'[c].tries = lCaller[c].tries + 1
      /\ \A d \in Callers : d # c => lCaller'[d] = lCaller[d]
  BY <1>0, <1>1 DEF LTypeOK
<1>5. \A d \in Callers : lCaller[d].tries > 1 => lCaller'[d].tries > 1
  <2> SUFFICES ASSUME NEW d \in Callers, lCaller[d].tries > 1 PROVE lCaller'[d].tries > 1
    OBVIOUS
  <2>1. CASE d = c
    BY <1>0, <1>4, <2>1
  <2>2. CASE d # c
    BY <1>4, <2>2
  <2> QED BY <2>1, <2>2
<1>6. LTypeOK'
  <2>1. lQueue' \in Seq(Keys)
    BY <1>0, <1>1 DEF LTypeOK
  <2>2. lTasks' \in [Keys -> LTask]
    BY <1>0, <1>1, <1>2 DEF LTypeOK
  <2>3. tries \in Nat
    BY <1>0
  <2>4. lCaller' \in [Callers -> [pc: LPc, tries: Nat]]
    BY <1>0, <1>1, <2>3 DEF LTypeOK, LPc
  <2> QED BY <1>0, <1>1, <2>1, <2>2, <2>4 DEF LTypeOK, LPc
<1>7. SubmittedInOrder'
  BY <1>0, <1>4, CallerTypes DEF LimiterInv, SubmittedInOrder
<1>8. /\ \E i \in DOMAIN lQueue' : lQueue'[i] = k
      /\ \A i \in DOMAIN lQueue : i \in DOMAIN lQueue' /\ lQueue'[i] = lQueue[i]
      /\ \A i \in DOMAIN lQueue' : i \in DOMAIN lQueue \/ (~Queued(k) /\ i = Len(lQueue) + 1 /\ lQueue'[i] = k)
  <2>1. CASE Queued(k)
    BY <1>0, <1>1, <2>1 DEF Queued, LimiterInv, QueueHoldsTasks
  <2>2. CASE ~Queued(k)
    <3>1. lQueue' = Append(lQueue, k) /\ lQueue \in Seq(Keys)
      BY <1>0, <1>1, <2>2 DEF LTypeOK
    <3>2. /\ DOMAIN lQueue = 1..Len(lQueue) /\ Len(lQueue) \in Nat
          /\ DOMAIN lQueue' = 1..(Len(lQueue) + 1)
          /\ \A i \in 1..Len(lQueue) : lQueue'[i] = lQueue[i]
          /\ lQueue'[Len(lQueue) + 1] = k
      BY <1>0, <3>1
    <3> QED BY <2>2, <3>2
  <2> QED BY <2>1, <2>2
<1>9. QueueHoldsTasks'
  <2>1. \A j \in Keys : lTasks'[j].futures # {} => \E i \in DOMAIN lQueue' : lQueue'[i] = j
    BY <1>3, <1>8 DEF LimiterInv, QueueHoldsTasks
  <2>2. \A j \in Keys : \A d \in lTasks'[j].futures : KeyOf[d] = j /\ lCaller'[d].pc # "new"
    <3> SUFFICES ASSUME NEW j \in Keys, NEW d \in lTasks'[j].futures
                 PROVE  KeyOf[d] = j /\ lCaller'[d].pc # "new"
      OBVIOUS
    <3>1. d \in Callers /\ ((d = c /\ j = k) \/ d \in lTasks[j].futures)
      BY <1>0, <1>2, <1>3 DEF LTypeOK, LTask
    <3> QED BY <1>4, <3>1 DEF LimiterInv, QueueHoldsTasks
  <2>3. \A i \in DOMAIN lQueue' : lTasks'[lQueue'[i]].futures # {}
    <3> SUFFICES ASSUME NEW i \in DOMAIN lQueue' PROVE lTasks'[lQueue'[i]].futures # {}
      OBVIOUS
    <3>1. CASE lQueue'[i] = k
      BY <1>2, <1>3, <3>1
    <3>2. CASE lQueue'[i] # k
      <4>1. i \in DOMAIN lQueue /\ lQueue'[i] = lQueue[i] /\ lQueue[i] \in Keys
        BY <1>0, <1>8, <3>2 DEF LTypeOK
      <4> QED BY <1>3, <3>2, <4>1 DEF LimiterInv, QueueHoldsTasks
    <3> QED BY <3>1, <3>2
  <2>4. \A i, j \in DOMAIN lQueue' : lQueue'[i] = lQueue'[j] => i = j
    <3>1. ~Queued(k) => \A i \in DOMAIN lQueue : lQueue[i] # k
      BY DEF Queued, LimiterInv, QueueHoldsTasks
    <3> QED BY <1>8, <3>1 DEF LimiterInv, QueueHoldsTasks
  <2> QED BY <2>1, <2>2, <2>3, <2>4 DEF QueueHoldsTasks
<1>10. WorkerHoldsTask'
  BY <1>1 DEF LimiterInv, WorkerHoldsTask, AtSend
<1>11. QueuedIsNewest'
  <2> SUFFICES ASSUME NEW d \in Callers, lTasks'[KeyOf[d]].futures # {}, lCaller'[d].pc # "new",
                      d > lTasks'[KeyOf[d]].what
               PROVE  OlderRetried(d)'
    BY DEF QueuedIsNewest
  <2>0. KeyOf[d] \in Keys /\ d \in Nat
    BY <1>0, CallerTypes
  <2>1. CASE KeyOf[d] # k
    <3>1. OlderRetried(d)
      BY <1>3, <1>4, <2>0, <2>1 DEF LimiterInv, QueuedIsNewest
    <3> QED BY <1>0, <1>5, <3>1, RetriedStays
  <2>2. CASE KeyOf[d] = k
    <3>1. d > c
      BY <1>2, <1>3, <2>2
    <3>2. d # c /\ lCaller[d].pc # "new" /\ c < d
      BY <1>0, <1>4, <2>0, <3>1
    <3>3. lCaller[c].pc # "new"
      BY <3>2 DEF LimiterInv, SubmittedInOrder
    <3>4. lCaller'[c].tries > 1
      BY <1>0, <1>4, <3>3 DEF LimiterInv, SubmittedInOrder
    <3> QED BY <2>2, <3>2, <3>4 DEF OlderRetried
  <2> QED BY <2>1, <2>2
<1>12. SendingIsNewest'
  <2> SUFFICES ASSUME NEW d \in Callers, AtSend', KeyOf[d] = lWorker'.key, d > lWorker'.task.what,
                      d \in lWorker'.task.futures \/ lCaller'[d].pc = "done"
               PROVE  OlderRetried(d)'
    BY DEF SendingIsNewest
  <2>1. OlderRetried(d)
    BY <1>1, <1>4 DEF AtSend, LimiterInv, SendingIsNewest
  <2> QED BY <1>0, <1>5, <2>1, RetriedStays
<1>13. NoFutureLost'
  <2> SUFFICES ASSUME NEW d \in Callers, lCaller'[d].pc = "waiting"
               PROVE  \/ d \in lTasks'[KeyOf[d]].futures /\ \E i \in DOMAIN lQueue' : lQueue'[i] = KeyOf[d]
                      \/ d \in lWorker'.task.futures /\ lWorker'.pc \in {"taken", "sending", "stopped"}
    BY DEF NoFutureLost
  <2>1. CASE d = c
    BY <1>2, <1>3, <1>8, <2>1
  <2>2. CASE d # c
    <3>1. \/ d \in lTasks[KeyOf[d]].futures /\ \E i \in DOMAIN lQueue : lQueue[i] = KeyOf[d]
          \/ d \in lWorker.task.futures /\ lWorker.pc \in {"taken", "sending", "stopped"}
      BY <1>4, <2>2 DEF LimiterInv, NoFutureLost
    <3>2. KeyOf[d] \in Keys
      BY <1>0, CallerTypes
    <3>3. d \in lTasks[KeyOf[d]].futures => d \in lTasks'[KeyOf[d]].futures
      BY <1>2, <1>3, <3>2
    <3> QED BY <1>1, <1>8, <3>1, <3>3
  <2> QED BY <2>1, <2>2
<1>14. SentMeansShown'
  <2> SUFFICES ASSUME NEW d \in Callers, lCaller'[d].pc = "done"
               PROVE  lShown'[KeyOf[d]] >= d \/ OlderRetried(d)'
    BY DEF SentMeansShown, OlderRetried
  <2>1. lShown[KeyOf[d]] >= d \/ OlderRetried(d)
    BY <1>4 DEF LimiterInv, SentMeansShown, OlderRetried
  <2> QED BY <1>0, <1>1, <1>5, <2>1, RetriedStays
<1> QED BY <1>6, <1>7, <1>9, <1>10, <1>11, <1>12, <1>13, <1>14 DEF LimiterInv

\* Answers and cancellations move callers on; they leave the queue and the tries alone.
LEMMA AnswersKeep ==
  ASSUME LimiterInv, UNCHANGED <<lQueue, lTasks>>, LTypeOK',
         \A d \in Callers : /\ lCaller'[d].tries = lCaller[d].tries
                            /\ lCaller'[d].pc = "new" <=> lCaller[d].pc = "new"
  PROVE  /\ SubmittedInOrder' /\ QueueHoldsTasks' /\ QueuedIsNewest'
         /\ \A d \in Callers : OlderRetried(d) => OlderRetried(d)'
<1>1. \A d \in Callers : OlderRetried(d) => OlderRetried(d)'
  BY DEF OlderRetried
<1>2. SubmittedInOrder'
  BY DEF LimiterInv, SubmittedInOrder
<1>3. QueueHoldsTasks'
  <2>1. \A k \in Keys : \A d \in lTasks[k].futures : d \in Callers
    BY DEF LimiterInv, LTypeOK, LTask
  <2> QED BY <2>1 DEF LimiterInv, QueueHoldsTasks
<1>4. QueuedIsNewest'
  BY <1>1 DEF LimiterInv, QueuedIsNewest
<1> QED BY <1>1, <1>2, <1>3, <1>4

\* A caller that is cancelled leaves its future in the task.
LEMMA LeavesKeeps == ASSUME LimiterInv, NEW c \in Callers, CallerLeaves(c) PROVE LimiterInv'
<1>0. LTypeOK
  BY DEF LimiterInv
<1>1. /\ lCaller[c].pc = "waiting" /\ lCaller' = [lCaller EXCEPT ![c].pc = "cancelled"]
      /\ UNCHANGED <<lQueue, lTasks, lWorker, lPaused, lShown>>
  BY DEF CallerLeaves
<1>2. /\ lCaller'[c].pc = "cancelled" /\ lCaller'[c].tries = lCaller[c].tries
      /\ \A d \in Callers : d # c => lCaller'[d] = lCaller[d]
  BY <1>0, <1>1 DEF LTypeOK
<1>3. LTypeOK'
  BY <1>0, <1>1 DEF LTypeOK
<1>4. /\ SubmittedInOrder' /\ QueueHoldsTasks' /\ QueuedIsNewest'
      /\ \A d \in Callers : OlderRetried(d) => OlderRetried(d)'
  BY <1>1, <1>2, <1>3, AnswersKeep
<1>5. WorkerHoldsTask'
  BY <1>1 DEF LimiterInv, WorkerHoldsTask, AtSend
<1>6. SendingIsNewest'
  BY <1>1, <1>2, <1>4 DEF LimiterInv, SendingIsNewest, AtSend
<1>7. NoFutureLost'
  BY <1>1, <1>2 DEF LimiterInv, NoFutureLost
<1>8. SentMeansShown'
  BY <1>1, <1>2, <1>4 DEF LimiterInv, SentMeansShown, OlderRetried
<1> QED BY <1>3, <1>4, <1>5, <1>6, <1>7, <1>8 DEF LimiterInv

\* The worker takes the oldest key with everybody that waits for it.
LEMMA TakesKeeps == ASSUME LimiterInv, WorkerTakes PROVE LimiterInv'
<1> DEFINE k == Head(lQueue)
<1>0. LTypeOK /\ lQueue \in Seq(Keys) /\ lQueue # <<>>
  BY DEF LimiterInv, LTypeOK, WorkerTakes
<1>1. /\ lWorker.pc = "idle"
      /\ lWorker' = [pc |-> "taken", key |-> k, task |-> lTasks[k]]
      /\ lQueue' = Tail(lQueue) /\ lTasks' = [lTasks EXCEPT ![k] = NoTask]
      /\ UNCHANGED <<lPaused, lCaller, lShown>>
  BY DEF WorkerTakes
<1>2. /\ k \in Keys /\ k = lQueue[1] /\ 1 \in DOMAIN lQueue
      /\ DOMAIN lQueue = 1..Len(lQueue) /\ Len(lQueue) \in Nat \ {0}
      /\ DOMAIN lQueue' = 1..(Len(lQueue) - 1)
      /\ \A i \in 1..(Len(lQueue) - 1) : lQueue'[i] = lQueue[i + 1]
  BY <1>0, <1>1
<1>3. /\ lTasks'[k] = NoTask /\ NoTask.futures = {} /\ NoTask \in LTask
      /\ \A j \in Keys : j # k => lTasks'[j] = lTasks[j]
  BY <1>0, <1>1, <1>2 DEF LTypeOK, NoTask, LTask
<1>4. LTypeOK'
  <2>1. lTasks[k] \in LTask
    BY <1>0, <1>2 DEF LTypeOK
  <2>2. lWorker' \in [pc: {"idle", "taken", "sending", "stopped"}, key: Keys \cup {0}, task: LTask]
    BY <1>1, <1>2, <2>1
  <2>3. lQueue' \in Seq(Keys)
    BY <1>0, <1>1
  <2>4. lTasks' \in [Keys -> LTask]
    BY <1>0, <1>1, <1>3 DEF LTypeOK
  <2> QED BY <1>0, <1>1, <2>2, <2>3, <2>4 DEF LTypeOK
<1>5. SubmittedInOrder'
  BY <1>1 DEF LimiterInv, SubmittedInOrder
<1>6. \A i \in DOMAIN lQueue' : i + 1 \in DOMAIN lQueue /\ lQueue'[i] = lQueue[i + 1] /\ lQueue'[i] # k
  <2> SUFFICES ASSUME NEW i \in DOMAIN lQueue'
               PROVE  i + 1 \in DOMAIN lQueue /\ lQueue'[i] = lQueue[i + 1] /\ lQueue'[i] # k
    OBVIOUS
  <2>1. i + 1 \in DOMAIN lQueue /\ lQueue'[i] = lQueue[i + 1] /\ i + 1 # 1
    BY <1>2
  <2> QED BY <1>2, <2>1 DEF LimiterInv, QueueHoldsTasks
<1>7. \A j \in Keys : j # k /\ (\E i \in DOMAIN lQueue : lQueue[i] = j) => \E i \in DOMAIN lQueue' : lQueue'[i] = j
  <2> SUFFICES ASSUME NEW j \in Keys, j # k, NEW i \in DOMAIN lQueue, lQueue[i] = j
               PROVE  \E h \in DOMAIN lQueue' : lQueue'[h] = j
    OBVIOUS
  <2>1. i # 1
    BY <1>2
  <2>2. i - 1 \in DOMAIN lQueue' /\ i = (i - 1) + 1
    BY <1>2, <2>1
  <2> QED BY <1>2, <2>2
<1>8. QueueHoldsTasks'
  <2>1. \A j \in Keys : lTasks'[j].futures # {} => \E i \in DOMAIN lQueue' : lQueue'[i] = j
    BY <1>3, <1>7 DEF LimiterInv, QueueHoldsTasks
  <2>2. \A j \in Keys : \A d \in lTasks'[j].futures : KeyOf[d] = j /\ lCaller'[d].pc # "new"
    BY <1>1, <1>3 DEF LimiterInv, QueueHoldsTasks
  <2>3. \A i \in DOMAIN lQueue' : lTasks'[lQueue'[i]].futures # {}
    <3> SUFFICES ASSUME NEW i \in DOMAIN lQueue' PROVE lTasks'[lQueue'[i]].futures # {}
      OBVIOUS
    <3>1. lQueue[i + 1] \in Keys
      BY <1>0, <1>6
    <3> QED BY <1>3, <1>6, <3>1 DEF LimiterInv, QueueHoldsTasks
  <2>4. \A i, j \in DOMAIN lQueue' : lQueue'[i] = lQueue'[j] => i = j
    <3> SUFFICES ASSUME NEW i \in DOMAIN lQueue', NEW j \in DOMAIN lQueue', lQueue'[i] = lQueue'[j]
                 PROVE  i = j
      OBVIOUS
    <3>1. i + 1 = j + 1
      BY <1>6 DEF LimiterInv, QueueHoldsTasks
    <3> QED BY <1>2, <3>1
  <2> QED BY <2>1, <2>2, <2>3, <2>4 DEF QueueHoldsTasks
<1>9. WorkerHoldsTask'
  BY <1>1, <1>2 DEF LimiterInv, WorkerHoldsTask, QueueHoldsTasks
<1>10. \A d \in Callers : OlderRetried(d) => OlderRetried(d)'
  BY <1>1 DEF OlderRetried
<1>11. QueuedIsNewest'
  <2> SUFFICES ASSUME NEW d \in Callers, lTasks'[KeyOf[d]].futures # {}, lCaller'[d].pc # "new",
                      d > lTasks'[KeyOf[d]].what
               PROVE  OlderRetried(d)'
    BY DEF QueuedIsNewest
  <2>1. KeyOf[d] \in Keys /\ KeyOf[d] # k
    BY <1>0, <1>3, CallerTypes
  <2> QED BY <1>1, <1>3, <1>10, <2>1 DEF LimiterInv, QueuedIsNewest
<1>12. SendingIsNewest'
  <2> SUFFICES ASSUME NEW d \in Callers, KeyOf[d] = lWorker'.key, d > lWorker'.task.what,
                      d \in lWorker'.task.futures \/ lCaller'[d].pc = "done"
               PROVE  OlderRetried(d)'
    BY DEF SendingIsNewest
  <2>1. KeyOf[d] = k /\ d > lTasks[k].what /\ (d \in lTasks[k].futures \/ lCaller[d].pc = "done")
    BY <1>1
  <2>2. lTasks[k].futures # {} /\ lCaller[d].pc # "new"
    BY <1>2, <2>1 DEF LimiterInv, QueueHoldsTasks
  <2> QED BY <1>10, <2>1, <2>2 DEF LimiterInv, QueuedIsNewest
<1>13. NoFutureLost'
  <2> SUFFICES ASSUME NEW d \in Callers, lCaller'[d].pc = "waiting"
               PROVE  \/ d \in lTasks'[KeyOf[d]].futures /\ \E i \in DOMAIN lQueue' : lQueue'[i] = KeyOf[d]
                      \/ d \in lWorker'.task.futures /\ lWorker'.pc \in {"taken", "sending", "stopped"}
    BY DEF NoFutureLost
  <2>1. KeyOf[d] \in Keys /\ d \in lTasks[KeyOf[d]].futures /\ \E i \in DOMAIN lQueue : lQueue[i] = KeyOf[d]
    BY <1>0, <1>1, CallerTypes DEF LimiterInv, NoFutureLost
  <2> QED BY <1>1, <1>3, <1>7, <2>1
<1>14. SentMeansShown'
  BY <1>1, <1>10 DEF LimiterInv, SentMeansShown, OlderRetried
<1> QED BY <1>4, <1>5, <1>8, <1>9, <1>11, <1>12, <1>13, <1>14 DEF LimiterInv

\* The send succeeded: everybody in the task that still waits is told so.
LEMMA SucceedsKeeps == ASSUME LimiterInv, SendSucceeds PROVE LimiterInv'
<1> DEFINE t == lWorker.task
<1>0. LTypeOK
  BY DEF LimiterInv
<1>1. /\ lWorker.pc = "sending"
      /\ lShown' = [lShown EXCEPT ![lWorker.key] = t.what]
      /\ lCaller' = [c \in Callers |-> IF Unanswered(c, t) THEN [lCaller[c] EXCEPT !.pc = "done"] ELSE lCaller[c]]
      /\ lWorker' = [lWorker EXCEPT !.pc = "idle"]
      /\ UNCHANGED <<lQueue, lTasks, lPaused>>
  BY DEF SendSucceeds
<1>2. \A d \in Callers :
        /\ Unanswered(d, t) => lCaller'[d].pc = "done" /\ lCaller'[d].tries = lCaller[d].tries
        /\ ~Unanswered(d, t) => lCaller'[d] = lCaller[d]
        /\ lCaller'[d] \in [pc: LPc, tries: Nat]
  BY <1>0, <1>1 DEF LTypeOK, LPc
<1>3. LTypeOK'
  <2>1. t.what \in Callers \cup {0}
    BY <1>0 DEF LTypeOK, LTask
  <2>2. lShown' \in [Keys -> Callers \cup {0}]
    BY <1>0, <1>1, <2>1 DEF LTypeOK
  <2>3. lCaller' \in [Callers -> [pc: LPc, tries: Nat]]
    BY <1>1, <1>2
  <2>4. lWorker' \in [pc: {"idle", "taken", "sending", "stopped"}, key: Keys \cup {0}, task: LTask]
    BY <1>0, <1>1 DEF LTypeOK
  <2> QED BY <1>0, <1>1, <2>2, <2>3, <2>4 DEF LTypeOK, LPc
<1>4. /\ SubmittedInOrder' /\ QueueHoldsTasks' /\ QueuedIsNewest'
      /\ \A d \in Callers : OlderRetried(d) => OlderRetried(d)'
  BY <1>1, <1>2, <1>3, AnswersKeep DEF Unanswered
<1>5. lWorker'.pc = "idle" /\ ~AtSend'
  BY <1>0, <1>1 DEF LTypeOK, AtSend
<1>6. NoFutureLost'
  BY <1>1, <1>2 DEF LimiterInv, NoFutureLost, Unanswered
<1>7. SentMeansShown'
  <2> SUFFICES ASSUME NEW d \in Callers, lCaller'[d].pc = "done"
               PROVE  lShown'[KeyOf[d]] >= d \/ OlderRetried(d)'
    BY DEF SentMeansShown, OlderRetried
  <2>0. KeyOf[d] \in Keys /\ d \in Nat /\ t.what \in Nat
    <3>1. t.what \in Callers \cup {0}
      BY <1>0 DEF LTypeOK, LTask
    <3>2. Callers \cup {0} \subseteq Nat
      BY LimiterBounds
    <3>3. t.what \in Nat
      BY <3>1, <3>2
    <3> QED BY <1>0, <3>3, CallerTypes
  <2>1. CASE KeyOf[d] # lWorker.key
    <3>1. lShown'[KeyOf[d]] = lShown[KeyOf[d]]
      BY <1>0, <1>1, <2>0, <2>1 DEF LTypeOK
    <3>2. ~Unanswered(d, t)
      BY <1>1, <2>1 DEF LimiterInv, WorkerHoldsTask, AtSend, Unanswered
    <3> QED BY <1>2, <1>4, <3>1, <3>2 DEF LimiterInv, SentMeansShown, OlderRetried
  <2>2. CASE KeyOf[d] = lWorker.key
    <3>1. lShown'[KeyOf[d]] = t.what
      BY <1>0, <1>1, <2>0, <2>2 DEF LTypeOK
    <3>2. d \in t.futures \/ lCaller[d].pc = "done"
      BY <1>2 DEF Unanswered
    <3>3. d > t.what => OlderRetried(d)
      BY <1>1, <2>2, <3>2 DEF LimiterInv, SendingIsNewest, AtSend
    <3> QED BY <1>4, <2>0, <3>1, <3>3
  <2> QED BY <2>1, <2>2
<1> QED BY <1>3, <1>4, <1>5, <1>6, <1>7 DEF LimiterInv, WorkerHoldsTask, SendingIsNewest

\* The send failed: everybody in the task that still waits is told so, or tries again.
LEMMA FailsKeeps == ASSUME LimiterInv, NEW error, SendFails(error) PROVE LimiterInv'
<1> DEFINE t == lWorker.task
           Again(c) == error = "connect" /\ c \in Forgetful /\ lCaller[c].tries < MaxTries
<1>0. LTypeOK
  BY DEF LimiterInv
<1>1. /\ lWorker.pc = "sending"
      /\ lPaused' = (lPaused \/ error = "flood")
      /\ lCaller' = [c \in Callers |->
                        IF Unanswered(c, t) THEN [lCaller[c] EXCEPT !.pc = IF Again(c) THEN "backoff" ELSE "failed"]
                        ELSE lCaller[c]]
      /\ lWorker' = [lWorker EXCEPT !.pc = "idle"]
      /\ UNCHANGED <<lQueue, lTasks, lShown>>
  BY DEF SendFails
<1>2. \A d \in Callers :
        /\ Unanswered(d, t) => lCaller'[d].pc \in {"backoff", "failed"} /\ lCaller'[d].tries = lCaller[d].tries
        /\ ~Unanswered(d, t) => lCaller'[d] = lCaller[d]
        /\ lCaller'[d] \in [pc: LPc, tries: Nat]
  BY <1>0, <1>1 DEF LTypeOK, LPc
<1>3. LTypeOK'
  <2>1. lCaller' \in [Callers -> [pc: LPc, tries: Nat]]
    BY <1>1, <1>2
  <2>2. lWorker' \in [pc: {"idle", "taken", "sending", "stopped"}, key: Keys \cup {0}, task: LTask]
    BY <1>0, <1>1 DEF LTypeOK
  <2>3. lPaused' \in BOOLEAN
    BY <1>1
  <2> QED BY <1>0, <1>1, <2>1, <2>2, <2>3 DEF LTypeOK, LPc
<1>4. /\ SubmittedInOrder' /\ QueueHoldsTasks' /\ QueuedIsNewest'
      /\ \A d \in Callers : OlderRetried(d) => OlderRetried(d)'
  BY <1>1, <1>2, <1>3, AnswersKeep DEF Unanswered
<1>5. lWorker'.pc = "idle" /\ ~AtSend'
  BY <1>0, <1>1 DEF LTypeOK, AtSend
<1>6. NoFutureLost'
  BY <1>1, <1>2 DEF LimiterInv, NoFutureLost, Unanswered
<1>7. SentMeansShown'
  <2>1. \A d \in Callers : lCaller'[d].pc = "done" => lCaller[d].pc = "done"
    BY <1>2
  <2> QED BY <1>1, <1>4, <2>1 DEF LimiterInv, SentMeansShown, OlderRetried
<1> QED BY <1>3, <1>4, <1>5, <1>6, <1>7 DEF LimiterInv, WorkerHoldsTask, SendingIsNewest

\* The worker moves on or is stopped: nobody is answered.
LEMMA WorkerMovesKeep ==
  ASSUME LimiterInv, UNCHANGED <<lQueue, lTasks, lCaller, lShown>>, lPaused' \in BOOLEAN,
         \/ UNCHANGED lWorker
         \/ lWorker.pc = "taken" /\ lWorker' = [lWorker EXCEPT !.pc = "sending"]
         \/ lWorker' = [lWorker EXCEPT !.pc = "stopped"]
  PROVE  LimiterInv'
<1>0. LTypeOK
  BY DEF LimiterInv
<1>1. /\ lWorker' \in [pc: {"idle", "taken", "sending", "stopped"}, key: Keys \cup {0}, task: LTask]
      /\ lWorker'.key = lWorker.key /\ lWorker'.task = lWorker.task
      /\ lWorker'.pc \in {"sending", "taken"} => lWorker.pc \in {"sending", "taken"}
      /\ lWorker.pc \in {"taken", "sending", "stopped"} => lWorker'.pc \in {"taken", "sending", "stopped"}
  BY <1>0 DEF LTypeOK
<1>2. LTypeOK'
  BY <1>0, <1>1 DEF LTypeOK
<1>3. /\ SubmittedInOrder' /\ QueueHoldsTasks' /\ QueuedIsNewest'
      /\ \A d \in Callers : OlderRetried(d) => OlderRetried(d)'
  BY <1>2, AnswersKeep
<1>4. WorkerHoldsTask'
  BY <1>1 DEF LimiterInv, WorkerHoldsTask, AtSend
<1>5. SendingIsNewest'
  BY <1>1, <1>3 DEF LimiterInv, SendingIsNewest, AtSend
<1>6. NoFutureLost'
  BY <1>1 DEF LimiterInv, NoFutureLost
<1>7. SentMeansShown'
  BY DEF LimiterInv, SentMeansShown
<1> QED BY <1>2, <1>3, <1>4, <1>5, <1>6, <1>7 DEF LimiterInv

\* Every step of the limiter keeps the invariant.
LEMMA LimiterStep == LimiterInv /\ [LNext]_lVars => LimiterInv'
<1> SUFFICES ASSUME LimiterInv, [LNext]_lVars PROVE LimiterInv'
  OBVIOUS
<1>0. lPaused \in BOOLEAN
  BY DEF LimiterInv, LTypeOK
<1>1. CASE UNCHANGED lVars
  BY <1>0, <1>1, WorkerMovesKeep DEF lVars
<1>2. ASSUME NEW c \in Callers, Submit(c) \/ Retry(c) PROVE LimiterInv'
  BY <1>2, EnqueueKeeps DEF Submit, Retry
<1>3. ASSUME NEW c \in Callers, CallerLeaves(c) PROVE LimiterInv'
  BY <1>3, LeavesKeeps
<1>4. CASE WorkerTakes
  BY <1>4, TakesKeeps
<1>5. CASE WorkerSends
  BY <1>0, <1>5, WorkerMovesKeep DEF WorkerSends
<1>6. CASE PauseEnds
  BY <1>6, WorkerMovesKeep DEF PauseEnds
<1>7. CASE SendSucceeds
  BY <1>7, SucceedsKeeps
<1>8. CASE Shutdown
  BY <1>0, <1>8, WorkerMovesKeep DEF Shutdown
<1>9. ASSUME NEW error, SendFails(error) PROVE LimiterInv'
  BY <1>9, FailsKeeps
<1> QED BY <1>1, <1>2, <1>3, <1>4, <1>5, <1>6, <1>7, <1>8, <1>9 DEF LNext

\* Nobody is queued at the start.
LEMMA LimiterStart == LInit => LimiterInv
<1> SUFFICES ASSUME LInit PROVE LimiterInv
  OBVIOUS
<1>1. /\ lQueue = <<>> /\ lTasks = [k \in Keys |-> NoTask]
      /\ lWorker = [pc |-> "idle", key |-> 0, task |-> NoTask] /\ lPaused = FALSE
      /\ lCaller = [c \in Callers |-> [pc |-> "new", tries |-> 0]] /\ lShown = [k \in Keys |-> 0]
  BY DEF LInit
<1>2. NoTask \in LTask /\ NoTask.futures = {}
  BY DEF NoTask, LTask
<1>3. LTypeOK
  <2>1. lQueue \in Seq(Keys) /\ lTasks \in [Keys -> LTask]
    BY <1>1, <1>2
  <2>2. lWorker \in [pc: {"idle", "taken", "sending", "stopped"}, key: Keys \cup {0}, task: LTask]
    BY <1>1, <1>2
  <2> QED BY <1>1, <2>1, <2>2 DEF LTypeOK
<1>4. \A c \in Callers : lCaller[c].pc = "new"
  BY <1>1
<1>5. lWorker.task.futures = {} /\ ~AtSend /\ \A k \in Keys : lTasks[k].futures = {}
  BY <1>1, <1>2 DEF AtSend
<1>6. SubmittedInOrder /\ NoFutureLost /\ SentMeansShown /\ WorkerHoldsTask /\ SendingIsNewest /\ QueuedIsNewest
  BY <1>4, <1>5 DEF SubmittedInOrder, NoFutureLost, SentMeansShown, WorkerHoldsTask, SendingIsNewest, QueuedIsNewest
<1>7. QueueHoldsTasks
  BY <1>1, <1>5 DEF QueueHoldsTasks
<1> QED BY <1>3, <1>6, <1>7 DEF LimiterInv

\* However often a message is compacted, retried, answered or abandoned: until shutdown a
\* waiting caller is in the queued task of its key, and that key is in the queue, or it is
\* in the hands of the worker (limiter.py, _enqueue_internal_multi and _worker).
THEOREM FuturesAreNeverLost == LSpec => []NoFutureLost
<1>1. LimiterInv => NoFutureLost
  BY DEF LimiterInv
<1> QED BY <1>1, LimiterStart, LimiterStep, PTL DEF LSpec

\* A caller that was told its text was sent has it, or a newer one of the same message, on
\* the screen, for any number of callers and keys; except where an older edit of that
\* message was queued again after a failure, over the newer one (fire_and_forget).
THEOREM SentIsShown == LSpec => []SentMeansShown
<1>1. LimiterInv => SentMeansShown
  BY DEF LimiterInv
<1> QED BY <1>1, LimiterStart, LimiterStep, PTL DEF LSpec

-----------------------------------------------------------------------------
(***************************************************************************)
(* The CLI session manager releases every session and loses sight of no    *)
(* process, for any number of tasks, replies and stop_alls.  The argument: *)
(* every entry of the manager has a task that will remove it under the     *)
(* last id it knows, because a real id never collides with a temporary one *)
(* (IdsApart) and an entry changes its key in the step in which its task   *)
(* learns the id; and what runs in a session was opened by the task that   *)
(* holds the session's lock (ProcessesHeld).                               *)
(***************************************************************************)
TaskFields == {"pc", "sess", "temp", "captured", "gen"}

\* A step of one task: its place, and what becomes of its generator.
LEMMA TaskGoes ==
  ASSUME CShape, NEW t \in CliTasks, NEW pc, Goes(t, pc)
  PROVE  /\ DOMAIN cTask' = CliTasks
         /\ \A u \in CliTasks : DOMAIN cTask'[u] = TaskFields /\ cTask'[u].captured = cTask[u].captured
         /\ \A u \in CliTasks : cTask'[u].temp = cTask[u].temp /\ cTask'[u].sess = cTask[u].sess
         /\ \A u \in CliTasks : cTask'[u].gen = cTask[u].gen /\ cTask'[u].pc = IF u = t THEN pc ELSE cTask[u].pc
BY DEF CShape, Goes, TaskFields

\* A task's position and its generator change, and nothing else of the tasks.
TaskTurned(t, pc, gen) ==
    /\ DOMAIN cTask' = CliTasks
    /\ \A u \in CliTasks : DOMAIN cTask'[u] = TaskFields /\ cTask'[u].captured = cTask[u].captured
    /\ \A u \in CliTasks : cTask'[u].temp = cTask[u].temp /\ cTask'[u].sess = cTask[u].sess
    /\ \A u \in CliTasks : /\ cTask'[u].gen = IF u = t THEN gen ELSE cTask[u].gen
                           /\ cTask'[u].pc = IF u = t THEN pc ELSE cTask[u].pc

LEMMA TaskTurns ==
  ASSUME CShape, NEW t \in CliTasks, NEW pc, NEW gen, cTask' = [cTask EXCEPT ![t].pc = pc, ![t].gen = gen]
  PROVE  TaskTurned(t, pc, gen)
<1>1. DOMAIN cTask' = CliTasks /\ \A u \in CliTasks : u # t => cTask'[u] = cTask[u]
  BY DEF CShape
<1>2. DOMAIN cTask[t] = TaskFields /\ \A u \in CliTasks : DOMAIN cTask[u] = TaskFields
  BY DEF CShape, TaskFields
<1>3. cTask'[t] = [cTask[t] EXCEPT !.pc = pc, !.gen = gen]
  BY DEF CShape
<1>4. /\ DOMAIN cTask'[t] = TaskFields /\ cTask'[t].captured = cTask[t].captured
      /\ cTask'[t].temp = cTask[t].temp /\ cTask'[t].sess = cTask[t].sess
      /\ cTask'[t].gen = gen /\ cTask'[t].pc = pc
  <2>1. PICK row : row = cTask[t] /\ DOMAIN row = {"pc", "sess", "temp", "captured", "gen"}
    BY <1>2 DEF TaskFields
  <2>2. PICK mid : mid = [row EXCEPT !.pc = pc]
    OBVIOUS
  <2>3. /\ DOMAIN mid = {"pc", "sess", "temp", "captured", "gen"} /\ mid.pc = pc
        /\ mid.captured = row.captured /\ mid.temp = row.temp /\ mid.sess = row.sess
    BY <2>1, <2>2
  <2>4. cTask'[t] = [mid EXCEPT !.gen = gen]
    BY <1>3, <2>1, <2>2
  <2>5. PICK new : new = cTask'[t] /\ new = [mid EXCEPT !.gen = gen]
    BY <2>4
  <2>6. /\ DOMAIN new = {"pc", "sess", "temp", "captured", "gen"} /\ new.gen = gen /\ new.pc = mid.pc
        /\ new.captured = mid.captured /\ new.temp = mid.temp /\ new.sess = mid.sess
    BY <2>3, <2>5
  <2> QED BY <2>1, <2>3, <2>5, <2>6 DEF TaskFields
<1> QED BY <1>1, <1>2, <1>4 DEF TaskTurned

\* Stopping a session signals its process and leaves the rest.
LEMMA StoppedRow ==
  ASSUME CShape, NEW s, cSess' = Stopped(s)
  PROVE  /\ DOMAIN cSess' = CliTasks
         /\ \A r \in CliTasks : DOMAIN cSess'[r] = {"proc", "lock"} /\ cSess'[r].lock = cSess[r].lock
         /\ \A r \in CliTasks : cSess'[r].proc = IF r = s /\ cSess[r].proc = "running" THEN "signalled" ELSE cSess[r].proc
<1>1. CASE s \in CliTasks
  BY <1>1 DEF CShape, Stopped
<1>2. CASE s \notin CliTasks
  BY <1>2 DEF CShape, Stopped
<1> QED BY <1>1, <1>2

\* The steps that leave the manager's dictionaries and every task's ids.
LEMMA EntriesKeep ==
  ASSUME CliInv, cMgr'.pending = cMgr.pending, cMgr'.sessions = cMgr.sessions, cMgr'.tempToReal = cMgr.tempToReal,
         cGhost.unmanaged \subseteq cGhost'.unmanaged,
         \A u \in CliTasks : cTask'[u].captured = cTask[u].captured /\ cTask'[u].temp = cTask[u].temp,
         \A u \in CliTasks : cTask'[u].sess = cTask[u].sess,
         \A u \in CliTasks : cTask'[u].pc = "new" => cTask[u].pc = "new",
         \A u \in CliTasks : cTask[u].pc \notin {"new", "done", "removing"}
                               => cTask'[u].pc \notin {"new", "done", "removing"}
  PROVE  IdsApart' /\ EntriesAnswered' /\ (\A s : Managed(s)' <=> Managed(s))
<1>1. IdsApart'
  <2>1. Aliases' = Aliases
    BY DEF Aliases, KeysOf
  <2> QED BY <2>1 DEF CliInv, IdsApart, KeysOf, Functional
<1>2. EntriesAnswered'
  <2> SUFFICES ASSUME NEW p \in Entries'
               PROVE  /\ p[2] \in CliTasks
                      /\ \E t \in CliTasks : Answers(t, p[1])' /\ (cTask'[t].sess = p[2] \/ p[2] \in cGhost'.unmanaged)
    BY DEF EntriesAnswered
  <2>1. p \in Entries
    BY DEF Entries
  <2>2. PICK t \in CliTasks : Answers(t, p[1]) /\ (cTask[t].sess = p[2] \/ p[2] \in cGhost.unmanaged)
    BY <2>1 DEF CliInv, EntriesAnswered
  <2>3. Answers(t, p[1])'
    BY <2>2 DEF Answers, Over, LastId
  <2> QED BY <2>1, <2>2, <2>3 DEF CliInv, EntriesAnswered
<1>3. \A s : Managed(s)' <=> Managed(s)
  BY DEF Managed
<1> QED BY <1>1, <1>2, <1>3

LEMMA CliInit == CInit => CliInv
<1> SUFFICES ASSUME CInit PROVE CliInv
  OBVIOUS
<1>1. /\ cMgr.sessions = {} /\ cMgr.pending = {} /\ cMgr.tempToReal = {} /\ cMgr.todo = {}
      /\ DOMAIN cMgr = {"sessions", "pending", "tempToReal", "lock", "todo", "stopping"}
      /\ DOMAIN cGhost = {"stopAlls", "unmanaged"} /\ DOMAIN cTask = CliTasks /\ DOMAIN cSess = CliTasks
  BY DEF CInit
<1>2. \A t \in CliTasks : /\ DOMAIN cTask[t] = {"pc", "sess", "temp", "captured", "gen"} /\ cTask[t].pc = "new"
                          /\ cTask[t].temp = NoId /\ cTask[t].captured = NoId /\ cTask[t].gen = "none"
  BY DEF CInit
<1>3. \A s \in CliTasks : DOMAIN cSess[s] = {"proc", "lock"} /\ cSess[s].lock = 0 /\ cSess[s].proc = "none"
  BY DEF CInit
<1>4. CShape
  BY <1>1, <1>2, <1>3 DEF CShape
<1>5. IdsApart
  <2>1. Aliases \subseteq {NoId} /\ \A p \in CliTasks : RealId(p) # NoId
    BY <1>1, <1>2 DEF Aliases, KeysOf, NoId, RealId
  <2> QED BY <1>1, <1>2, <2>1 DEF IdsApart, KeysOf, Functional
<1>6. EntriesAnswered
  BY <1>1 DEF EntriesAnswered, Entries
<1>7. ProcessesHeld
  BY <1>2, <1>3 DEF ProcessesHeld
<1> QED BY <1>4, <1>5, <1>6, <1>7 DEF CliInv

\* The lock is released by the generator that took it, when nothing runs in
\* the session any more.
LEMMA ClosedKeeps ==
  ASSUME CliInv, NEW t \in CliTasks, NEW pc, Closed(t, pc), cTask[t].gen = "open",
         cSess[cTask[t].sess].proc \notin {"running", "signalled"},
         pc = cTask[t].pc \/ pc = "cleanup", pc \notin {"spawning", "reading", "stopping", "closing", "new"}
  PROVE  CliInv'
<1>s. PICK s \in CliTasks : s = cTask[t].sess
  BY DEF CliInv, CShape, ProcessesHeld
<1>1. /\ cTask' = [cTask EXCEPT ![t].pc = pc, ![t].gen = "closed"] /\ cSess' = [cSess EXCEPT ![s].lock = 0]
      /\ cPids' = cPids \ {s} /\ cMgr' = cMgr /\ cGhost' = cGhost
  BY <1>s DEF Closed
<1>2. /\ DOMAIN cTask' = CliTasks
      /\ \A u \in CliTasks : DOMAIN cTask'[u] = TaskFields /\ cTask'[u].captured = cTask[u].captured
      /\ \A u \in CliTasks : cTask'[u].temp = cTask[u].temp /\ cTask'[u].sess = cTask[u].sess
      /\ \A u \in CliTasks : /\ cTask'[u].gen = IF u = t THEN "closed" ELSE cTask[u].gen
                             /\ cTask'[u].pc = IF u = t THEN pc ELSE cTask[u].pc
  <2>1. CShape /\ cTask' = [cTask EXCEPT ![t].pc = pc, ![t].gen = "closed"]
    BY <1>1 DEF CliInv
  <2>2. TaskTurned(t, pc, "closed")
    BY <2>1, TaskTurns
  <2> QED BY <2>2 DEF TaskTurned
<1>3. /\ DOMAIN cSess' = CliTasks
      /\ \A r \in CliTasks : /\ DOMAIN cSess'[r] = {"proc", "lock"} /\ cSess'[r].proc = cSess[r].proc
                             /\ cSess'[r].lock = IF r = s THEN 0 ELSE cSess[r].lock
  BY <1>1 DEF CliInv, CShape
<1>n. cTask[t].pc # "new"
  BY DEF CliInv, ProcessesHeld
<1>4. CShape'
  BY <1>1, <1>2, <1>3, <1>n DEF CliInv, CShape, TaskFields
<1>5. IdsApart' /\ EntriesAnswered' /\ (\A r : Managed(r)' <=> Managed(r))
  BY <1>1, <1>2, <1>n, EntriesKeep
<1>6. ASSUME NEW u \in CliTasks, cTask'[u].gen = "open"
      PROVE  /\ cTask'[u].pc # "new" /\ cSess'[cTask'[u].sess].lock = u
             /\ cTask'[u].pc \in {"spawning", "closing"} => cSess'[cTask'[u].sess].proc \notin {"running", "signalled"}
  <2>1. u # t /\ cTask[u].gen = "open" /\ cTask[u].sess \in CliTasks
    BY <1>2, <1>6 DEF CliInv, ProcessesHeld, CShape
  <2>2. cSess[cTask[u].sess].lock = u /\ cSess[s].lock = t
    BY <1>s, <2>1 DEF CliInv, ProcessesHeld
  <2>3. cTask[u].sess # s
    BY <2>1, <2>2
  <2> QED BY <1>2, <1>3, <2>1, <2>2, <2>3 DEF CliInv, ProcessesHeld
<1>7. ASSUME NEW r \in CliTasks, cSess'[r].proc \in {"running", "signalled"}
      PROVE  r # s /\ \E u \in CliTasks : cTask'[u].gen = "open" /\ cTask'[u].sess = r
  <2>1. r # s /\ cSess[r].proc \in {"running", "signalled"}
    BY <1>s, <1>3, <1>7
  <2>2. PICK u \in CliTasks : cTask[u].gen = "open" /\ cTask[u].sess = r
    BY <2>1 DEF CliInv, ProcessesHeld
  <2> QED BY <1>s, <1>2, <2>1, <2>2
<1>8. \A u \in CliTasks : cTask'[u].pc \in {"spawning", "reading", "stopping", "closing"} => cTask'[u].gen = "open"
  BY <1>2 DEF CliInv, ProcessesHeld
<1>9. \A r \in CliTasks : cSess'[r].proc = "running" => r \in cPids' /\ (r \in cGhost'.unmanaged \/ Managed(r)')
  BY <1>1, <1>3, <1>5, <1>7 DEF CliInv, ProcessesHeld
<1>10. ProcessesHeld'
  BY <1>6, <1>7, <1>8, <1>9 DEF ProcessesHeld
<1> QED BY <1>4, <1>5, <1>10 DEF CliInv

\* A task goes on: who holds a session and what runs in it stay.
LEMMA HeldKeeps ==
  ASSUME CliInv, NEW t \in CliTasks, NEW pc, Goes(t, pc), cTask[t].pc # "new",
         cGhost.unmanaged \subseteq cGhost'.unmanaged, DOMAIN cSess' = CliTasks,
         \A r \in CliTasks : cSess'[r].lock = cSess[r].lock,
         \A r \in CliTasks : cSess'[r].proc = "running" => cSess[r].proc = "running" /\ (r \in cPids => r \in cPids'),
         \A r \in CliTasks : cSess'[r].proc = "signalled" => cSess[r].proc \in {"running", "signalled"},
         \A r \in CliTasks : cSess'[r].proc = "running" => (Managed(r) => Managed(r)'),
         pc # "new", pc # "spawning",
         pc \in {"reading", "stopping", "closing"} => cTask[t].gen = "open",
         pc = "closing" => cSess[cTask[t].sess].proc \notin {"running", "signalled"}
  PROVE  ProcessesHeld'
<1>2. /\ DOMAIN cTask' = CliTasks
      /\ \A u \in CliTasks : DOMAIN cTask'[u] = TaskFields /\ cTask'[u].captured = cTask[u].captured
      /\ \A u \in CliTasks : cTask'[u].temp = cTask[u].temp /\ cTask'[u].sess = cTask[u].sess
      /\ \A u \in CliTasks : cTask'[u].gen = cTask[u].gen /\ cTask'[u].pc = IF u = t THEN pc ELSE cTask[u].pc
  BY TaskGoes DEF CliInv
<1>6. ASSUME NEW u \in CliTasks, cTask'[u].gen = "open"
      PROVE  /\ cTask'[u].pc # "new" /\ cSess'[cTask'[u].sess].lock = u
             /\ cTask'[u].pc \in {"spawning", "closing"} => cSess'[cTask'[u].sess].proc \notin {"running", "signalled"}
  <2>1. cTask[u].gen = "open" /\ cTask[u].sess \in CliTasks
    BY <1>2, <1>6 DEF CliInv, ProcessesHeld, CShape
  <2>2. cTask[u].pc \in {"spawning", "closing"} => cSess[cTask[u].sess].proc \notin {"running", "signalled"}
    BY <2>1 DEF CliInv, ProcessesHeld
  <2>3. cTask[u].pc # "new" /\ cSess[cTask[u].sess].lock = u
    BY <2>1 DEF CliInv, ProcessesHeld
  <2> QED BY <1>2, <2>1, <2>2, <2>3
<1>7. \A r \in CliTasks : cSess'[r].proc \in {"running", "signalled"} =>
        \E u \in CliTasks : cTask'[u].gen = "open" /\ cTask'[u].sess = r
  BY <1>2 DEF CliInv, ProcessesHeld
<1>8. \A u \in CliTasks : cTask'[u].pc \in {"spawning", "reading", "stopping", "closing"} => cTask'[u].gen = "open"
  BY <1>2 DEF CliInv, ProcessesHeld
<1>9. \A r \in CliTasks : cSess'[r].proc = "running" => r \in cPids' /\ (r \in cGhost'.unmanaged \/ Managed(r)')
  BY DEF CliInv, ProcessesHeld
<1> QED
  BY <1>6, <1>7, <1>8, <1>9 DEF ProcessesHeld

\* A task goes on, or is cancelled; nothing but its place changes.
LEMMA PlaceKeeps ==
  ASSUME CliInv, NEW t \in CliTasks, NEW pc, Goes(t, pc), cTask[t].pc # "new",
         cMgr'.pending = cMgr.pending, cMgr'.sessions = cMgr.sessions, cMgr'.tempToReal = cMgr.tempToReal,
         DOMAIN cMgr' = DOMAIN cMgr, cMgr'.todo = cMgr.todo, cGhost' = cGhost, DOMAIN cSess' = CliTasks,
         \A r \in CliTasks : DOMAIN cSess'[r] = {"proc", "lock"} /\ cSess'[r].lock = cSess[r].lock,
         \A r \in CliTasks : cSess'[r].proc = "running" => cSess[r].proc = "running" /\ (r \in cPids => r \in cPids'),
         \A r \in CliTasks : cSess'[r].proc = "signalled" => cSess[r].proc \in {"running", "signalled"},
         cTask[t].pc \notin {"new", "done", "removing"} => pc \notin {"new", "done", "removing"},
         pc # "new", pc # "spawning",
         pc \in {"reading", "stopping", "closing"} => cTask[t].gen = "open",
         pc = "closing" => cSess[cTask[t].sess].proc \notin {"running", "signalled"}
  PROVE  CliInv'
<1>2. /\ DOMAIN cTask' = CliTasks
      /\ \A u \in CliTasks : DOMAIN cTask'[u] = TaskFields /\ cTask'[u].captured = cTask[u].captured
      /\ \A u \in CliTasks : cTask'[u].temp = cTask[u].temp /\ cTask'[u].sess = cTask[u].sess
      /\ \A u \in CliTasks : cTask'[u].gen = cTask[u].gen /\ cTask'[u].pc = IF u = t THEN pc ELSE cTask[u].pc
  BY TaskGoes DEF CliInv
<1>4. CShape'
  BY <1>2 DEF CliInv, CShape, TaskFields
<1>5. IdsApart' /\ EntriesAnswered' /\ (\A r : Managed(r)' <=> Managed(r))
  BY <1>2, EntriesKeep
<1>10. ProcessesHeld'
  BY <1>5, HeldKeeps
<1> QED BY <1>4, <1>5, <1>10 DEF CliInv

\* The steps of stop_all and the end of a process move no task.
LEMMA CalmKeeps ==
  ASSUME CliInv, cTask' = cTask, cMgr'.pending = cMgr.pending, cMgr'.sessions = cMgr.sessions,
         cMgr'.tempToReal = cMgr.tempToReal, DOMAIN cMgr' = DOMAIN cMgr, cMgr'.todo \subseteq CliTasks,
         DOMAIN cGhost' = DOMAIN cGhost, cGhost'.unmanaged = cGhost.unmanaged, DOMAIN cSess' = CliTasks,
         \A r \in CliTasks : DOMAIN cSess'[r] = {"proc", "lock"} /\ cSess'[r].lock = cSess[r].lock,
         \A r \in CliTasks : cSess'[r].proc = "running" => cSess[r].proc = "running" /\ (r \in cPids => r \in cPids'),
         \A r \in CliTasks : cSess'[r].proc = "signalled" => cSess[r].proc \in {"running", "signalled"}
  PROVE  CliInv'
<1>4. CShape'
  BY DEF CliInv, CShape
<1>5. IdsApart' /\ EntriesAnswered' /\ (\A r : Managed(r)' <=> Managed(r))
  BY EntriesKeep
<1>6. ASSUME NEW u \in CliTasks, cTask[u].gen = "open"
      PROVE  /\ cTask[u].pc # "new" /\ cSess'[cTask[u].sess].lock = u
             /\ cTask[u].pc \in {"spawning", "closing"} => cSess'[cTask[u].sess].proc \notin {"running", "signalled"}
  <2>1. cTask[u].sess \in CliTasks
    BY <1>6 DEF CliInv, ProcessesHeld, CShape
  <2> QED BY <1>6, <2>1 DEF CliInv, ProcessesHeld
<1>7. \A r \in CliTasks : cSess'[r].proc \in {"running", "signalled"} =>
        \E u \in CliTasks : cTask[u].gen = "open" /\ cTask[u].sess = r
  BY DEF CliInv, ProcessesHeld
<1>9. \A r \in CliTasks : cSess'[r].proc = "running" => r \in cPids' /\ (r \in cGhost'.unmanaged \/ Managed(r)')
  BY <1>5 DEF CliInv, ProcessesHeld
<1>10. ProcessesHeld'
  BY <1>6, <1>7, <1>9 DEF CliInv, ProcessesHeld
<1> QED BY <1>4, <1>5, <1>10 DEF CliInv

\* What the holder of the manager's lock waited for is gone.
LEMMA ReturnedIsGone ==
  ASSUME StopReturns, CliInv
  PROVE  \A r \in CliTasks : cSess[r].proc = "running" => r # cMgr.stopping
BY CliAssumption DEF StopReturns

LEMMA StopAllKeeps == ASSUME CliInv, StopAll PROVE CliInv'
<1>1. /\ cTask' = cTask /\ cSess' = cSess /\ cPids' = cPids
      /\ cGhost' = [cGhost EXCEPT !.stopAlls = @ + 1]
      /\ cMgr' = [cMgr EXCEPT !.lock = StopAllHolds, !.todo = {s \in CliTasks : Managed(s)}]
  BY DEF StopAll
<1>2. /\ DOMAIN cMgr' = DOMAIN cMgr /\ cMgr'.pending = cMgr.pending /\ cMgr'.sessions = cMgr.sessions
      /\ cMgr'.tempToReal = cMgr.tempToReal /\ cMgr'.todo \subseteq CliTasks
      /\ DOMAIN cGhost' = DOMAIN cGhost /\ cGhost'.unmanaged = cGhost.unmanaged
  BY <1>1 DEF CliInv, CShape
<1>3. /\ DOMAIN cSess' = CliTasks
      /\ \A r \in CliTasks : DOMAIN cSess'[r] = {"proc", "lock"} /\ cSess'[r].lock = cSess[r].lock
  BY <1>1 DEF CliInv, CShape
<1> QED BY <1>1, <1>2, <1>3, CalmKeeps

LEMMA StopNextKeeps == ASSUME CliInv, NEW s \in CliTasks, StopNext(s) PROVE CliInv'
<1>1. /\ cTask' = cTask /\ cSess' = Stopped(s) /\ cPids' = cPids \ {cMgr.stopping} /\ cGhost' = cGhost /\ StopReturns
      /\ cMgr' = [cMgr EXCEPT !.todo = @ \ {s}, !.stopping = Awaits(s)]
  BY DEF StopNext
<1>2. /\ DOMAIN cMgr' = DOMAIN cMgr /\ cMgr'.pending = cMgr.pending /\ cMgr'.sessions = cMgr.sessions
      /\ cMgr'.tempToReal = cMgr.tempToReal /\ cMgr'.todo \subseteq CliTasks
  BY <1>1 DEF CliInv, CShape
<1>3. /\ DOMAIN cSess' = CliTasks
      /\ \A r \in CliTasks : DOMAIN cSess'[r] = {"proc", "lock"} /\ cSess'[r].lock = cSess[r].lock
      /\ \A r \in CliTasks : cSess'[r].proc = IF r = s /\ cSess[r].proc = "running" THEN "signalled" ELSE cSess[r].proc
  BY <1>1, StoppedRow DEF CliInv
<1>4. /\ \A r \in CliTasks : cSess'[r].proc = "running" => cSess[r].proc = "running" /\ (r \in cPids => r \in cPids')
      /\ \A r \in CliTasks : cSess'[r].proc = "signalled" => cSess[r].proc \in {"running", "signalled"}
  BY <1>1, <1>3, ReturnedIsGone
<1> QED BY <1>1, <1>2, <1>3, <1>4, CalmKeeps

LEMMA ProcessExitsKeeps == ASSUME CliInv, NEW s \in CliTasks, ProcessExits(s) PROVE CliInv'
<1>1. /\ cTask' = cTask /\ cSess' = [cSess EXCEPT ![s].proc = "exited"] /\ cPids' = cPids /\ cGhost' = cGhost
      /\ cMgr' = cMgr
  BY DEF ProcessExits
<1>2. /\ DOMAIN cSess' = CliTasks
      /\ \A r \in CliTasks : DOMAIN cSess'[r] = {"proc", "lock"} /\ cSess'[r].lock = cSess[r].lock
      /\ \A r \in CliTasks : cSess'[r].proc = IF r = s THEN "exited" ELSE cSess[r].proc
  BY <1>1 DEF CliInv, CShape
<1>3. /\ \A r \in CliTasks : cSess'[r].proc = "running" => cSess[r].proc = "running" /\ (r \in cPids => r \in cPids')
      /\ \A r \in CliTasks : cSess'[r].proc = "signalled" => cSess[r].proc \in {"running", "signalled"}
  BY <1>1, <1>2
<1>4. cMgr'.todo \subseteq CliTasks
  BY <1>1 DEF CliInv, CShape
<1> QED BY <1>1, <1>2, <1>3, <1>4, CalmKeeps

LEMMA AllStoppedKeeps == ASSUME CliInv, AllStopped PROVE CliInv'
<1>1. /\ cTask' = cTask /\ cSess' = cSess /\ cPids' = cPids \ {cMgr.stopping} /\ StopReturns
      /\ cMgr' = [sessions |-> {}, pending |-> {}, tempToReal |-> {}, lock |-> 0, todo |-> {}, stopping |-> 0]
      /\ cGhost' = [cGhost EXCEPT !.unmanaged = @ \cup {s \in CliTasks : cSess[s].proc = "running"}]
  BY DEF AllStopped
<1>2. /\ DOMAIN cMgr' = {"sessions", "pending", "tempToReal", "lock", "todo", "stopping"}
      /\ cMgr'.pending = {} /\ cMgr'.sessions = {} /\ cMgr'.tempToReal = {} /\ cMgr'.todo = {}
      /\ DOMAIN cGhost' = {"stopAlls", "unmanaged"}
      /\ cGhost'.unmanaged = cGhost.unmanaged \cup {s \in CliTasks : cSess[s].proc = "running"}
  BY <1>1 DEF CliInv, CShape
<1>3. CShape'
  BY <1>1, <1>2 DEF CliInv, CShape
<1>4. IdsApart'
  <2>1. Aliases' \subseteq Aliases
    BY <1>1, <1>2 DEF Aliases, KeysOf
  <2> QED BY <1>1, <1>2, <2>1 DEF CliInv, IdsApart, KeysOf, Functional
<1>5. EntriesAnswered'
  BY <1>2 DEF EntriesAnswered, Entries
<1>6. ProcessesHeld'
  <2>1. \A r \in CliTasks : cSess'[r].proc = "running" => r \in cPids' /\ r \in cGhost'.unmanaged
    BY <1>1, <1>2, ReturnedIsGone DEF CliInv, ProcessesHeld
  <2> QED BY <1>1, <2>1 DEF CliInv, ProcessesHeld
<1> QED BY <1>3, <1>4, <1>5, <1>6 DEF CliInv

LEMMA StartTaskKeeps == ASSUME CliInv, NEW t \in CliTasks, StartTask(t) PROVE CliInv'
<1>s. PICK s \in CliTasks : s = cTask[t].sess
  BY DEF StartTask, CliInv, CShape
<1>1. /\ cTask[t].pc = "session" /\ cSess[s].lock = 0 /\ cSess' = [cSess EXCEPT ![s].lock = t]
      /\ cTask' = [cTask EXCEPT ![t].pc = "spawning", ![t].gen = "open"]
      /\ cMgr' = cMgr /\ cPids' = cPids /\ cGhost' = cGhost
  BY <1>s DEF StartTask
<1>2. /\ DOMAIN cTask' = CliTasks
      /\ \A u \in CliTasks : DOMAIN cTask'[u] = TaskFields /\ cTask'[u].captured = cTask[u].captured
      /\ \A u \in CliTasks : cTask'[u].temp = cTask[u].temp /\ cTask'[u].sess = cTask[u].sess
      /\ \A u \in CliTasks : /\ cTask'[u].gen = IF u = t THEN "open" ELSE cTask[u].gen
                             /\ cTask'[u].pc = IF u = t THEN "spawning" ELSE cTask[u].pc
  <2>1. CShape /\ cTask' = [cTask EXCEPT ![t].pc = "spawning", ![t].gen = "open"]
    BY <1>1 DEF CliInv
  <2>2. TaskTurned(t, "spawning", "open")
    BY <2>1, TaskTurns
  <2> QED BY <2>2 DEF TaskTurned
<1>3. /\ DOMAIN cSess' = CliTasks
      /\ \A r \in CliTasks : /\ DOMAIN cSess'[r] = {"proc", "lock"} /\ cSess'[r].proc = cSess[r].proc
                             /\ cSess'[r].lock = IF r = s THEN t ELSE cSess[r].lock
  BY <1>1 DEF CliInv, CShape
<1>4. CShape'
  BY <1>1, <1>2, <1>3 DEF CliInv, CShape, TaskFields
<1>5. IdsApart' /\ EntriesAnswered' /\ (\A r : Managed(r)' <=> Managed(r))
  BY <1>1, <1>2, EntriesKeep
<1>6. \A u \in CliTasks : cTask[u].gen = "open" => cTask[u].sess # s
  <2>1. 0 \notin CliTasks
    BY CliAssumption
  <2> QED BY <1>1, <2>1 DEF CliInv, ProcessesHeld
<1>7. cSess[s].proc \notin {"running", "signalled"}
  BY <1>6 DEF CliInv, ProcessesHeld
<1>8. ASSUME NEW u \in CliTasks, cTask'[u].gen = "open"
      PROVE  /\ cTask'[u].pc # "new" /\ cSess'[cTask'[u].sess].lock = u
             /\ cTask'[u].pc \in {"spawning", "closing"} => cSess'[cTask'[u].sess].proc \notin {"running", "signalled"}
  <2>1. CASE u = t
    BY <1>s, <1>2, <1>3, <1>7, <2>1
  <2>2. CASE u # t
    <3>1. cTask[u].gen = "open" /\ cTask[u].sess \in CliTasks /\ cTask[u].sess # s
      BY <1>2, <1>6, <1>8, <2>2 DEF CliInv, ProcessesHeld, CShape
    <3> QED BY <1>2, <1>3, <2>2, <3>1 DEF CliInv, ProcessesHeld
  <2> QED BY <2>1, <2>2
<1>9. \A r \in CliTasks : cSess'[r].proc \in {"running", "signalled"} =>
        \E u \in CliTasks : cTask'[u].gen = "open" /\ cTask'[u].sess = r
  BY <1>2, <1>3 DEF CliInv, ProcessesHeld
<1>10. \A u \in CliTasks : cTask'[u].pc \in {"spawning", "reading", "stopping", "closing"} => cTask'[u].gen = "open"
  BY <1>2 DEF CliInv, ProcessesHeld
<1>11. \A r \in CliTasks : cSess'[r].proc = "running" => r \in cPids' /\ (r \in cGhost'.unmanaged \/ Managed(r)')
  BY <1>1, <1>3, <1>5 DEF CliInv, ProcessesHeld
<1>12. ProcessesHeld'
  BY <1>8, <1>9, <1>10, <1>11 DEF ProcessesHeld
<1> QED BY <1>4, <1>5, <1>12 DEF CliInv

LEMMA ProcessStartsKeeps == ASSUME CliInv, NEW t \in CliTasks, ProcessStarts(t) PROVE CliInv'
<1>s. PICK s \in CliTasks : s = cTask[t].sess
  BY DEF ProcessStarts, CliInv, CShape
<1>1. /\ cTask[t].pc = "spawning" /\ Goes(t, "reading") /\ cSess' = [cSess EXCEPT ![s].proc = "running"]
      /\ cPids' = cPids \cup {s} /\ cMgr' = cMgr
      /\ cGhost' = IF Managed(s) THEN cGhost ELSE [cGhost EXCEPT !.unmanaged = @ \cup {s}]
  BY <1>s DEF ProcessStarts
<1>2. /\ DOMAIN cTask' = CliTasks
      /\ \A u \in CliTasks : DOMAIN cTask'[u] = TaskFields /\ cTask'[u].captured = cTask[u].captured
      /\ \A u \in CliTasks : cTask'[u].temp = cTask[u].temp /\ cTask'[u].sess = cTask[u].sess
      /\ \A u \in CliTasks : cTask'[u].gen = cTask[u].gen /\ cTask'[u].pc = IF u = t THEN "reading" ELSE cTask[u].pc
  BY <1>1, TaskGoes DEF CliInv
<1>3. /\ DOMAIN cSess' = CliTasks
      /\ \A r \in CliTasks : /\ DOMAIN cSess'[r] = {"proc", "lock"} /\ cSess'[r].lock = cSess[r].lock
                             /\ cSess'[r].proc = IF r = s THEN "running" ELSE cSess[r].proc
  BY <1>1 DEF CliInv, CShape
<1>4. /\ DOMAIN cGhost' = {"stopAlls", "unmanaged"} /\ cGhost.unmanaged \subseteq cGhost'.unmanaged
      /\ s \in cGhost'.unmanaged \/ Managed(s)
  BY <1>1 DEF CliInv, CShape
<1>5. CShape'
  BY <1>1, <1>2, <1>3, <1>4 DEF CliInv, CShape, TaskFields
<1>6. IdsApart' /\ EntriesAnswered' /\ (\A r : Managed(r)' <=> Managed(r))
  BY <1>1, <1>2, <1>4, EntriesKeep
<1>7. cTask[t].gen = "open" /\ cSess[s].lock = t
  BY <1>s, <1>1 DEF CliInv, ProcessesHeld
<1>8. ASSUME NEW u \in CliTasks, cTask'[u].gen = "open"
      PROVE  /\ cTask'[u].pc # "new" /\ cSess'[cTask'[u].sess].lock = u
             /\ cTask'[u].pc \in {"spawning", "closing"} => cSess'[cTask'[u].sess].proc \notin {"running", "signalled"}
  <2>1. cTask[u].gen = "open" /\ cTask[u].sess \in CliTasks /\ cSess[cTask[u].sess].lock = u /\ cTask[u].pc # "new"
    BY <1>2, <1>8 DEF CliInv, ProcessesHeld, CShape
  <2>2. u # t => cTask[u].sess # s
    BY <1>7, <2>1
  <2>3. cTask[u].pc \in {"spawning", "closing"} => cSess[cTask[u].sess].proc \notin {"running", "signalled"}
    BY <2>1 DEF CliInv, ProcessesHeld
  <2> QED BY <1>2, <1>3, <2>1, <2>2, <2>3
<1>9. \A r \in CliTasks : cSess'[r].proc \in {"running", "signalled"} =>
        \E u \in CliTasks : cTask'[u].gen = "open" /\ cTask'[u].sess = r
  BY <1>s, <1>2, <1>3, <1>7 DEF CliInv, ProcessesHeld
<1>10. \A u \in CliTasks : cTask'[u].pc \in {"spawning", "reading", "stopping", "closing"} => cTask'[u].gen = "open"
  BY <1>2, <1>7 DEF CliInv, ProcessesHeld
<1>11. \A r \in CliTasks : cSess'[r].proc = "running" => r \in cPids' /\ (r \in cGhost'.unmanaged \/ Managed(r)')
  BY <1>1, <1>3, <1>4, <1>6 DEF CliInv, ProcessesHeld
<1>12. ProcessesHeld'
  BY <1>8, <1>9, <1>10, <1>11 DEF ProcessesHeld
<1> QED BY <1>5, <1>6, <1>12 DEF CliInv

LEMMA ReadingKeeps ==
  ASSUME CliInv, NEW t \in CliTasks,
         OutputEnds(t) \/ CancelledReading(t) \/ StoppedReading(t) \/ CancelledElsewhere(t)
  PROVE  CliInv'
<1>1. /\ DOMAIN cSess = CliTasks /\ \A r \in CliTasks : DOMAIN cSess[r] = {"proc", "lock"}
  BY DEF CliInv, CShape
<1>2. cTask[t].pc \in {"reading", "stopping"} => cTask[t].gen = "open"
  BY DEF CliInv, ProcessesHeld
<1>3. CASE OutputEnds(t)
  <2>1. /\ cTask[t].pc = "reading" /\ cSess[cTask[t].sess].proc = "exited" /\ Goes(t, "closing")
        /\ cMgr' = cMgr /\ cSess' = cSess /\ cPids' = cPids /\ cGhost' = cGhost
    BY <1>3 DEF OutputEnds
  <2> QED BY <1>1, <1>2, <2>1, PlaceKeeps
<1>4. CASE CancelledReading(t)
  <2>1. /\ cTask[t].pc = "reading" /\ Goes(t, "stopping") /\ cSess' = Stopped(cTask[t].sess)
        /\ cMgr' = cMgr /\ cPids' = cPids /\ cGhost' = cGhost
    BY <1>4 DEF CancelledReading
  <2>2. PICK s : s = cTask[t].sess
    OBVIOUS
  <2>3. /\ DOMAIN cSess' = CliTasks
        /\ \A r \in CliTasks : DOMAIN cSess'[r] = {"proc", "lock"} /\ cSess'[r].lock = cSess[r].lock
        /\ \A r \in CliTasks : cSess'[r].proc = IF r = s /\ cSess[r].proc = "running" THEN "signalled" ELSE cSess[r].proc
    BY <2>1, <2>2, StoppedRow DEF CliInv
  <2>4. /\ \A r \in CliTasks : cSess'[r].proc = "running" => cSess[r].proc = "running" /\ (r \in cPids => r \in cPids')
        /\ \A r \in CliTasks : cSess'[r].proc = "signalled" => cSess[r].proc \in {"running", "signalled"}
    BY <2>1, <2>3
  <2> QED BY <1>2, <2>1, <2>3, <2>4, PlaceKeeps
<1>5. CASE StoppedReading(t)
  <2>1. /\ cTask[t].pc = "stopping" /\ cSess[cTask[t].sess].proc = "exited" /\ Goes(t, "closing")
        /\ cPids' = cPids \ {cTask[t].sess} /\ cMgr' = cMgr /\ cSess' = cSess /\ cGhost' = cGhost
    BY <1>5 DEF StoppedReading
  <2>2. \A r \in CliTasks : cSess'[r].proc = "running" => cSess[r].proc = "running" /\ (r \in cPids => r \in cPids')
    BY <2>1
  <2> QED BY <1>1, <1>2, <2>1, <2>2, PlaceKeeps
<1>6. CASE CancelledElsewhere(t)
  <2>1. /\ cTask[t].pc \in {"session", "reading"} /\ Goes(t, "cleanup")
        /\ cMgr' = cMgr /\ cSess' = cSess /\ cPids' = cPids /\ cGhost' = cGhost
    BY <1>6 DEF CancelledElsewhere
  <2> QED BY <1>1, <2>1, PlaceKeeps
<1> QED BY <1>3, <1>4, <1>5, <1>6

LEMMA ClosingKeeps ==
  ASSUME CliInv, NEW t \in CliTasks, GeneratorEnds(t) \/ SpawnFails(t) \/ GeneratorFinalized(t)
  PROVE  CliInv'
<1>1. CASE GeneratorEnds(t) \/ SpawnFails(t)
  <2>1. cTask[t].pc \in {"spawning", "closing"} /\ Closed(t, "cleanup")
    BY <1>1 DEF GeneratorEnds, SpawnFails
  <2>2. cTask[t].gen = "open" /\ cSess[cTask[t].sess].proc \notin {"running", "signalled"}
    BY <2>1 DEF CliInv, ProcessesHeld
  <2> QED BY <2>1, <2>2, ClosedKeeps
<1>2. CASE GeneratorFinalized(t)
  <2>p. PICK pc : pc = cTask[t].pc
    OBVIOUS
  <2>1. /\ cTask[t].gen = "open" /\ pc \in {"cleanup", "removing", "done"}
        /\ cSess[cTask[t].sess].proc = "exited" /\ Closed(t, pc)
    BY <1>2, <2>p DEF GeneratorFinalized, Closed
  <2> QED BY <2>p, <2>1, ClosedKeeps
<1> QED BY <1>1, <1>2

LEMMA RemovedKeeps == ASSUME CliInv, NEW t \in CliTasks, Removed(t) PROVE CliInv'
<1>1. /\ cTask[t].pc = "removing" /\ StopReturns /\ cMgr' = [cMgr EXCEPT !.lock = 0, !.stopping = 0]
      /\ Goes(t, "done") /\ cPids' = cPids \ {cMgr.stopping} /\ cSess' = cSess /\ cGhost' = cGhost
  BY DEF Removed
<1>2. /\ DOMAIN cMgr' = DOMAIN cMgr /\ cMgr'.pending = cMgr.pending /\ cMgr'.sessions = cMgr.sessions
      /\ cMgr'.tempToReal = cMgr.tempToReal /\ cMgr'.todo = cMgr.todo
  BY <1>1 DEF CliInv, CShape
<1>3. /\ DOMAIN cSess' = CliTasks
      /\ \A r \in CliTasks : DOMAIN cSess'[r] = {"proc", "lock"} /\ cSess'[r].lock = cSess[r].lock
  BY <1>1 DEF CliInv, CShape
<1>4. \A r \in CliTasks : cSess'[r].proc = "running" => cSess[r].proc = "running" /\ (r \in cPids => r \in cPids')
  BY <1>1, ReturnedIsGone
<1> QED BY <1>1, <1>2, <1>3, <1>4, PlaceKeeps

\* The value under a key of a dictionary.
LEMMA ValueOfKey ==
  ASSUME NEW m, NEW k, Functional(m), HasKey(m, k)
  PROVE  <<k, Value(m, k)>> \in m /\ \A p \in m : p[1] = k => p[2] = Value(m, k)
<1>1. PICK p \in m : p[1] = k
  BY DEF HasKey
<1>2. p[2] \in {q[2] : q \in {r \in m : r[1] = k}}
  BY <1>1
<1>3. Value(m, k) \in {q[2] : q \in {r \in m : r[1] = k}}
  BY <1>2 DEF Value
<1>4. PICK q \in m : q[1] = k /\ q[2] = Value(m, k)
  BY <1>3
<1>5. <<k, Value(m, k)>> \in m
  BY <1>4 DEF Functional
<1>6. \A r \in m : r[1] = k => r[2] = Value(m, k)
  BY <1>4 DEF Functional
<1> QED BY <1>5, <1>6

\* A task gives its session back: only entries under its last id go, and what
\* ran in their sessions is stopped.
LEMMA GivenBackKeeps ==
  ASSUME CliInv, NEW t \in CliTasks, NEW pc, Goes(t, pc), pc \in {"removing", "done"}, cTask[t].pc = "cleanup",
         cGhost' = cGhost, cPids' = cPids, DOMAIN cMgr' = DOMAIN cMgr, cMgr'.todo = cMgr.todo,
         cMgr'.pending \subseteq cMgr.pending, cMgr'.sessions \subseteq cMgr.sessions,
         cMgr'.tempToReal \subseteq cMgr.tempToReal,
         \A p \in cMgr'.tempToReal : p[2] \in KeysOf(cMgr'.sessions),
         \A p \in Entries' : p[1] # LastId(t),
         \A p \in Entries : p \in Entries' \/ cSess'[p[2]].proc # "running",
         DOMAIN cSess' = CliTasks,
         \A r \in CliTasks : DOMAIN cSess'[r] = {"proc", "lock"} /\ cSess'[r].lock = cSess[r].lock,
         \A r \in CliTasks : cSess'[r].proc = "running" => cSess[r].proc = "running",
         \A r \in CliTasks : cSess'[r].proc = "signalled" => cSess[r].proc \in {"running", "signalled"}
  PROVE  CliInv'
<1>1. /\ DOMAIN cTask' = CliTasks
      /\ \A u \in CliTasks : DOMAIN cTask'[u] = TaskFields /\ cTask'[u].captured = cTask[u].captured
      /\ \A u \in CliTasks : cTask'[u].temp = cTask[u].temp /\ cTask'[u].sess = cTask[u].sess
      /\ \A u \in CliTasks : cTask'[u].gen = cTask[u].gen /\ cTask'[u].pc = IF u = t THEN pc ELSE cTask[u].pc
  BY TaskGoes DEF CliInv
<1>2. CShape'
  BY <1>1 DEF CliInv, CShape, TaskFields
<1>3. IdsApart'
  <2>1. /\ KeysOf(cMgr'.pending) \subseteq KeysOf(cMgr.pending) /\ KeysOf(cMgr'.sessions) \subseteq KeysOf(cMgr.sessions)
        /\ KeysOf(cMgr'.tempToReal) \subseteq KeysOf(cMgr.tempToReal)
    BY DEF KeysOf
  <2>2. Aliases' \subseteq Aliases
    BY <1>1, <2>1 DEF Aliases, KeysOf
  <2>3. Functional(cMgr'.pending) /\ Functional(cMgr'.sessions)
    BY DEF CliInv, IdsApart, Functional
  <2>4. \A u \in CliTasks : cTask'[u].pc = "new" => cTask[u].pc = "new"
    BY <1>1
  <2>5. \A u \in CliTasks : <<"temp", u>> \in KeysOf(cMgr'.pending) => cTask'[u].pc # "new"
    BY <2>1, <2>4 DEF CliInv, IdsApart
  <2>6. /\ \A u \in CliTasks : cTask'[u].pc = "new" => cTask'[u].captured = NoId /\ cTask'[u].temp = NoId
        /\ \A u \in CliTasks : cTask'[u].temp # NoId => cTask'[u].captured = NoId
    BY <1>1, <2>4 DEF CliInv, IdsApart
  <2>7. \A p \in CliTasks : RealId(p) \in Aliases' \cup KeysOf(cMgr'.sessions) => cTask'[p].captured # NoId
    BY <1>1, <2>1, <2>2 DEF CliInv, IdsApart
  <2>8. KeysOf(cMgr'.sessions) \subseteq {RealId(p) : p \in CliTasks} /\ Aliases' \cap KeysOf(cMgr'.sessions) = {}
    BY <2>1, <2>2 DEF CliInv, IdsApart
  <2> QED BY <2>3, <2>5, <2>6, <2>7, <2>8 DEF IdsApart, KeysOf, Functional, RealId
<1>4. EntriesAnswered'
  <2> SUFFICES ASSUME NEW p \in Entries'
               PROVE  /\ p[2] \in CliTasks
                      /\ \E u \in CliTasks : Answers(u, p[1])' /\ (cTask'[u].sess = p[2] \/ p[2] \in cGhost'.unmanaged)
    BY DEF EntriesAnswered
  <2>1. p \in Entries
    BY DEF Entries
  <2>2. PICK u \in CliTasks : Answers(u, p[1]) /\ (cTask[u].sess = p[2] \/ p[2] \in cGhost.unmanaged)
    BY <2>1 DEF CliInv, EntriesAnswered
  <2>3. u # t
    BY <2>2 DEF Answers
  <2>4. Answers(u, p[1])'
    BY <1>1, <2>2, <2>3 DEF Answers, Over, LastId
  <2> QED BY <1>1, <2>1, <2>2, <2>4 DEF CliInv, EntriesAnswered
<1>5. \A r \in CliTasks : cSess'[r].proc = "running" => (Managed(r) => Managed(r)')
  <2> SUFFICES ASSUME NEW r \in CliTasks, cSess'[r].proc = "running", Managed(r) PROVE Managed(r)'
    OBVIOUS
  <2>1. PICK p \in Entries : p[2] = r
    BY DEF Managed, Entries
  <2>2. p \in Entries'
    BY <2>1
  <2> QED BY <2>1, <2>2 DEF Managed, Entries
<1>6. ProcessesHeld'
  BY <1>5, HeldKeeps
<1> QED BY <1>2, <1>3, <1>4, <1>6 DEF CliInv

LEMMA RemoveSessionKeeps == ASSUME CliInv, NEW t \in CliTasks, RemoveSession(t) PROVE CliInv'
<1>i. PICK id : id = LastId(t)
  OBVIOUS
<1>0. cTask[t].pc = "cleanup" /\ cPids' = cPids /\ cGhost' = cGhost
  BY DEF RemoveSession
<1>d. KeysOf(cMgr.pending) \cap KeysOf(cMgr.sessions) = {} /\ Functional(cMgr.pending) /\ Functional(cMgr.sessions)
  BY DEF CliInv, IdsApart, Aliases
<1>1. CASE HasKey(cMgr.pending, id)
  <2>s. PICK s : s = Value(cMgr.pending, id)
    OBVIOUS
  <2>1. /\ cMgr' = [[cMgr EXCEPT !.pending = Less(@, id)] EXCEPT !.lock = t, !.stopping = Awaits(s)]
        /\ cSess' = Stopped(s) /\ Goes(t, "removing")
    BY <1>i, <1>1, <2>s DEF RemoveSession
  <2>2. /\ DOMAIN cMgr' = DOMAIN cMgr /\ cMgr'.todo = cMgr.todo /\ cMgr'.pending = Less(cMgr.pending, id)
        /\ cMgr'.sessions = cMgr.sessions /\ cMgr'.tempToReal = cMgr.tempToReal
    BY <2>1 DEF CliInv, CShape
  <2>3. /\ DOMAIN cSess' = CliTasks
        /\ \A r \in CliTasks : DOMAIN cSess'[r] = {"proc", "lock"} /\ cSess'[r].lock = cSess[r].lock
        /\ \A r \in CliTasks : cSess'[r].proc = IF r = s /\ cSess[r].proc = "running" THEN "signalled" ELSE cSess[r].proc
    BY <2>1, StoppedRow DEF CliInv
  <2>4. \A p \in Entries' : p[1] # id
    BY <1>1, <1>d, <2>2 DEF Entries, Less, HasKey, KeysOf
  <2>5. \A p \in Entries : p \in Entries' \/ cSess'[p[2]].proc # "running"
    <3> SUFFICES ASSUME NEW p \in Entries, p \notin Entries' PROVE cSess'[p[2]].proc # "running"
      OBVIOUS
    <3>1. p \in cMgr.pending /\ p[1] = id
      BY <2>2 DEF Entries, Less
    <3>2. p[2] = s
      BY <1>1, <1>d, <2>s, <3>1, ValueOfKey
    <3>3. p[2] \in CliTasks
      BY DEF CliInv, EntriesAnswered
    <3> QED BY <2>3, <3>2, <3>3
  <2>6. \A p \in cMgr'.tempToReal : p[2] \in KeysOf(cMgr'.sessions)
    BY <2>2 DEF CliInv, IdsApart
  <2>7. cMgr'.pending \subseteq cMgr.pending
    BY <2>2 DEF Less
  <2>8. /\ \A r \in CliTasks : cSess'[r].proc = "running" => cSess[r].proc = "running"
        /\ \A r \in CliTasks : cSess'[r].proc = "signalled" => cSess[r].proc \in {"running", "signalled"}
    BY <2>3
  <2> QED BY <1>i, <1>0, <2>1, <2>2, <2>3, <2>4, <2>5, <2>6, <2>7, <2>8, GivenBackKeeps
<1>2. CASE ~HasKey(cMgr.pending, id) /\ HasKey(cMgr.sessions, id)
  <2>s. PICK s : s = Value(cMgr.sessions, id)
    OBVIOUS
  <2>1. /\ cMgr' = [[cMgr EXCEPT !.sessions = Less(@, id), !.tempToReal = {p \in @ : p[2] # id}]
                      EXCEPT !.lock = t, !.stopping = Awaits(s)]
        /\ cSess' = Stopped(s) /\ Goes(t, "removing")
    BY <1>i, <1>2, <2>s DEF RemoveSession
  <2>2. /\ DOMAIN cMgr' = DOMAIN cMgr /\ cMgr'.todo = cMgr.todo /\ cMgr'.sessions = Less(cMgr.sessions, id)
        /\ cMgr'.pending = cMgr.pending /\ cMgr'.tempToReal = {p \in cMgr.tempToReal : p[2] # id}
    BY <2>1 DEF CliInv, CShape
  <2>3. /\ DOMAIN cSess' = CliTasks
        /\ \A r \in CliTasks : DOMAIN cSess'[r] = {"proc", "lock"} /\ cSess'[r].lock = cSess[r].lock
        /\ \A r \in CliTasks : cSess'[r].proc = IF r = s /\ cSess[r].proc = "running" THEN "signalled" ELSE cSess[r].proc
    BY <2>1, StoppedRow DEF CliInv
  <2>4. \A p \in Entries' : p[1] # id
    BY <1>2, <2>2 DEF Entries, Less, HasKey
  <2>5. \A p \in Entries : p \in Entries' \/ cSess'[p[2]].proc # "running"
    <3> SUFFICES ASSUME NEW p \in Entries, p \notin Entries' PROVE cSess'[p[2]].proc # "running"
      OBVIOUS
    <3>1. p \in cMgr.sessions /\ p[1] = id
      BY <2>2 DEF Entries, Less
    <3>2. p[2] = s
      BY <1>2, <1>d, <2>s, <3>1, ValueOfKey
    <3>3. p[2] \in CliTasks
      BY DEF CliInv, EntriesAnswered
    <3> QED BY <2>3, <3>2, <3>3
  <2>6. \A p \in cMgr'.tempToReal : p[2] \in KeysOf(cMgr'.sessions)
    <3>1. \A k \in KeysOf(cMgr.sessions) : k # id => k \in KeysOf(Less(cMgr.sessions, id))
      BY DEF KeysOf, Less
    <3> QED BY <2>2, <3>1 DEF CliInv, IdsApart
  <2>7. cMgr'.sessions \subseteq cMgr.sessions /\ cMgr'.tempToReal \subseteq cMgr.tempToReal
    BY <2>2 DEF Less
  <2>8. /\ \A r \in CliTasks : cSess'[r].proc = "running" => cSess[r].proc = "running"
        /\ \A r \in CliTasks : cSess'[r].proc = "signalled" => cSess[r].proc \in {"running", "signalled"}
    BY <2>3
  <2> QED BY <1>i, <1>0, <2>1, <2>2, <2>3, <2>4, <2>5, <2>6, <2>7, <2>8, GivenBackKeeps
<1>3. CASE ~HasKey(cMgr.pending, id) /\ ~HasKey(cMgr.sessions, id)
  <2>1. cMgr' = cMgr /\ cSess' = cSess /\ Goes(t, "done")
    BY <1>i, <1>3 DEF RemoveSession
  <2>2. \A p \in Entries' : p[1] # id
    BY <1>3, <2>1 DEF Entries, HasKey
  <2>3. \A p \in Entries : p \in Entries'
    BY <2>1 DEF Entries
  <2>4. \A p \in cMgr'.tempToReal : p[2] \in KeysOf(cMgr'.sessions)
    BY <2>1 DEF CliInv, IdsApart
  <2>5. /\ DOMAIN cSess' = CliTasks
        /\ \A r \in CliTasks : DOMAIN cSess'[r] = {"proc", "lock"} /\ cSess'[r].lock = cSess[r].lock
    BY <2>1 DEF CliInv, CShape
  <2> QED BY <1>i, <1>0, <2>1, <2>2, <2>3, <2>4, <2>5, GivenBackKeeps
<1> QED BY <1>1, <1>2, <1>3

LEMMA ValueIsThere ==
  ASSUME NEW m, NEW k, HasKey(m, k)
  PROVE  \E q \in m : q[1] = k /\ q[2] = Value(m, k)
<1>1. PICK p \in m : p[1] = k
  BY DEF HasKey
<1>2. p[2] \in {q[2] : q \in {r \in m : r[1] = k}}
  BY <1>1
<1>3. Value(m, k) \in {q[2] : q \in {r \in m : r[1] = k}}
  BY <1>2 DEF Value
<1> QED BY <1>3

\* A task learns about its session; no generator is opened or closed.
LEMMA IdsHeld ==
  ASSUME CliInv, cSess' = cSess, cPids' = cPids, cGhost.unmanaged \subseteq cGhost'.unmanaged,
         \A r \in CliTasks : Managed(r) => Managed(r)',
         \A u \in CliTasks : cTask'[u].gen = "open" <=> cTask[u].gen = "open",
         \A u \in CliTasks : cTask[u].gen = "open" => cTask'[u].sess = cTask[u].sess /\ cTask'[u].pc = cTask[u].pc,
         \A u \in CliTasks : cTask'[u].pc # cTask[u].pc => cTask'[u].pc = "session"
  PROVE  ProcessesHeld'
<1>1. ASSUME NEW u \in CliTasks, cTask'[u].gen = "open"
      PROVE  /\ cTask'[u].pc # "new" /\ cSess'[cTask'[u].sess].lock = u
             /\ cTask'[u].pc \in {"spawning", "closing"} => cSess'[cTask'[u].sess].proc \notin {"running", "signalled"}
  BY <1>1 DEF CliInv, ProcessesHeld
<1>2. \A r \in CliTasks : cSess'[r].proc \in {"running", "signalled"} =>
        \E u \in CliTasks : cTask'[u].gen = "open" /\ cTask'[u].sess = r
  BY DEF CliInv, ProcessesHeld
<1>3. \A u \in CliTasks : cTask'[u].pc \in {"spawning", "reading", "stopping", "closing"} => cTask'[u].gen = "open"
  BY DEF CliInv, ProcessesHeld
<1>4. \A r \in CliTasks : cSess'[r].proc = "running" => r \in cPids' /\ (r \in cGhost'.unmanaged \/ Managed(r)')
  BY DEF CliInv, ProcessesHeld
<1> QED BY <1>1, <1>2, <1>3, <1>4 DEF ProcessesHeld

\* A reply takes the session its parent left in the manager.
LEMMA ReuseKeeps ==
  ASSUME CliInv, NEW t \in CliTasks, NEW s \in CliTasks, NEW id, cTask[t].pc = "new", cMgr' = cMgr,
         cSess' = cSess, cPids' = cPids, cGhost' = cGhost,
         cTask' = [cTask EXCEPT ![t] = [pc |-> "session", sess |-> s, temp |-> NoId, captured |-> id, gen |-> "none"]]
  PROVE  CliInv'
<1>1. DOMAIN cTask' = CliTasks /\ \A u \in CliTasks : DOMAIN cTask'[u] = TaskFields
  BY DEF CliInv, CShape, TaskFields
<1>2. /\ cTask'[t].pc = "session" /\ cTask'[t].sess = s /\ cTask'[t].temp = NoId /\ cTask'[t].gen = "none"
      /\ \A u \in CliTasks : u # t => cTask'[u] = cTask[u]
  BY DEF CliInv, CShape
<1>3. cTask[t].temp = NoId /\ cTask[t].captured = NoId /\ cTask[t].gen # "open"
  BY DEF CliInv, IdsApart, ProcessesHeld
<1>4. CShape'
  BY <1>1, <1>2 DEF CliInv, CShape, TaskFields
<1>5. IdsApart'
  <2>1. Aliases' = Aliases
    BY <1>2, <1>3 DEF Aliases, KeysOf
  <2>2. RealId(t) \notin Aliases \cup KeysOf(cMgr.sessions)
    BY <1>3 DEF CliInv, IdsApart
  <2>3. \A p \in CliTasks : RealId(p) \in Aliases' \cup KeysOf(cMgr'.sessions) => cTask'[p].captured # NoId
    BY <1>2, <2>1, <2>2 DEF CliInv, IdsApart
  <2>4. /\ \A u \in CliTasks : cTask'[u].pc = "new" => cTask'[u].captured = NoId /\ cTask'[u].temp = NoId
        /\ \A u \in CliTasks : cTask'[u].temp # NoId => cTask'[u].captured = NoId
        /\ \A u \in CliTasks : <<"temp", u>> \in KeysOf(cMgr'.pending) => cTask'[u].pc # "new"
    BY <1>2 DEF CliInv, IdsApart
  <2> QED BY <2>1, <2>3, <2>4 DEF CliInv, IdsApart, KeysOf, Functional, RealId
<1>6. EntriesAnswered'
  <2> SUFFICES ASSUME NEW p \in Entries'
               PROVE  /\ p[2] \in CliTasks
                      /\ \E u \in CliTasks : Answers(u, p[1])' /\ (cTask'[u].sess = p[2] \/ p[2] \in cGhost'.unmanaged)
    BY DEF EntriesAnswered
  <2>1. p \in Entries
    BY DEF Entries
  <2>2. PICK u \in CliTasks : Answers(u, p[1]) /\ (cTask[u].sess = p[2] \/ p[2] \in cGhost.unmanaged)
    BY <2>1 DEF CliInv, EntriesAnswered
  <2>3. u # t
    BY <2>2 DEF Answers, Over
  <2>4. Answers(u, p[1])'
    BY <1>2, <2>2, <2>3 DEF Answers, Over, LastId
  <2> QED BY <1>2, <2>1, <2>2, <2>3, <2>4 DEF CliInv, EntriesAnswered
<1>7. \A r \in CliTasks : Managed(r) => Managed(r)'
  BY DEF Managed
<1>8. ProcessesHeld'
  BY <1>2, <1>3, <1>7, IdsHeld
<1> QED BY <1>4, <1>5, <1>6, <1>8 DEF CliInv

\* A new session waits under an id that no entry has.
LEMMA CreateKeeps ==
  ASSUME CliInv, NEW t \in CliTasks, NEW k, cTask[t].pc = "new",
         k \notin KeysOf(cMgr.pending), k \notin KeysOf(cMgr.sessions), k # NoId,
         \A u \in CliTasks : k = <<"temp", u>> => u = t,
         \A p \in CliTasks : k = RealId(p) => cTask[p].captured = k,
         cMgr' = [cMgr EXCEPT !.pending = Less(@, k) \cup {<<k, t>>}], cSess' = cSess, cPids' = cPids, cGhost' = cGhost,
         cTask' = [cTask EXCEPT ![t] = [pc |-> "session", sess |-> t, temp |-> k, captured |-> NoId, gen |-> "none"]]
  PROVE  CliInv'
<1>1. DOMAIN cTask' = CliTasks /\ \A u \in CliTasks : DOMAIN cTask'[u] = TaskFields
  BY DEF CliInv, CShape, TaskFields
<1>2. /\ cTask'[t].pc = "session" /\ cTask'[t].sess = t /\ cTask'[t].temp = k /\ cTask'[t].gen = "none"
      /\ cTask'[t].captured = NoId /\ \A u \in CliTasks : u # t => cTask'[u] = cTask[u]
  BY DEF CliInv, CShape
<1>3. cTask[t].temp = NoId /\ cTask[t].captured = NoId /\ cTask[t].gen # "open"
  BY DEF CliInv, IdsApart, ProcessesHeld
<1>4. /\ DOMAIN cMgr' = DOMAIN cMgr /\ cMgr'.todo = cMgr.todo /\ cMgr'.sessions = cMgr.sessions
      /\ cMgr'.tempToReal = cMgr.tempToReal /\ cMgr'.pending = cMgr.pending \cup {<<k, t>>}
  <2>1. Less(cMgr.pending, k) = cMgr.pending
    BY DEF Less, KeysOf
  <2> QED BY <2>1 DEF CliInv, CShape
<1>5. CShape'
  BY <1>1, <1>2, <1>4 DEF CliInv, CShape, TaskFields
<1>6. IdsApart'
  <2>1. KeysOf(cMgr'.pending) = KeysOf(cMgr.pending) \cup {k}
    <3>1. <<k, t>>[1] = k
      OBVIOUS
    <3>2. PICK e : e = <<k, t>>
      OBVIOUS
    <3>3. e[1] = k /\ cMgr'.pending = cMgr.pending \cup {e}
      BY <1>4, <3>1, <3>2
    <3> QED BY <3>3 DEF KeysOf
  <2>2. Aliases' \subseteq Aliases \cup {k}
    BY <1>2, <1>4, <2>1 DEF Aliases, KeysOf
  <2>3. RealId(t) \notin Aliases \cup KeysOf(cMgr.sessions)
    BY <1>3 DEF CliInv, IdsApart
  <2>4. \A p \in CliTasks : RealId(p) # NoId
    BY DEF RealId, NoId
  <2>5. \A p \in CliTasks : RealId(p) \in Aliases' \cup KeysOf(cMgr'.sessions) => cTask'[p].captured # NoId
    <3> SUFFICES ASSUME NEW p \in CliTasks, RealId(p) \in Aliases' \cup KeysOf(cMgr'.sessions)
                 PROVE  cTask'[p].captured # NoId
      OBVIOUS
    <3>1. CASE RealId(p) = k
      BY <1>2, <1>3, <2>4, <3>1
    <3>2. CASE RealId(p) # k
      BY <1>2, <1>4, <2>2, <2>3, <3>2 DEF CliInv, IdsApart
    <3> QED BY <3>1, <3>2
  <2>6. /\ \A u \in CliTasks : cTask'[u].pc = "new" => cTask'[u].captured = NoId /\ cTask'[u].temp = NoId
        /\ \A u \in CliTasks : cTask'[u].temp # NoId => cTask'[u].captured = NoId
    BY <1>2 DEF CliInv, IdsApart
  <2>7. \A u \in CliTasks : <<"temp", u>> \in KeysOf(cMgr'.pending) => cTask'[u].pc # "new"
    BY <1>2, <2>1 DEF CliInv, IdsApart
  <2>8. Functional(cMgr'.pending) /\ Functional(cMgr'.sessions)
    <3>1. \A p \in cMgr.pending : p[1] # k
      BY DEF KeysOf
    <3>2. <<k, t>>[1] = k /\ <<k, t>>[2] = t
      OBVIOUS
    <3>3. \A p, q \in cMgr'.pending : p[1] = q[1] => p = q
      BY <1>4, <3>1, <3>2 DEF CliInv, IdsApart, Functional
    <3>4. \A p \in cMgr'.pending : p = <<p[1], p[2]>>
      BY <1>4, <3>2 DEF CliInv, IdsApart, Functional
    <3> QED BY <1>4, <3>3, <3>4 DEF CliInv, IdsApart, Functional
  <2>9. KeysOf(cMgr'.sessions) \subseteq {RealId(p) : p \in CliTasks} /\ Aliases' \cap KeysOf(cMgr'.sessions) = {}
    BY <1>4, <2>2 DEF CliInv, IdsApart
  <2>10. \A p \in cMgr'.tempToReal : p[2] \in KeysOf(cMgr'.sessions)
    BY <1>4 DEF CliInv, IdsApart
  <2> QED BY <2>5, <2>6, <2>7, <2>8, <2>9, <2>10 DEF IdsApart, KeysOf, Functional, RealId
<1>7. EntriesAnswered'
  <2> SUFFICES ASSUME NEW p \in Entries'
               PROVE  /\ p[2] \in CliTasks
                      /\ \E u \in CliTasks : Answers(u, p[1])' /\ (cTask'[u].sess = p[2] \/ p[2] \in cGhost'.unmanaged)
    BY DEF EntriesAnswered
  <2>1. CASE p = <<k, t>>
    <3>1. p[1] = k /\ p[2] = t
      BY <2>1
    <3>2. Answers(t, p[1])'
      BY <1>2, <3>1 DEF Answers, Over, LastId
    <3> QED BY <1>2, <3>1, <3>2
  <2>2. CASE p \in Entries
    <3>1. PICK u \in CliTasks : Answers(u, p[1]) /\ (cTask[u].sess = p[2] \/ p[2] \in cGhost.unmanaged)
      BY <2>2 DEF CliInv, EntriesAnswered
    <3>2. u # t
      BY <3>1 DEF Answers, Over
    <3>3. Answers(u, p[1])'
      BY <1>2, <3>1, <3>2 DEF Answers, Over, LastId
    <3> QED BY <1>2, <2>2, <3>1, <3>2, <3>3 DEF CliInv, EntriesAnswered
  <2> QED BY <1>4, <2>1, <2>2 DEF Entries
<1>8. \A r \in CliTasks : Managed(r) => Managed(r)'
  BY <1>4 DEF Managed
<1>9. ProcessesHeld'
  BY <1>2, <1>3, <1>8, IdsHeld
<1> QED BY <1>5, <1>6, <1>7, <1>9 DEF CliInv

LEMMA GetOrCreateSessionKeeps == ASSUME CliInv, NEW t \in CliTasks, GetOrCreateSession(t) PROVE CliInv'
<1>i. PICK parent, id : /\ parent = ParentOf[t]
                        /\ id = IF HasKey(cMgr.tempToReal, parent) THEN Value(cMgr.tempToReal, parent) ELSE parent
  OBVIOUS
<1>1. /\ cTask[t].pc = "new" /\ cSess' = cSess /\ cPids' = cPids /\ cGhost' = cGhost
      /\ \A p \in CliTasks : parent = RealId(p) => cTask[p].captured = parent
  BY <1>i DEF GetOrCreateSession
<1>d. Functional(cMgr.pending) /\ Functional(cMgr.sessions)
  BY DEF CliInv, IdsApart
<1>2. CASE parent # NoId /\ HasKey(cMgr.sessions, id)
  <2>s. PICK s : s = Value(cMgr.sessions, id)
    OBVIOUS
  <2>1. /\ cMgr' = cMgr
        /\ cTask' = [cTask EXCEPT ![t] = [pc |-> "session", sess |-> s, temp |-> NoId, captured |-> id, gen |-> "none"]]
    BY <1>i, <1>2, <2>s DEF GetOrCreateSession
  <2>2. s \in CliTasks
    BY <1>2, <1>d, <2>s, ValueIsThere DEF CliInv, EntriesAnswered, Entries
  <2> QED BY <1>1, <2>1, <2>2, ReuseKeeps
<1>3. CASE parent # NoId /\ ~HasKey(cMgr.sessions, id) /\ HasKey(cMgr.pending, id)
  <2>s. PICK s : s = Value(cMgr.pending, id)
    OBVIOUS
  <2>1. /\ cMgr' = cMgr
        /\ cTask' = [cTask EXCEPT ![t] = [pc |-> "session", sess |-> s, temp |-> NoId, captured |-> id, gen |-> "none"]]
    BY <1>i, <1>3, <2>s DEF GetOrCreateSession
  <2>2. s \in CliTasks
    BY <1>3, <1>d, <2>s, ValueIsThere DEF CliInv, EntriesAnswered, Entries
  <2> QED BY <1>1, <2>1, <2>2, ReuseKeeps
<1>4. CASE parent = NoId \/ (~HasKey(cMgr.sessions, id) /\ ~HasKey(cMgr.pending, id))
  <2>k. PICK k : k = TempId(t)
    OBVIOUS
  <2>1. /\ cMgr' = [cMgr EXCEPT !.pending = Less(@, k) \cup {<<k, t>>}]
        /\ cTask' = [cTask EXCEPT ![t] = [pc |-> "session", sess |-> t, temp |-> k, captured |-> NoId, gen |-> "none"]]
    BY <1>i, <1>4, <2>k DEF GetOrCreateSession
  <2>2. CASE parent = NoId
    <3>1. k = <<"temp", t>>
      BY <1>i, <2>2, <2>k DEF TempId
    <3>2. k \notin KeysOf(cMgr.pending)
      BY <1>1, <3>1 DEF CliInv, IdsApart
    <3>3. (\A p \in CliTasks : k # RealId(p)) /\ k # NoId
      BY <3>1 DEF RealId, NoId
    <3>4. k \notin KeysOf(cMgr.sessions)
      BY <3>3 DEF CliInv, IdsApart
    <3>5. \A u \in CliTasks : k = <<"temp", u>> => u = t
      BY <3>1
    <3> QED BY <1>1, <2>1, <3>2, <3>3, <3>4, <3>5, CreateKeeps
  <2>3. CASE parent # NoId
    <3>1. k = parent
      BY <1>i, <2>3, <2>k DEF TempId
    <3>2. ~HasKey(cMgr.tempToReal, parent)
      <4> SUFFICES ASSUME HasKey(cMgr.tempToReal, parent) PROVE FALSE
        OBVIOUS
      <4>1. \E q \in cMgr.tempToReal : q[2] = id
        BY <1>i, ValueIsThere
      <4>2. id \in KeysOf(cMgr.sessions)
        BY <4>1 DEF CliInv, IdsApart
      <4> QED BY <1>4, <2>3, <4>2 DEF KeysOf, HasKey
    <3>3. id = k
      BY <1>i, <3>1, <3>2
    <3>4. k \notin KeysOf(cMgr.pending) /\ k \notin KeysOf(cMgr.sessions)
      BY <1>4, <2>3, <3>3 DEF KeysOf, HasKey
    <3>5. k[1] # "temp"
      BY <1>i, <3>1, CliAssumption
    <3>6. \A u \in CliTasks : k = <<"temp", u>> => u = t
      BY <3>5
    <3> QED BY <1>1, <2>1, <2>3, <3>1, <3>4, <3>6, CreateKeeps
  <2> QED BY <2>2, <2>3
<1> QED BY <1>2, <1>3, <1>4

\* The real id takes the place of the temporary one.
LEMMA SessionInfoKeeps == ASSUME CliInv, NEW t \in CliTasks, SessionInfo(t) PROVE CliInv'
<1>k. PICK k : k = cTask[t].temp
  OBVIOUS
<1>u. PICK new : new = {p[2] : p \in {q \in cMgr.pending : q[1] = k /\ q[2] # cTask[t].sess}}
  OBVIOUS
<1>1. /\ cTask[t].pc = "reading" /\ k # NoId /\ cSess' = cSess /\ cPids' = cPids
      /\ cTask' = [cTask EXCEPT ![t].temp = NoId, ![t].captured = RealId(t)]
      /\ cGhost' = [cGhost EXCEPT !.unmanaged = @ \cup new]
  BY <1>k, <1>u DEF SessionInfo
<1>2. DOMAIN cTask' = CliTasks /\ \A u \in CliTasks : DOMAIN cTask'[u] = TaskFields
  BY <1>1 DEF CliInv, CShape, TaskFields
<1>3. /\ \A u \in CliTasks : cTask'[u].pc = cTask[u].pc /\ cTask'[u].sess = cTask[u].sess /\ cTask'[u].gen = cTask[u].gen
      /\ cTask'[t].temp = NoId /\ cTask'[t].captured = RealId(t)
      /\ \A u \in CliTasks : u # t => cTask'[u] = cTask[u]
  BY <1>1 DEF CliInv, CShape
<1>4. DOMAIN cGhost' = DOMAIN cGhost /\ cGhost'.unmanaged = cGhost.unmanaged \cup new
  BY <1>1 DEF CliInv, CShape
<1>5. cTask[t].captured = NoId /\ k \in Aliases /\ k \notin KeysOf(cMgr.sessions) /\ LastId(t) = k
  BY <1>k, <1>1 DEF CliInv, IdsApart, Aliases, LastId
<1>6. RealId(t) \notin Aliases \cup KeysOf(cMgr.sessions)
  BY <1>5 DEF CliInv, IdsApart
<1>r. \A p \in CliTasks : RealId(p) # NoId /\ (RealId(p) = RealId(t) => p = t)
  BY DEF RealId, NoId
<1>f. Functional(cMgr.pending) /\ Functional(cMgr.sessions)
  BY DEF CliInv, IdsApart
<1>m. \E v : /\ DOMAIN cMgr' = DOMAIN cMgr /\ cMgr'.todo = cMgr.todo
             /\ cMgr'.pending = Less(cMgr.pending, k)
             /\ \/ /\ <<k, v>> \in cMgr.pending /\ \A p \in cMgr.pending : p[1] = k => p[2] = v
                   /\ cMgr'.sessions = cMgr.sessions \cup {<<RealId(t), v>>}
                   /\ cMgr'.tempToReal = Less(cMgr.tempToReal, k) \cup {<<k, RealId(t)>>}
                \/ k \notin KeysOf(cMgr.pending) /\ cMgr'.sessions = cMgr.sessions /\ cMgr'.tempToReal = cMgr.tempToReal
  <2>1. CASE HasKey(cMgr.pending, k)
    <3>v. PICK v : v = Value(cMgr.pending, k)
      OBVIOUS
    <3>1. cMgr' = [cMgr EXCEPT !.pending = Less(@, k), !.sessions = Less(@, RealId(t)) \cup {<<RealId(t), v>>},
                               !.tempToReal = Less(@, k) \cup {<<k, RealId(t)>>}]
      BY <1>k, <2>1, <3>v DEF SessionInfo
    <3>2. Less(cMgr.sessions, RealId(t)) = cMgr.sessions
      BY <1>6 DEF Less, KeysOf
    <3>3. /\ DOMAIN cMgr' = DOMAIN cMgr /\ cMgr'.todo = cMgr.todo /\ cMgr'.pending = Less(cMgr.pending, k)
          /\ cMgr'.sessions = cMgr.sessions \cup {<<RealId(t), v>>}
          /\ cMgr'.tempToReal = Less(cMgr.tempToReal, k) \cup {<<k, RealId(t)>>}
      BY <3>1, <3>2 DEF CliInv, CShape
    <3>4. <<k, v>> \in cMgr.pending /\ \A p \in cMgr.pending : p[1] = k => p[2] = v
      BY <1>f, <2>1, <3>v, ValueOfKey
    <3> QED BY <3>3, <3>4
  <2>2. CASE ~HasKey(cMgr.pending, k)
    <3>1. cMgr' = cMgr
      BY <1>k, <2>2 DEF SessionInfo
    <3>2. Less(cMgr.pending, k) = cMgr.pending /\ k \notin KeysOf(cMgr.pending)
      BY <2>2 DEF Less, HasKey, KeysOf
    <3> QED BY <3>1, <3>2
  <2> QED BY <2>1, <2>2
<1>7. CShape'
  BY <1>1, <1>2, <1>3, <1>4, <1>m DEF CliInv, CShape, TaskFields
<1>v. PICK v : /\ DOMAIN cMgr' = DOMAIN cMgr /\ cMgr'.todo = cMgr.todo
               /\ cMgr'.pending = Less(cMgr.pending, k)
               /\ \/ /\ <<k, v>> \in cMgr.pending /\ \A p \in cMgr.pending : p[1] = k => p[2] = v
                     /\ cMgr'.sessions = cMgr.sessions \cup {<<RealId(t), v>>}
                     /\ cMgr'.tempToReal = Less(cMgr.tempToReal, k) \cup {<<k, RealId(t)>>}
                  \/ k \notin KeysOf(cMgr.pending) /\ cMgr'.sessions = cMgr.sessions /\ cMgr'.tempToReal = cMgr.tempToReal
  BY <1>m
<1>x. PICK x : x = <<RealId(t), v>>
  OBVIOUS
<1>y. PICK y : y = <<k, RealId(t)>>
  OBVIOUS
<1>p. /\ x = <<RealId(t), v>> /\ x[1] = RealId(t) /\ x[2] = v
      /\ y = <<k, RealId(t)>> /\ y[1] = k /\ y[2] = RealId(t)
  BY <1>x, <1>y
<1>8. IdsApart'
  <2>1. /\ KeysOf(cMgr'.pending) \subseteq KeysOf(cMgr.pending)
        /\ KeysOf(cMgr'.sessions) \subseteq KeysOf(cMgr.sessions) \cup {RealId(t)}
        /\ KeysOf(cMgr.sessions) \subseteq KeysOf(cMgr'.sessions)
        /\ KeysOf(cMgr'.tempToReal) \subseteq KeysOf(cMgr.tempToReal) \cup {k}
    BY <1>v, <1>p DEF KeysOf, Less
  <2>2. Aliases' \subseteq Aliases \cup {NoId}
    BY <1>3, <1>5, <2>1 DEF Aliases, KeysOf
  <2>3. \A p \in CliTasks : RealId(p) \in Aliases' \cup KeysOf(cMgr'.sessions) => cTask'[p].captured # NoId
    BY <1>3, <1>r, <2>1, <2>2 DEF CliInv, IdsApart
  <2>4. /\ \A u \in CliTasks : cTask'[u].pc = "new" => cTask'[u].captured = NoId /\ cTask'[u].temp = NoId
        /\ \A u \in CliTasks : cTask'[u].temp # NoId => cTask'[u].captured = NoId
    <3>1. /\ \A u \in CliTasks : cTask[u].pc = "new" => cTask[u].captured = NoId /\ cTask[u].temp = NoId
          /\ \A u \in CliTasks : cTask[u].temp # NoId => cTask[u].captured = NoId
      BY DEF CliInv, IdsApart
    <3>2. /\ \A u \in CliTasks : u # t => cTask'[u] = cTask[u]
          /\ cTask'[t].temp = NoId /\ cTask'[t].pc = cTask[t].pc /\ cTask[t].pc # "new"
      BY <1>1, <1>3
    <3> QED BY <3>1, <3>2
  <2>5. \A u \in CliTasks : <<"temp", u>> \in KeysOf(cMgr'.pending) => cTask'[u].pc # "new"
    BY <1>3, <2>1 DEF CliInv, IdsApart
  <2>6. Functional(cMgr'.pending)
    BY <1>f, <1>v DEF Functional, Less
  <2>7. Functional(cMgr'.sessions)
    <3>1. \A p \in cMgr.sessions : p[1] # RealId(t)
      BY <1>6 DEF KeysOf
    <3>2. cMgr'.sessions \subseteq cMgr.sessions \cup {x}
      BY <1>v, <1>p
    <3>3. x = <<x[1], x[2]>>
      BY <1>p
    <3>4. \A p, q \in cMgr'.sessions : p[1] = q[1] => p = q
      BY <1>f, <1>p, <3>1, <3>2 DEF Functional
    <3>5. \A p \in cMgr'.sessions : p = <<p[1], p[2]>>
      BY <1>f, <3>2, <3>3 DEF Functional
    <3> QED BY <3>4, <3>5 DEF Functional
  <2>8. KeysOf(cMgr'.sessions) \subseteq {RealId(p) : p \in CliTasks} /\ Aliases' \cap KeysOf(cMgr'.sessions) = {}
    <3>1. KeysOf(cMgr'.sessions) \subseteq {RealId(p) : p \in CliTasks}
      BY <2>1 DEF CliInv, IdsApart
    <3>2. NoId \notin KeysOf(cMgr'.sessions)
      BY <1>r, <3>1
    <3> QED BY <1>6, <2>1, <2>2, <3>1, <3>2 DEF CliInv, IdsApart
  <2>9. \A p \in cMgr'.tempToReal : p[2] \in KeysOf(cMgr'.sessions)
    <3>1. CASE cMgr'.tempToReal = cMgr.tempToReal
      BY <2>1, <3>1 DEF CliInv, IdsApart
    <3>2. CASE /\ cMgr'.sessions = cMgr.sessions \cup {x}
               /\ cMgr'.tempToReal = Less(cMgr.tempToReal, k) \cup {y}
      <4>1. RealId(t) \in KeysOf(cMgr'.sessions)
        BY <1>p, <3>2 DEF KeysOf
      <4> QED BY <1>p, <2>1, <3>2, <4>1 DEF CliInv, IdsApart, Less
    <3> QED BY <1>v, <1>p, <3>1, <3>2
  <2> QED BY <2>3, <2>4, <2>5, <2>6, <2>7, <2>8, <2>9 DEF IdsApart, KeysOf, Functional, RealId
<1>9. EntriesAnswered'
  <2> SUFFICES ASSUME NEW p \in Entries'
               PROVE  /\ p[2] \in CliTasks
                      /\ \E u \in CliTasks : Answers(u, p[1])' /\ (cTask'[u].sess = p[2] \/ p[2] \in cGhost'.unmanaged)
    BY DEF EntriesAnswered
  <2>1. CASE p = x /\ <<k, v>> \in cMgr.pending
    <3>1. Answers(t, p[1])'
      BY <1>1, <1>3, <1>p, <1>r, <2>1 DEF Answers, Over, LastId
    <3>2. v \in CliTasks
      BY <2>1 DEF CliInv, EntriesAnswered, Entries
    <3>3. v = cTask[t].sess \/ v \in new
      BY <1>u, <2>1
    <3> QED BY <1>3, <1>4, <1>p, <2>1, <3>1, <3>2, <3>3
  <2>2. CASE p \in Entries /\ p[1] # k
    <3>1. PICK u \in CliTasks : Answers(u, p[1]) /\ (cTask[u].sess = p[2] \/ p[2] \in cGhost.unmanaged)
      BY <2>2 DEF CliInv, EntriesAnswered
    <3>2. u # t
      BY <1>5, <2>2, <3>1 DEF Answers
    <3>3. Answers(u, p[1])'
      BY <1>3, <3>1, <3>2 DEF Answers, Over, LastId
    <3> QED BY <1>3, <1>4, <2>2, <3>1, <3>2, <3>3 DEF CliInv, EntriesAnswered
  <2>3. p \in cMgr'.pending => p \in Entries /\ p[1] # k
    BY <1>v DEF Less, Entries
  <2>4. p \in cMgr.sessions => p \in Entries /\ p[1] # k
    BY <1>5 DEF KeysOf, Entries
  <2> QED BY <1>v, <1>p, <2>1, <2>2, <2>3, <2>4 DEF Entries
<1>10. \A r \in CliTasks : Managed(r) => Managed(r)'
  <2> SUFFICES ASSUME NEW r \in CliTasks, Managed(r) PROVE Managed(r)'
    OBVIOUS
  <2>1. PICK p \in cMgr.sessions \cup cMgr.pending : p[2] = r
    BY DEF Managed
  <2>2. CASE p \in cMgr.sessions
    BY <1>v, <2>1, <2>2 DEF Managed
  <2>3. CASE p \in cMgr.pending /\ p[1] # k
    BY <1>v, <2>1, <2>3 DEF Managed, Less
  <2>4. CASE p \in cMgr.pending /\ p[1] = k
    <3>1. x \in cMgr'.sessions /\ x[2] = r
      BY <1>v, <1>p, <2>1, <2>4 DEF KeysOf
    <3> QED BY <3>1 DEF Managed
  <2> QED BY <2>1, <2>2, <2>3, <2>4
<1>11. ProcessesHeld'
  BY <1>1, <1>3, <1>4, <1>10, IdsHeld
<1> QED BY <1>7, <1>8, <1>9, <1>11 DEF CliInv

LEMMA CliNextKeeps == ASSUME CliInv, [CNext]_cVars PROVE CliInv'
<1>1. CASE StopAll
  BY <1>1, StopAllKeeps
<1>2. CASE AllStopped
  BY <1>2, AllStoppedKeeps
<1>3. ASSUME NEW t \in CliTasks,
             \/ GetOrCreateSession(t) \/ StartTask(t) \/ ProcessStarts(t) \/ SessionInfo(t) \/ ProcessExits(t)
             \/ OutputEnds(t) \/ CancelledReading(t) \/ StoppedReading(t) \/ GeneratorEnds(t) \/ SpawnFails(t)
             \/ StopNext(t) \/ CancelledElsewhere(t) \/ GeneratorFinalized(t) \/ RemoveSession(t) \/ Removed(t)
      PROVE  CliInv'
  <2>1. CASE GetOrCreateSession(t)
    BY <2>1, GetOrCreateSessionKeeps
  <2>2. CASE StartTask(t)
    BY <2>2, StartTaskKeeps
  <2>3. CASE ProcessStarts(t)
    BY <2>3, ProcessStartsKeeps
  <2>4. CASE SessionInfo(t)
    BY <2>4, SessionInfoKeeps
  <2>5. CASE ProcessExits(t)
    BY <2>5, ProcessExitsKeeps
  <2>6. CASE OutputEnds(t) \/ CancelledReading(t) \/ StoppedReading(t) \/ CancelledElsewhere(t)
    BY <2>6, ReadingKeeps
  <2>7. CASE GeneratorEnds(t) \/ SpawnFails(t) \/ GeneratorFinalized(t)
    BY <2>7, ClosingKeeps
  <2>8. CASE StopNext(t)
    BY <2>8, StopNextKeeps
  <2>9. CASE RemoveSession(t)
    BY <2>9, RemoveSessionKeeps
  <2>10. CASE Removed(t)
    BY <2>10, RemovedKeeps
  <2> QED BY <1>3, <2>1, <2>2, <2>3, <2>4, <2>5, <2>6, <2>7, <2>8, <2>9, <2>10
<1>4. CASE UNCHANGED cVars
  <2>1. cTask' = cTask /\ cMgr' = cMgr /\ cSess' = cSess /\ cPids' = cPids /\ cGhost' = cGhost
    BY <1>4 DEF cVars
  <2>2. /\ DOMAIN cSess' = CliTasks /\ cMgr'.todo \subseteq CliTasks
        /\ \A r \in CliTasks : DOMAIN cSess'[r] = {"proc", "lock"} /\ cSess'[r].lock = cSess[r].lock
    BY <2>1 DEF CliInv, CShape
  <2> QED BY <2>1, <2>2, CalmKeeps
<1> QED BY <1>1, <1>2, <1>3, <1>4 DEF CNext

\* Ids, entries, answering tasks and held sessions fit together in every
\* state: the inductive invariant of the CLI session manager.
THEOREM CliAlways == CSpec => []CliInv
<1>1. CInit => CliInv
  BY CliInit
<1>2. CliInv /\ [CNext]_cVars => CliInv'
  BY CliNextKeeps
<1> QED BY <1>1, <1>2, PTL DEF CSpec

\* Whatever order cancellation, session_info, the end of the process and
\* stop_all come in, the manager keeps no session, pending session or alias
\* when no task is under way.
THEOREM ReleasedAlways == CSpec => []ReleasedWhenIdle
<1>1. CliInv => ReleasedWhenIdle
  <2> SUFFICES ASSUME CliInv, \A t \in CliTasks : Over(t)
               PROVE  cMgr.sessions = {} /\ cMgr.pending = {} /\ cMgr.tempToReal = {}
    BY DEF ReleasedWhenIdle
  <2>1. Entries = {}
    BY DEF CliInv, EntriesAnswered, Answers
  <2> QED BY <2>1 DEF CliInv, IdsApart, Entries, KeysOf
<1> QED BY <1>1, CliAlways, PTL

\* A process that nobody has stopped is in the registry that is killed at
\* exit, and a task under way uses its session, unless a stop_all passed it by.
THEOREM ProcessesAlwaysSupervised == CSpec => []ProcessSupervised
<1>1. CliInv => ProcessSupervised
  <2> SUFFICES ASSUME CliInv, NEW s \in CliTasks, cSess[s].proc = "running", s \notin cGhost.unmanaged
               PROVE  s \in cPids /\ \E t \in CliTasks : cTask[t].sess = s /\ ~Over(t)
    BY DEF ProcessSupervised, CliInv, ProcessesHeld
  <2>1. s \in cPids /\ Managed(s)
    BY DEF CliInv, ProcessesHeld
  <2>2. PICK p \in Entries : p[2] = s
    BY <2>1 DEF Managed, Entries
  <2> QED BY <2>1, <2>2 DEF CliInv, EntriesAnswered, Answers
<1> QED BY <1>1, CliAlways, PTL

-----------------------------------------------------------------------------
(***************************************************************************)
(* Induction over numbers and sequences, and recursion, with sets and      *)
(* functions in the place of predicates.                                   *)
(***************************************************************************)
\* A set of numbers that has 0 and each next one has them all.
LEMMA FromZero ==
  ASSUME NEW T, 0 \in T, \A n \in Nat : n \in T => n + 1 \in T
  PROVE  Nat \subseteq T
<1>1. PICK S : S = {n \in Nat : n \notin T}
  OBVIOUS
<1>2. SUFFICES ASSUME S # {} PROVE FALSE
  BY <1>1
<1>3. PICK n \in S : \A y \in S : ~(<<y, n>> \in OpToRel(<, Nat))
  <2>1. S \subseteq Nat
    BY <1>1
  <2> QED BY <1>2, <2>1, NatLessThanWellFounded, WFMin
<1>4. n \in Nat /\ n \notin T /\ n # 0
  BY <1>1, <1>3
<1>5. n - 1 \in Nat /\ n - 1 < n /\ (n - 1) + 1 = n
  BY <1>4
<1>6. <<n - 1, n>> \in OpToRel(<, Nat)
  BY <1>4, <1>5 DEF OpToRel
<1>7. n - 1 \notin S
  BY <1>3, <1>6
<1>8. n - 1 \in T
  BY <1>1, <1>5, <1>7
<1> QED BY <1>4, <1>5, <1>8

\* A set that has the empty sequence and each longer one has them all.
LEMMA ByAppend ==
  ASSUME NEW S, NEW T, <<>> \in T, \A s \in Seq(S), e \in S : s \in T => Append(s, e) \in T
  PROVE  Seq(S) \subseteq T
<1>1. PICK N : N = {n \in Nat : \A s \in Seq(S) : Len(s) = n => s \in T}
  OBVIOUS
<1>2. 0 \in N
  <2>1. ASSUME NEW s \in Seq(S), Len(s) = 0 PROVE s \in T
    <3>1. s = <<>>
      BY <2>1, EmptySeq
    <3> QED BY <3>1
  <2> QED BY <1>1, <2>1
<1>3. ASSUME NEW n \in Nat, n \in N PROVE n + 1 \in N
  <2>1. ASSUME NEW s \in Seq(S), Len(s) = n + 1 PROVE s \in T
    <3>1. s # <<>>
      BY <2>1, EmptySeq
    <3>2. PICK r \in Seq(S), e \in S : s = Append(r, e)
      BY <3>1, SequenceEmptyOrAppend
    <3>3. Len(s) = Len(r) + 1 /\ Len(r) \in Nat
      BY <3>2, AppendProperties, LenProperties
    <3>4. Len(r) = n
      BY <2>1, <3>3
    <3>5. r \in T
      BY <1>1, <1>3, <3>4
    <3> QED BY <3>2, <3>5
  <2> QED BY <1>1, <2>1
<1>4. Nat \subseteq N
  BY <1>2, <1>3, FromZero
<1>5. ASSUME NEW s \in Seq(S) PROVE s \in T
  <2>1. Len(s) \in N
    BY <1>4, LenProperties
  <2> QED BY <1>1, <2>1
<1> QED BY <1>5

\* f has the values that g makes one of the other, from base on.
Runs(f, V, base, g, m) ==
  f \in [0..m -> V] /\ f[0] = base /\ \A n \in 1..m : f[n] = g[n][f[n - 1]]

\* A function of numbers can be given by its first value and its steps.
LEMMA Recursion ==
  ASSUME NEW V, NEW base \in V, NEW g \in [Nat -> [V -> V]], NEW m \in Nat
  PROVE  \E f : Runs(f, V, base, g, m)
<1>1. PICK T : T = {k \in Nat : \E f : Runs(f, V, base, g, k)}
  OBVIOUS
<1>2. 0 \in T
  <2>1. PICK f : f = [n \in 0..0 |-> base]
    OBVIOUS
  <2>2. f \in [0..0 -> V] /\ f[0] = base
    BY <2>1
  <2>3. Runs(f, V, base, g, 0)
    BY <2>2 DEF Runs
  <2> QED BY <1>1, <2>3
<1>3. ASSUME NEW k \in Nat, k \in T PROVE k + 1 \in T
  <2>1. PICK f : Runs(f, V, base, g, k)
    BY <1>1, <1>3
  <2>2. f \in [0..k -> V] /\ f[0] = base /\ \A n \in 1..k : f[n] = g[n][f[n - 1]]
    BY <2>1 DEF Runs
  <2>3. PICK last : last = g[k + 1][f[k]]
    OBVIOUS
  <2>4. last \in V
    <3>1. f[k] \in V /\ g[k + 1] \in [V -> V]
      BY <2>2
    <3> QED BY <2>3, <3>1
  <2>5. PICK h : h = [n \in 0..(k + 1) |-> IF n = k + 1 THEN last ELSE f[n]]
    OBVIOUS
  <2>6. h \in [0..(k + 1) -> V] /\ h[0] = base /\ h[k + 1] = last /\ \A n \in 0..k : h[n] = f[n]
    BY <2>2, <2>4, <2>5
  <2>7. ASSUME NEW n \in 1..(k + 1) PROVE h[n] = g[n][h[n - 1]]
    <3>1. n - 1 \in 0..k
      OBVIOUS
    <3>2. h[n - 1] = f[n - 1]
      BY <2>6, <3>1
    <3>3. CASE n = k + 1
      BY <2>3, <2>6, <3>2, <3>3
    <3>4. CASE n # k + 1
      <4>1. n \in 1..k /\ n \in 0..k
        BY <3>4
      <4> QED BY <2>2, <2>6, <3>2, <4>1
    <3> QED BY <3>3, <3>4
  <2>8. Runs(h, V, base, g, k + 1)
    BY <2>6, <2>7 DEF Runs
  <2> QED BY <1>1, <2>8
<1>4. Nat \subseteq T
  BY <1>2, <1>3, FromZero
<1>5. m \in T
  BY <1>4
<1> QED BY <1>1, <1>5

Associates(a, b, c) == (a \o b) \o c = a \o (b \o c)

\* Concatenation is associative.
LEMMA Associate == ASSUME NEW S, NEW a \in Seq(S), NEW b \in Seq(S), NEW c \in Seq(S) PROVE Associates(a, b, c)
<1>1. (a \o b) \o c = a \o (b \o c)
  BY ConcatAssociative, SMT
<1> QED BY <1>1 DEF Associates

-----------------------------------------------------------------------------
(***************************************************************************)
(* The blocks of some kinds.                                               *)
(***************************************************************************)
Block == [kind: BlockTypes, id: Nat]

KeptUpTo(f, s, kinds, len) ==
  f = [n \in 0..len |-> IF n = 0 THEN <<>>
                        ELSE IF s[n].kind \in kinds THEN Append(f[n - 1], s[n]) ELSE f[n - 1]]

Keeping(f, s, kinds, len) ==
  /\ f[0] = <<>> /\ f[len] = Kept(s, kinds)
  /\ \A n \in 0..len : f[n] \in Seq(Block)
  /\ \A n \in 1..len : f[n] = IF s[n].kind \in kinds THEN Append(f[n - 1], s[n]) ELSE f[n - 1]

\* The recursion of Kept has a solution.
LEMMA KeptExists == ASSUME NEW s \in Seq(Block), NEW kinds PROVE \E f : KeptUpTo(f, s, kinds, Len(s))
<1>1. PICK len : len = Len(s)
  OBVIOUS
<1>2. len \in Nat /\ \A n \in 1..len : s[n] \in Block
  BY <1>1, LenProperties, ElementOfSeq
<1>3. PICK V : V = Seq(Block)
  OBVIOUS
<1>4. PICK base : base = <<>>
  OBVIOUS
<1>5. base \in V
  BY <1>3, <1>4, EmptySeq
<1>6. PICK g : g = [n \in Nat |-> [v \in V |-> IF n \in 1..len /\ s[n].kind \in kinds THEN Append(v, s[n]) ELSE v]]
  OBVIOUS
<1>7. g \in [Nat -> [V -> V]]
  <2>1. ASSUME NEW n \in Nat, NEW v \in V
        PROVE  (IF n \in 1..len /\ s[n].kind \in kinds THEN Append(v, s[n]) ELSE v) \in V
    <3>1. CASE n \in 1..len
      <4>1. Append(v, s[n]) \in V
        BY <1>2, <1>3, <3>1, AppendProperties
      <4> QED BY <4>1
    <3>2. CASE n \notin 1..len
      BY <3>2
    <3> QED BY <3>1, <3>2
  <2> QED BY <1>6, <2>1
<1>8. PICK f : Runs(f, V, base, g, len)
  BY <1>2, <1>5, <1>7, Recursion
<1>9. f \in [0..len -> V] /\ f[0] = base /\ \A n \in 1..len : f[n] = g[n][f[n - 1]]
  BY <1>8 DEF Runs
<1>10. ASSUME NEW n \in 1..len PROVE f[n] = IF s[n].kind \in kinds THEN Append(f[n - 1], s[n]) ELSE f[n - 1]
  <2>1. n - 1 \in 0..len /\ n \in Nat
    BY <1>2
  <2>2. PICK v : v = f[n - 1]
    OBVIOUS
  <2>3. v \in V
    BY <1>9, <2>1, <2>2
  <2>4. g[n][v] = IF n \in 1..len /\ s[n].kind \in kinds THEN Append(v, s[n]) ELSE v
    BY <1>6, <2>1, <2>3
  <2> QED BY <1>9, <2>2, <2>4
<1>11. \A n \in 0..len : f[n] = IF n = 0 THEN <<>>
                              ELSE IF s[n].kind \in kinds THEN Append(f[n - 1], s[n]) ELSE f[n - 1]
  <2>1. \A n \in 0..len : n = 0 \/ n \in 1..len
    BY <1>2
  <2> QED BY <1>4, <1>9, <1>10, <2>1
<1>12. f = [n \in 0..len |-> f[n]]
  BY <1>9
<1>13. KeptUpTo(f, s, kinds, len)
  BY <1>11, <1>12 DEF KeptUpTo
<1> QED BY <1>1, <1>13

\* Kept is where its recursion ends.
LEMMA KeptSteps == ASSUME NEW s \in Seq(Block), NEW kinds PROVE \E f : Keeping(f, s, kinds, Len(s))
<1>1. PICK len : len = Len(s)
  OBVIOUS
<1>2. len \in Nat /\ \A n \in 1..len : s[n] \in Block
  BY <1>1, LenProperties, ElementOfSeq
<1>3. PICK f : f = CHOOSE g : KeptUpTo(g, s, kinds, len)
  OBVIOUS
<1>4. KeptUpTo(f, s, kinds, len)
  BY <1>1, <1>3, KeptExists
<1>5. f[len] = Kept(s, kinds)
  BY <1>1, <1>3 DEF Kept, KeptUpTo
<1>6. \A n \in 0..len : f[n] = IF n = 0 THEN <<>>
                             ELSE IF s[n].kind \in kinds THEN Append(f[n - 1], s[n]) ELSE f[n - 1]
  BY <1>4 DEF KeptUpTo
<1>7. f[0] = <<>>
  BY <1>2, <1>6
<1>8. \A n \in 1..len : f[n] = IF s[n].kind \in kinds THEN Append(f[n - 1], s[n]) ELSE f[n - 1]
  <2>1. \A n \in 1..len : n \in 0..len /\ n # 0
    OBVIOUS
  <2> QED BY <1>6, <2>1
<1>9. PICK T : T = {n \in Nat : n \in 0..len => f[n] \in Seq(Block)}
  OBVIOUS
<1>10. 0 \in T
  BY <1>7, <1>9, EmptySeq
<1>11. ASSUME NEW n \in Nat, n \in T PROVE n + 1 \in T
  <2>1. SUFFICES ASSUME n + 1 \in 0..len PROVE f[n + 1] \in Seq(Block)
    BY <1>9
  <2>2. n + 1 \in 1..len /\ n \in 0..len /\ (n + 1) - 1 = n
    BY <1>2, <2>1
  <2>3. f[n] \in Seq(Block)
    BY <1>9, <1>11, <2>2
  <2>4. f[n + 1] = f[n] \/ f[n + 1] = Append(f[n], s[n + 1])
    BY <1>8, <2>2
  <2>5. Append(f[n], s[n + 1]) \in Seq(Block)
    BY <1>2, <2>2, <2>3, AppendProperties
  <2> QED BY <2>3, <2>4, <2>5
<1>12. \A n \in 0..len : f[n] \in Seq(Block)
  <2>1. Nat \subseteq T
    BY <1>10, <1>11, FromZero
  <2> QED BY <1>9, <2>1
<1>13. Keeping(f, s, kinds, len)
  BY <1>5, <1>7, <1>8, <1>12 DEF Keeping
<1> QED BY <1>1, <1>13

\* Of no blocks, none are kept.
LEMMA KeptEmpty == ASSUME NEW kinds PROVE Kept(<<>>, kinds) = <<>>
<1>1. PICK s : s = <<>>
  OBVIOUS
<1>2. s \in Seq(Block) /\ Len(s) = 0
  BY <1>1, EmptySeq
<1>3. PICK f : Keeping(f, s, kinds, 0)
  BY <1>2, KeptSteps
<1> QED BY <1>1, <1>3 DEF Keeping

\* A last block is kept or not.
LEMMA KeptAppend ==
  ASSUME NEW s \in Seq(Block), NEW b \in Block, NEW kinds
  PROVE  /\ Kept(s, kinds) \in Seq(Block)
         /\ b.kind \in kinds => Kept(Append(s, b), kinds) = Append(Kept(s, kinds), b)
         /\ b.kind \notin kinds => Kept(Append(s, b), kinds) = Kept(s, kinds)
<1>1. PICK len : len = Len(s)
  OBVIOUS
<1>2. PICK t : t = Append(s, b)
  OBVIOUS
<1>3. /\ len \in Nat /\ t \in Seq(Block) /\ Len(t) = len + 1
      /\ \A n \in 1..len : t[n] = s[n]
      /\ t[len + 1] = b
  BY <1>1, <1>2, LenProperties, AppendProperties
<1>4. PICK f : Keeping(f, s, kinds, len)
  BY <1>1, KeptSteps
<1>5. PICK more : more = len + 1
  OBVIOUS
<1>6. PICK g : Keeping(g, t, kinds, more)
  BY <1>3, <1>5, KeptSteps
<1>7. /\ f[0] = <<>> /\ f[len] = Kept(s, kinds) /\ \A n \in 0..len : f[n] \in Seq(Block)
      /\ \A n \in 1..len : f[n] = IF s[n].kind \in kinds THEN Append(f[n - 1], s[n]) ELSE f[n - 1]
  BY <1>4 DEF Keeping
<1>8. /\ g[0] = <<>> /\ g[more] = Kept(t, kinds)
      /\ \A n \in 1..more : g[n] = IF t[n].kind \in kinds THEN Append(g[n - 1], t[n]) ELSE g[n - 1]
  BY <1>6 DEF Keeping
<1>9. PICK T : T = {n \in Nat : n \in 0..len => f[n] = g[n]}
  OBVIOUS
<1>10. 0 \in T
  BY <1>7, <1>8, <1>9
<1>11. ASSUME NEW n \in Nat, n \in T PROVE n + 1 \in T
  <2>1. SUFFICES ASSUME n + 1 \in 0..len PROVE f[n + 1] = g[n + 1]
    BY <1>9
  <2>2. n + 1 \in 1..len /\ n \in 0..len /\ (n + 1) - 1 = n /\ n + 1 \in 1..more
    BY <1>3, <1>5, <2>1
  <2>3. f[n] = g[n] /\ t[n + 1] = s[n + 1]
    BY <1>3, <1>9, <1>11, <2>2
  <2> QED BY <1>7, <1>8, <2>2, <2>3
<1>12. f[len] = g[len]
  <2>1. Nat \subseteq T
    BY <1>10, <1>11, FromZero
  <2> QED BY <1>3, <1>9, <2>1
<1>13. g[more] = IF b.kind \in kinds THEN Append(g[len], b) ELSE g[len]
  <2>1. more \in 1..more /\ more - 1 = len
    BY <1>3, <1>5
  <2> QED BY <1>3, <1>5, <1>8, <2>1
<1>14. f[len] \in Seq(Block)
  BY <1>3, <1>7
<1> QED BY <1>2, <1>7, <1>8, <1>12, <1>13, <1>14

\* What is kept of what was kept, and of two sequences in a row.
LEMMA KeptKept ==
  ASSUME NEW s \in Seq(Block), NEW kinds, NEW wide, kinds \subseteq wide
  PROVE  Kept(Kept(s, wide), kinds) = Kept(s, kinds)
<1>1. PICK T : T = {r \in Seq(Block) : Kept(Kept(r, wide), kinds) = Kept(r, kinds)}
  OBVIOUS
<1>2. <<>> \in T
  <2>1. PICK none : none = <<>>
    OBVIOUS
  <2>2. none \in Seq(Block) /\ Kept(none, wide) = none /\ Kept(none, kinds) = none
    BY <2>1, EmptySeq, KeptEmpty
  <2> QED BY <1>1, <2>1, <2>2
<1>3. ASSUME NEW r \in Seq(Block), NEW b \in Block, r \in T PROVE Append(r, b) \in T
  <2>1. PICK longer : longer = Append(r, b)
    OBVIOUS
  <2>2. longer \in Seq(Block)
    BY <2>1, AppendProperties
  <2>3. PICK a : a = Kept(r, wide)
    OBVIOUS
  <2>4. a \in Seq(Block) /\ Kept(a, kinds) = Kept(r, kinds)
    BY <1>1, <1>3, <2>3, KeptAppend
  <2>5. CASE b.kind \in kinds
    <3>1. Kept(longer, wide) = Append(a, b) /\ Kept(longer, kinds) = Append(Kept(r, kinds), b)
      BY <2>1, <2>3, <2>5, KeptAppend
    <3>2. Kept(Append(a, b), kinds) = Append(Kept(a, kinds), b)
      BY <2>4, <2>5, KeptAppend
    <3> QED BY <1>1, <2>1, <2>2, <2>4, <3>1, <3>2
  <2>6. CASE b.kind \notin kinds /\ b.kind \in wide
    <3>1. Kept(longer, wide) = Append(a, b) /\ Kept(longer, kinds) = Kept(r, kinds)
      BY <2>1, <2>3, <2>6, KeptAppend
    <3>2. Kept(Append(a, b), kinds) = Kept(a, kinds)
      BY <2>4, <2>6, KeptAppend
    <3> QED BY <1>1, <2>1, <2>2, <2>4, <3>1, <3>2
  <2>7. CASE b.kind \notin kinds /\ b.kind \notin wide
    <3>1. Kept(longer, wide) = a /\ Kept(longer, kinds) = Kept(r, kinds)
      BY <2>1, <2>3, <2>7, KeptAppend
    <3> QED BY <1>1, <2>1, <2>2, <2>4, <3>1
  <2> QED BY <2>5, <2>6, <2>7
<1>4. Seq(Block) \subseteq T
  BY <1>2, <1>3, ByAppend
<1> QED BY <1>1, <1>4

\* A sequence and what is appended to another one behind it.
LEMMA ConcatAppend ==
  ASSUME NEW S, NEW s \in Seq(S), NEW r \in Seq(S), NEW e \in S
  PROVE  s \o Append(r, e) = Append(s \o r, e)
<1>1. PICK one : one = <<e>>
  OBVIOUS
<1>2. one \in Seq(S)
  BY <1>1
<1>3. Append(r, e) = r \o one
  BY <1>1, AppendIsConcat
<1>4. s \o r \in Seq(S)
  BY ConcatProperties
<1>5. Append(s \o r, e) = (s \o r) \o one
  BY <1>1, <1>4, AppendIsConcat
<1>6. (s \o r) \o one = s \o (r \o one)
  BY <1>2, ConcatAssociative
<1> QED BY <1>3, <1>5, <1>6

\* What is kept of two sequences in a row.
LEMMA KeptConcat ==
  ASSUME NEW s \in Seq(Block), NEW t \in Seq(Block), NEW kinds
  PROVE  Kept(s \o t, kinds) = Kept(s, kinds) \o Kept(t, kinds)
<1>1. PICK T : T = {r \in Seq(Block) : Kept(s \o r, kinds) = Kept(s, kinds) \o Kept(r, kinds)}
  OBVIOUS
<1>2. PICK a : a = Kept(s, kinds)
  OBVIOUS
<1>3. a \in Seq(Block)
  <2>1. PICK f : Keeping(f, s, kinds, Len(s))
    BY KeptSteps
  <2>2. Len(s) \in 0..Len(s)
    BY LenProperties
  <2> QED BY <1>2, <2>1, <2>2 DEF Keeping
<1>4. <<>> \in T
  <2>1. PICK none : none = <<>>
    OBVIOUS
  <2>2. none \in Seq(Block) /\ s \o none = s /\ a \o none = a /\ Kept(none, kinds) = none
    BY <1>3, <2>1, EmptySeq, KeptEmpty, ConcatEmptySeq
  <2> QED BY <1>1, <1>2, <2>1, <2>2
<1>5. ASSUME NEW r \in Seq(Block), NEW b \in Block, r \in T PROVE Append(r, b) \in T
  <2>1. PICK longer : longer = Append(r, b)
    OBVIOUS
  <2>2. PICK both : both = s \o r
    OBVIOUS
  <2>3. longer \in Seq(Block) /\ both \in Seq(Block) /\ s \o longer = Append(both, b)
    BY <2>1, <2>2, AppendProperties, ConcatProperties, ConcatAppend
  <2>4. PICK c : c = Kept(r, kinds)
    OBVIOUS
  <2>5. c \in Seq(Block) /\ Kept(both, kinds) = a \o c
    BY <1>1, <1>2, <1>5, <2>2, <2>4, KeptAppend
  <2>6. CASE b.kind \in kinds
    <3>1. Kept(longer, kinds) = Append(c, b)
      BY <2>1, <2>4, <2>6, KeptAppend
    <3>2. Kept(s \o longer, kinds) = Append(a \o c, b)
      <4>1. Kept(Append(both, b), kinds) = Append(Kept(both, kinds), b)
        BY <2>3, <2>6, KeptAppend
      <4> QED BY <2>3, <2>5, <4>1
    <3>3. a \o Append(c, b) = Append(a \o c, b)
      BY <1>3, <2>5, ConcatAppend
    <3> QED BY <1>1, <1>2, <2>1, <2>3, <3>1, <3>2, <3>3
  <2>7. CASE b.kind \notin kinds
    <3>1. Kept(longer, kinds) = c
      BY <2>1, <2>4, <2>7, KeptAppend
    <3>2. Kept(s \o longer, kinds) = a \o c
      <4>1. Kept(Append(both, b), kinds) = Kept(both, kinds)
        BY <2>3, <2>7, KeptAppend
      <4> QED BY <2>3, <2>5, <4>1
    <3> QED BY <1>1, <1>2, <2>1, <2>3, <3>1, <3>2
  <2> QED BY <2>6, <2>7
<1>6. Seq(Block) \subseteq T
  BY <1>4, <1>5, ByAppend
<1> QED BY <1>1, <1>6

\* Every block of the kinds is kept.
LEMMA KeptHas ==
  ASSUME NEW s \in Seq(Block), NEW kinds
  PROVE  \A i \in DOMAIN s : s[i].kind \in kinds => \E k \in DOMAIN Kept(s, kinds) : Kept(s, kinds)[k] = s[i]
<1>1. PICK T : T = {r \in Seq(Block) : \A i \in DOMAIN r : r[i].kind \in kinds =>
                                       \E k \in DOMAIN Kept(r, kinds) : Kept(r, kinds)[k] = r[i]}
  OBVIOUS
<1>2. <<>> \in T
  <2>1. PICK none : none = <<>>
    OBVIOUS
  <2>2. none \in Seq(Block) /\ DOMAIN none = {}
    BY <2>1
  <2> QED BY <1>1, <2>1, <2>2
<1>3. ASSUME NEW r \in Seq(Block), NEW b \in Block, r \in T PROVE Append(r, b) \in T
  <2>1. PICK longer : longer = Append(r, b)
    OBVIOUS
  <2>2. PICK len : len = Len(r)
    OBVIOUS
  <2>3. /\ longer \in Seq(Block) /\ len \in Nat /\ DOMAIN r = 1..len /\ DOMAIN longer = 1..(len + 1)
        /\ \A i \in 1..len : longer[i] = r[i]
        /\ longer[len + 1] = b
    BY <2>1, <2>2, AppendProperties, LenProperties
  <2>4. PICK a : a = Kept(r, kinds)
    OBVIOUS
  <2>5. PICK m : m = Len(a)
    OBVIOUS
  <2>6. PICK c : c = Kept(longer, kinds)
    OBVIOUS
  <2>7. a \in Seq(Block) /\ m \in Nat /\ DOMAIN a = 1..m
    BY <2>4, <2>5, KeptAppend, LenProperties
  <2>8. \A i \in 1..len : r[i].kind \in kinds => \E k \in 1..m : a[k] = r[i]
    BY <1>1, <1>3, <2>3, <2>4, <2>7
  <2>9. \A i \in 1..(len + 1) : longer[i].kind \in kinds => \E k \in DOMAIN c : c[k] = longer[i]
    <3>1. CASE b.kind \in kinds
      <4>1. c = Append(a, b)
        BY <2>1, <2>4, <2>6, <3>1, KeptAppend
      <4>2. DOMAIN c = 1..(m + 1) /\ c[m + 1] = b /\ \A k \in 1..m : c[k] = a[k]
        BY <2>5, <2>7, <4>1, AppendProperties, LenProperties
      <4>3. ASSUME NEW i \in 1..(len + 1), longer[i].kind \in kinds PROVE \E k \in DOMAIN c : c[k] = longer[i]
        <5>1. CASE i = len + 1
          <6>1. m + 1 \in DOMAIN c /\ c[m + 1] = longer[i]
            BY <2>3, <2>7, <4>2, <5>1
          <6> QED BY <6>1
        <5>2. CASE i # len + 1
          <6>1. i \in 1..len
            BY <2>3, <5>2
          <6>2. PICK k \in 1..m : a[k] = r[i]
            BY <2>3, <2>8, <4>3, <6>1
          <6>3. k \in DOMAIN c /\ c[k] = longer[i]
            BY <2>3, <2>7, <4>2, <6>1, <6>2
          <6> QED BY <6>3
        <5> QED BY <5>1, <5>2
      <4> QED BY <4>3
    <3>2. CASE b.kind \notin kinds
      <4>1. c = a
        BY <2>1, <2>4, <2>6, <3>2, KeptAppend
      <4>2. ASSUME NEW i \in 1..(len + 1), longer[i].kind \in kinds PROVE \E k \in DOMAIN c : c[k] = longer[i]
        <5>1. i # len + 1
          BY <2>3, <3>2, <4>2
        <5>2. i \in 1..len
          BY <2>3, <5>1
        <5> QED BY <2>3, <2>7, <2>8, <4>1, <4>2, <5>2
      <4> QED BY <4>2
    <3> QED BY <3>1, <3>2
  <2> QED BY <1>1, <2>1, <2>3, <2>6, <2>9
<1>4. Seq(Block) \subseteq T
  BY <1>2, <1>3, ByAppend
<1> QED BY <1>1, <1>4

\* The ids of blocks, one by one.
LEMMA IdsOf ==
  ASSUME NEW s \in Seq(Block)
  PROVE  Ids(s) \in Seq(Nat) /\ Len(Ids(s)) = Len(s) /\ \A i \in 1..Len(s) : Ids(s)[i] = s[i].id
<1>1. PICK len : len = Len(s)
  OBVIOUS
<1>2. len \in Nat /\ DOMAIN s = 1..len /\ \A i \in 1..len : s[i] \in Block
  BY <1>1, LenProperties, ElementOfSeq
<1>3. \A i \in 1..len : s[i].id \in Nat
  BY <1>2 DEF Block
<1>4. PICK t : t = [i \in 1..len |-> s[i].id]
  OBVIOUS
<1>5. t \in Seq(Nat) /\ Len(t) = len
  BY <1>2, <1>3, <1>4
<1> QED BY <1>1, <1>2, <1>4, <1>5 DEF Ids

\* The ids of two sequences in a row.
LEMMA IdsConcat ==
  ASSUME NEW s \in Seq(Block), NEW t \in Seq(Block)
  PROVE  Ids(s \o t) = Ids(s) \o Ids(t)
<1>1. PICK both : both = s \o t
  OBVIOUS
<1>2. PICK m : m = Len(s)
  OBVIOUS
<1>3. PICK n : n = Len(t)
  OBVIOUS
<1>4. /\ m \in Nat /\ n \in Nat /\ both \in Seq(Block) /\ Len(both) = m + n
      /\ \A i \in 1..(m + n) : both[i] = IF i <= m THEN s[i] ELSE t[i - m]
  BY <1>1, <1>2, <1>3, ConcatProperties, LenProperties
<1>5. PICK a : a = Ids(s)
  OBVIOUS
<1>6. PICK b : b = Ids(t)
  OBVIOUS
<1>7. PICK c : c = Ids(both)
  OBVIOUS
<1>8. /\ a \in Seq(Nat) /\ Len(a) = m /\ b \in Seq(Nat) /\ Len(b) = n /\ c \in Seq(Nat) /\ Len(c) = m + n
      /\ \A i \in 1..m : a[i] = s[i].id
      /\ \A i \in 1..n : b[i] = t[i].id
      /\ \A i \in 1..(m + n) : c[i] = both[i].id
  BY <1>2, <1>3, <1>4, <1>5, <1>6, <1>7, IdsOf
<1>9. PICK d : d = a \o b
  OBVIOUS
<1>10. /\ d \in Seq(Nat) /\ Len(d) = m + n
       /\ \A i \in 1..(m + n) : d[i] = IF i <= m THEN a[i] ELSE b[i - m]
  BY <1>8, <1>9, ConcatProperties
<1>11. ASSUME NEW i \in 1..(m + n) PROVE c[i] = d[i]
  <2>1. CASE i <= m
    <3>1. i \in 1..m
      BY <1>4, <2>1
    <3>2. both[i] = s[i] /\ d[i] = a[i]
      BY <1>4, <1>10, <2>1
    <3>3. c[i] = both[i].id /\ a[i] = s[i].id
      BY <1>8, <3>1
    <3> QED BY <3>2, <3>3
  <2>2. CASE ~(i <= m)
    <3>1. i - m \in 1..n
      BY <1>4, <2>2
    <3>2. both[i] = t[i - m] /\ d[i] = b[i - m]
      BY <1>4, <1>10, <2>2
    <3>3. c[i] = both[i].id /\ b[i - m] = t[i - m].id
      BY <1>8, <3>1
    <3> QED BY <3>2, <3>3
  <2> QED BY <2>1, <2>2
<1>12. c = d
  BY <1>8, <1>10, <1>11, SeqEqual
<1> QED BY <1>1, <1>5, <1>6, <1>7, <1>9, <1>12

\* Whoever is waited for has been called, and they are finitely many.
LEMMA AwaitedCalled ==
  ASSUME NEW s \in Seq(Block)
  PROVE  /\ Awaited(s) \subseteq Nat /\ IsFiniteSet(Awaited(s))
         /\ Awaited(s) \subseteq ToSet(Ids(Kept(s, ToolKinds)))
<1>1. PICK len : len = Len(s)
  OBVIOUS
<1>2. len \in Nat /\ DOMAIN s = 1..len /\ \A i \in 1..len : s[i] \in Block
  BY <1>1, LenProperties, ElementOfSeq
<1>3. PICK wait : wait = Awaited(s)
  OBVIOUS
<1>4. \A x \in wait : \E i \in 1..len : s[i].kind = "tool_use" /\ x = s[i].id
  BY <1>2, <1>3 DEF Awaited, ToSet
<1>5. wait \subseteq Nat
  BY <1>2, <1>4 DEF Block
<1>6. IsFiniteSet(wait)
  <2>1. PICK ids : ids = Ids(s)
    OBVIOUS
  <2>2. ids \in Seq(Nat) /\ Len(ids) = len /\ \A i \in 1..len : ids[i] = s[i].id
    BY <1>1, <2>1, IdsOf
  <2>3. PICK all : all = {ids[i] : i \in 1..len}
    OBVIOUS
  <2>4. IsFiniteSet(1..len)
    BY <1>2, FS_Interval
  <2>5. DOMAIN ids = 1..len /\ ids \in [1..len -> all]
    BY <2>2, <2>3, LenProperties
  <2>6. ids \in Surjection(1..len, all)
    BY <2>3, <2>5 DEF Surjection
  <2>7. IsFiniteSet(all)
    BY <2>4, <2>6, FS_Surjection
  <2>8. wait \subseteq all
    BY <1>4, <2>2, <2>3
  <2> QED BY <2>7, <2>8, FS_Subset
<1>7. wait \subseteq ToSet(Ids(Kept(s, ToolKinds)))
  <2>1. PICK kinds : kinds = ToolKinds
    OBVIOUS
  <2>2. PICK a : a = Kept(s, kinds)
    OBVIOUS
  <2>3. PICK f : Keeping(f, s, kinds, len)
    BY <1>1, KeptSteps
  <2>4. a \in Seq(Block)
    BY <1>2, <2>2, <2>3 DEF Keeping
  <2>5. PICK ids : ids = Ids(a)
    OBVIOUS
  <2>6. ids \in Seq(Nat) /\ Len(ids) = Len(a) /\ \A i \in 1..Len(a) : ids[i] = a[i].id
    BY <2>4, <2>5, IdsOf
  <2>7. DOMAIN a = 1..Len(a) /\ DOMAIN ids = 1..Len(a)
    BY <2>4, <2>6, LenProperties
  <2>8. ASSUME NEW x \in wait PROVE x \in ToSet(ids)
    <3>1. PICK i \in 1..len : s[i].kind = "tool_use" /\ x = s[i].id
      BY <1>4
    <3>2. s[i].kind \in kinds
      BY <2>1, <3>1 DEF ToolKinds
    <3>3. PICK k \in DOMAIN a : a[k] = s[i]
      BY <1>2, <2>2, <3>2, KeptHas
    <3>4. k \in DOMAIN ids /\ ids[k] = x
      BY <2>6, <2>7, <3>1, <3>3
    <3> QED BY <3>4 DEF ToSet
  <2> QED BY <2>1, <2>2, <2>5, <2>8
<1> QED BY <1>3, <1>5, <1>6, <1>7

-----------------------------------------------------------------------------
(***************************************************************************)
(* The texts of messages.                                                  *)
(***************************************************************************)
FlatUpTo(f, s, len) == f = [i \in 1..len |-> IF i = 1 THEN s[i] ELSE f[i - 1] \o s[i]]

Flattening(f, s, len) ==
  /\ f[len] = FlattenSeq(s) /\ f[1] = s[1]
  /\ \A i \in 1..len : f[i] \in Seq(Nat)
  /\ \A i \in 2..len : f[i] = f[i - 1] \o s[i]

\* The recursion of FlattenSeq has a solution.
LEMMA FlatExists ==
  ASSUME NEW s \in Seq(Seq(Nat)), NEW len \in Nat, len = Len(s) PROVE \E f : FlatUpTo(f, s, len)
<1>1. \A n \in 1..len : s[n] \in Seq(Nat)
  BY ElementOfSeq
<1>2. PICK V : V = Seq(Nat)
  OBVIOUS
<1>3. PICK base : base = <<>>
  OBVIOUS
<1>4. base \in V
  BY <1>2, <1>3, EmptySeq
<1>5. PICK g : g = [n \in Nat |-> [v \in V |-> IF n \in 1..len THEN v \o s[n] ELSE v]]
  OBVIOUS
<1>6. g \in [Nat -> [V -> V]]
  <2>1. ASSUME NEW n \in Nat, NEW v \in V PROVE (IF n \in 1..len THEN v \o s[n] ELSE v) \in V
    <3>1. CASE n \in 1..len
      <4>1. v \o s[n] \in V
        BY <1>1, <1>2, <3>1, ConcatProperties
      <4> QED BY <3>1, <4>1
    <3>2. CASE n \notin 1..len
      BY <3>2
    <3> QED BY <3>1, <3>2
  <2> QED BY <1>5, <2>1
<1>7. PICK f : Runs(f, V, base, g, len)
  BY <1>4, <1>6, Recursion
<1>8. f \in [0..len -> V] /\ f[0] = base /\ \A n \in 1..len : f[n] = g[n][f[n - 1]]
  BY <1>7 DEF Runs
<1>9. ASSUME NEW n \in 1..len PROVE f[n] = f[n - 1] \o s[n]
  <2>1. n - 1 \in 0..len /\ n \in Nat
    OBVIOUS
  <2>2. PICK v : v = f[n - 1]
    OBVIOUS
  <2>3. v \in V
    BY <1>8, <2>1, <2>2
  <2>4. g[n][v] = v \o s[n]
    BY <1>5, <2>1, <2>3
  <2> QED BY <1>8, <2>2, <2>4
<1>10. PICK h : h = [i \in 1..len |-> f[i]]
  OBVIOUS
<1>11. ASSUME NEW i \in 1..len PROVE h[i] = IF i = 1 THEN s[i] ELSE h[i - 1] \o s[i]
  <2>1. CASE i = 1
    <3>1. f[1] = base \o s[1]
      <4>1. 1 \in 1..len /\ 1 - 1 = 0
        BY <2>1
      <4> QED BY <1>8, <1>9, <4>1
    <3>2. s[1] \in Seq(Nat)
      BY <1>1, <2>1
    <3>3. base \o s[1] = s[1]
      BY <1>3, <3>2, ConcatEmptySeq
    <3> QED BY <1>10, <2>1, <3>1, <3>3
  <2>2. CASE i # 1
    <3>1. i - 1 \in 1..len
      BY <2>2
    <3> QED BY <1>9, <1>10, <2>2, <3>1
  <2> QED BY <2>1, <2>2
<1>12. h = [i \in 1..len |-> h[i]]
  BY <1>10
<1>13. FlatUpTo(h, s, len)
  BY <1>11, <1>12 DEF FlatUpTo
<1> QED BY <1>13

\* FlattenSeq is where its recursion ends.
LEMMA FlatSteps ==
  ASSUME NEW s \in Seq(Seq(Nat)), NEW len \in Nat, len = Len(s), len # 0 PROVE \E f : Flattening(f, s, len)
<1>1. \A n \in 1..len : s[n] \in Seq(Nat)
  BY ElementOfSeq
<1>2. PICK f : f = CHOOSE g : FlatUpTo(g, s, len)
  OBVIOUS
<1>3. FlatUpTo(f, s, len)
  BY <1>2, FlatExists
<1>4. f[len] = FlattenSeq(s)
  BY <1>2 DEF FlattenSeq, FlatUpTo
<1>5. \A i \in 1..len : f[i] = IF i = 1 THEN s[i] ELSE f[i - 1] \o s[i]
  BY <1>3 DEF FlatUpTo
<1>6. f[1] = s[1]
  BY <1>5
<1>7. \A i \in 2..len : f[i] = f[i - 1] \o s[i]
  <2>1. \A i \in 2..len : i \in 1..len /\ i # 1
    OBVIOUS
  <2> QED BY <1>5, <2>1
<1>8. PICK T : T = {n \in Nat : n \in 1..len => f[n] \in Seq(Nat)}
  OBVIOUS
<1>9. 0 \in T
  BY <1>8
<1>10. ASSUME NEW n \in Nat, n \in T PROVE n + 1 \in T
  <2>1. SUFFICES ASSUME n + 1 \in 1..len PROVE f[n + 1] \in Seq(Nat)
    BY <1>8
  <2>2. CASE n = 0
    BY <1>1, <1>6, <2>1, <2>2
  <2>3. CASE n # 0
    <3>1. n \in 1..len /\ n + 1 \in 2..len /\ (n + 1) - 1 = n
      BY <2>1, <2>3
    <3>2. f[n] \in Seq(Nat) /\ s[n + 1] \in Seq(Nat)
      BY <1>1, <1>8, <1>10, <2>1, <3>1
    <3>3. f[n + 1] = f[n] \o s[n + 1]
      BY <1>7, <3>1
    <3> QED BY <3>2, <3>3, ConcatProperties
  <2> QED BY <2>2, <2>3
<1>11. \A n \in 1..len : f[n] \in Seq(Nat)
  <2>1. Nat \subseteq T
    BY <1>9, <1>10, FromZero
  <2> QED BY <1>8, <2>1
<1> QED BY <1>4, <1>6, <1>7, <1>11 DEF Flattening

\* Flattening one sequence more.
LEMMA FlatAppend ==
  ASSUME NEW s \in Seq(Seq(Nat)), NEW x \in Seq(Nat)
  PROVE  FlattenSeq(s) \in Seq(Nat) /\ FlattenSeq(Append(s, x)) = FlattenSeq(s) \o x
<1>1. PICK len : len = Len(s)
  OBVIOUS
<1>2. PICK t : t = Append(s, x)
  OBVIOUS
<1>3. PICK more : more = len + 1
  OBVIOUS
<1>4. /\ len \in Nat /\ more \in Nat /\ more # 0 /\ t \in Seq(Seq(Nat)) /\ Len(t) = more
      /\ \A n \in 1..len : t[n] = s[n]
      /\ t[more] = x
  BY <1>1, <1>2, <1>3, LenProperties, AppendProperties
<1>5. PICK g : Flattening(g, t, more)
  BY <1>4, FlatSteps
<1>6. /\ g[more] = FlattenSeq(t) /\ g[1] = t[1] /\ \A i \in 2..more : g[i] = g[i - 1] \o t[i]
  BY <1>5 DEF Flattening
<1>7. CASE len = 0
  <2>1. s = <<>>
    BY <1>1, <1>7, EmptySeq
  <2>2. FlattenSeq(s) = s
    BY <1>1, <1>7 DEF FlattenSeq
  <2>3. PICK none : none = <<>>
    OBVIOUS
  <2>4. none \in Seq(Nat) /\ none \o x = x
    BY <2>3, EmptySeq, ConcatEmptySeq
  <2>5. FlattenSeq(t) = x
    BY <1>3, <1>4, <1>6, <1>7
  <2> QED BY <1>2, <2>1, <2>2, <2>3, <2>4, <2>5
<1>8. CASE len # 0
  <2>1. PICK f : Flattening(f, s, len)
    BY <1>1, <1>4, <1>8, FlatSteps
  <2>2. /\ f[len] = FlattenSeq(s) /\ f[1] = s[1] /\ \A i \in 1..len : f[i] \in Seq(Nat)
        /\ \A i \in 2..len : f[i] = f[i - 1] \o s[i]
    BY <2>1 DEF Flattening
  <2>3. PICK T : T = {n \in Nat : n \in 1..len => f[n] = g[n]}
    OBVIOUS
  <2>4. 0 \in T
    BY <2>3
  <2>5. ASSUME NEW n \in Nat, n \in T PROVE n + 1 \in T
    <3>1. SUFFICES ASSUME n + 1 \in 1..len PROVE f[n + 1] = g[n + 1]
      BY <2>3
    <3>2. CASE n = 0
      BY <1>4, <1>6, <2>2, <3>1, <3>2
    <3>3. CASE n # 0
      <4>1. n \in 1..len /\ n + 1 \in 2..len /\ n + 1 \in 2..more /\ (n + 1) - 1 = n
        BY <1>3, <1>4, <3>1, <3>3
      <4>2. f[n] = g[n] /\ t[n + 1] = s[n + 1]
        BY <1>4, <2>3, <2>5, <3>1, <4>1
      <4> QED BY <1>6, <2>2, <4>1, <4>2
    <3> QED BY <3>2, <3>3
  <2>6. f[len] = g[len]
    <3>1. Nat \subseteq T
      BY <2>4, <2>5, FromZero
    <3>2. len \in 1..len
      BY <1>4, <1>8
    <3> QED BY <1>4, <2>3, <3>1, <3>2
  <2>7. g[more] = g[len] \o x
    <3>1. more \in 2..more /\ more - 1 = len
      BY <1>3, <1>4, <1>8
    <3> QED BY <1>4, <1>6, <3>1
  <2>8. f[len] \in Seq(Nat)
    BY <1>4, <1>8, <2>2
  <2> QED BY <1>2, <1>6, <2>2, <2>6, <2>7, <2>8
<1> QED BY <1>7, <1>8

Msg ==
  [role: {"assistant", "user", "tool"}, parts: Seq(Nat), calls: Seq(Nat), result: Nat, reasoning: BOOLEAN]

\* The texts of one message more.
LEMMA TextsAppend ==
  ASSUME NEW s \in Seq(Msg), NEW m \in Msg
  PROVE  TextsOf(s) \in Seq(Nat) /\ TextsOf(Append(s, m)) = TextsOf(s) \o m.parts
<1>1. PICK len : len = Len(s)
  OBVIOUS
<1>2. PICK t : t = Append(s, m)
  OBVIOUS
<1>3. /\ len \in Nat /\ DOMAIN s = 1..len /\ DOMAIN t = 1..(len + 1)
      /\ \A i \in 1..len : t[i] = s[i] /\ s[i] \in Msg
      /\ t[len + 1] = m
  BY <1>1, <1>2, AppendProperties, LenProperties, ElementOfSeq
<1>4. m.parts \in Seq(Nat) /\ \A i \in 1..len : s[i].parts \in Seq(Nat)
  BY <1>3 DEF Msg
<1>5. PICK a : a = [i \in 1..len |-> s[i].parts]
  OBVIOUS
<1>6. PICK b : b = [i \in 1..(len + 1) |-> t[i].parts]
  OBVIOUS
<1>7. a \in Seq(Seq(Nat)) /\ Len(a) = len
  BY <1>3, <1>4, <1>5
<1>8. b \in Seq(Seq(Nat)) /\ Len(b) = len + 1
  <2>1. \A i \in 1..(len + 1) : i \in 1..len \/ i = len + 1
    BY <1>3
  <2>2. \A i \in 1..(len + 1) : t[i].parts \in Seq(Nat)
    BY <1>3, <1>4, <2>1
  <2> QED BY <1>3, <1>6, <2>2
<1>9. PICK c : c = Append(a, m.parts)
  OBVIOUS
<1>10. /\ c \in Seq(Seq(Nat)) /\ Len(c) = len + 1 /\ \A i \in 1..len : c[i] = a[i]
       /\ c[len + 1] = m.parts
  BY <1>4, <1>7, <1>9, AppendProperties
<1>11. ASSUME NEW i \in 1..(len + 1) PROVE b[i] = c[i]
  <2>1. CASE i = len + 1
    BY <1>3, <1>6, <1>10, <2>1
  <2>2. CASE i # len + 1
    <3>1. i \in 1..len
      BY <1>3, <2>2
    <3> QED BY <1>3, <1>5, <1>6, <1>10, <3>1
  <2> QED BY <2>1, <2>2
<1>12. b = c
  BY <1>8, <1>10, <1>11, SeqEqual
<1>13. TextsOf(s) = FlattenSeq(a) /\ TextsOf(t) = FlattenSeq(b)
  BY <1>3, <1>5, <1>6 DEF TextsOf
<1>14. FlattenSeq(a) \in Seq(Nat) /\ FlattenSeq(c) = FlattenSeq(a) \o m.parts
  BY <1>4, <1>7, <1>9, FlatAppend
<1> QED BY <1>2, <1>12, <1>13, <1>14

\* No messages have no texts.
LEMMA TextsEmpty == TextsOf(<<>>) = <<>>
<1>1. PICK s : s = <<>>
  OBVIOUS
<1>2. PICK a : a = [i \in DOMAIN s |-> s[i].parts]
  OBVIOUS
<1>3. DOMAIN s = {}
  BY <1>1
<1>4. a = s
  BY <1>1, <1>2, <1>3
<1>5. Len(a) = 0
  BY <1>1, <1>4
<1>6. TextsOf(s) = a
  BY <1>2, <1>5 DEF TextsOf, FlattenSeq
<1> QED BY <1>1, <1>4, <1>6

\* The texts that were replayed, and those that came.
Faithful(texts, fed, early) ==
  /\ ~early => texts = fed
  /\ Len(texts) = Len(fed) /\ ToSet(texts) = ToSet(fed)

\* Length and elements of two sequences in a row.
LEMMA ToSetConcat ==
  ASSUME NEW s \in Seq(Nat), NEW t \in Seq(Nat)
  PROVE  s \o t \in Seq(Nat) /\ Len(s \o t) = Len(s) + Len(t) /\ ToSet(s \o t) = ToSet(s) \cup ToSet(t)
<1>1. ToSet(s) = Range(s) /\ ToSet(t) = Range(t) /\ ToSet(s \o t) = Range(s \o t)
  BY DEF ToSet, Range
<1> QED BY <1>1, ConcatProperties, RangeConcatenation

\* What comes and is replayed after all the rest keeps the replay faithful.
LEMMA AddedAtEnd ==
  ASSUME NEW a \in Seq(Nat), NEW d \in Seq(Nat), NEW fed \in Seq(Nat), NEW early, Faithful(a, fed, early)
  PROVE  Faithful(a \o d, fed \o d, early)
<1>1. /\ Len(a \o d) = Len(a) + Len(d) /\ ToSet(a \o d) = ToSet(a) \cup ToSet(d)
      /\ Len(fed \o d) = Len(fed) + Len(d) /\ ToSet(fed \o d) = ToSet(fed) \cup ToSet(d)
  BY ToSetConcat
<1>2. ~early => a = fed
  BY DEF Faithful
<1>3. Len(a) = Len(fed) /\ ToSet(a) = ToSet(fed)
  BY DEF Faithful
<1> QED BY <1>1, <1>2, <1>3 DEF Faithful

\* What is replayed before waiting text is early, and nothing is lost.
LEMMA AddedBefore ==
  ASSUME NEW a \in Seq(Nat), NEW w \in Seq(Nat), NEW d \in Seq(Nat), NEW fed \in Seq(Nat), NEW early,
         Faithful(a \o w, fed, early)
  PROVE  Faithful((a \o d) \o w, fed \o d, TRUE)
<1>1. PICK ad : ad = a \o d
  OBVIOUS
<1>2. ad \in Seq(Nat)
  BY <1>1, ToSetConcat
<1>3. /\ Len(a \o w) = Len(a) + Len(w) /\ ToSet(a \o w) = ToSet(a) \cup ToSet(w)
      /\ Len(ad) = Len(a) + Len(d) /\ ToSet(ad) = ToSet(a) \cup ToSet(d)
      /\ Len(ad \o w) = Len(ad) + Len(w) /\ ToSet(ad \o w) = ToSet(ad) \cup ToSet(w)
      /\ Len(fed \o d) = Len(fed) + Len(d) /\ ToSet(fed \o d) = ToSet(fed) \cup ToSet(d)
  BY <1>1, <1>2, ToSetConcat
<1>4. Len(a \o w) = Len(fed) /\ ToSet(a \o w) = ToSet(fed)
  BY DEF Faithful
<1>5. Len(a) \in Nat /\ Len(w) \in Nat /\ Len(d) \in Nat
  BY LenProperties
<1>6. Len(ad \o w) = Len(fed \o d)
  <2>1. PICK la : la = Len(a)
    OBVIOUS
  <2>2. PICK lw : lw = Len(w)
    OBVIOUS
  <2>3. PICK ld : ld = Len(d)
    OBVIOUS
  <2>4. la \in Nat /\ lw \in Nat /\ ld \in Nat
    BY <1>5, <2>1, <2>2, <2>3
  <2>5. (la + ld) + lw = (la + lw) + ld
    BY <2>4
  <2>6. Len(ad \o w) = (la + ld) + lw
    BY <1>3, <2>1, <2>2, <2>3
  <2>7. Len(fed \o d) = (la + lw) + ld
    BY <1>3, <1>4, <2>1, <2>2, <2>3
  <2> QED BY <2>5, <2>6, <2>7
<1>7. ToSet(ad \o w) = ToSet(fed \o d)
  BY <1>3, <1>4
<1> QED BY <1>1, <1>6, <1>7 DEF Faithful

-----------------------------------------------------------------------------
(***************************************************************************)
(* What waits, and what it becomes.                                        *)
(***************************************************************************)
Pend == [blocks: Seq(Block), top: BOOLEAN, remaining: SUBSET Nat]

Held(pending) == pending \subseteq Pend /\ \A p, q \in pending : p = q

WaitingText(pending) == TextsOf(Released(pending))

\* The empty set as a sequence.
LEMMA NoneInSeq == SetToSeq({}) = <<>>
<1>1. PICK S : S = {}
  OBVIOUS
<1>2. Cardinality(S) = 0
  BY <1>1, FS_EmptySet
<1>3. PICK none : none = <<>>
  OBVIOUS
<1>4. DOMAIN none = {} /\ none \in [{} -> S] /\ 1..0 = {}
  BY <1>1, <1>3
<1>5. none \in [1..0 -> S] /\ IsInjective(none)
  BY <1>4 DEF IsInjective
<1>6. PICK f : f = SetToSeq(S)
  OBVIOUS
<1>7. f \in [1..0 -> S]
  BY <1>2, <1>5, <1>6 DEF SetToSeq
<1>8. f = none
  BY <1>4, <1>7
<1> QED BY <1>1, <1>3, <1>6, <1>8

\* A singleton as a sequence.
LEMMA OneInSeq == ASSUME NEW x PROVE SetToSeq({x}) = <<x>>
<1>1. PICK S : S = {x}
  OBVIOUS
<1>2. Cardinality(S) = 1
  BY <1>1, FS_Singleton
<1>3. PICK one : one = [i \in 1..1 |-> x]
  OBVIOUS
<1>4. one \in [1..1 -> S] /\ IsInjective(one)
  BY <1>1, <1>3 DEF IsInjective
<1>5. PICK f : f = SetToSeq(S)
  OBVIOUS
<1>6. f \in [1..1 -> S]
  BY <1>2, <1>4, <1>5 DEF SetToSeq
<1>7. f[1] = x /\ f = [i \in 1..1 |-> f[i]]
  BY <1>1, <1>6
<1>8. f = <<x>>
  BY <1>7
<1> QED BY <1>1, <1>5, <1>8

\* What is kept of blocks are blocks.
LEMMA KeptTyped == ASSUME NEW s \in Seq(Block), NEW kinds PROVE Kept(s, kinds) \in Seq(Block)
<1>1. PICK len : len = Len(s)
  OBVIOUS
<1>2. len \in 0..len
  BY <1>1, LenProperties
<1>3. PICK f : Keeping(f, s, kinds, len)
  BY <1>1, KeptSteps
<1> QED BY <1>2, <1>3 DEF Keeping

\* An assistant message that holds blocks, with the calls given.
Speech(m, parts, calls) ==
  m \in Msg /\ m.role = "assistant" /\ m.parts = parts /\ m.calls = calls /\ m.result = 0

\* The message of an assistant has its parts and no calls.
LEMMA Spoken ==
  ASSUME NEW parts \in Seq(Nat), NEW reasoning \in BOOLEAN, NEW m,
         m = [Message("assistant", parts) EXCEPT !.reasoning = reasoning]
  PROVE  Speech(m, parts, <<>>)
<1>1. PICK none : none = <<>>
  OBVIOUS
<1>2. none \in Seq(Nat)
  BY <1>1, EmptySeq
<1>3. PICK role : role = "assistant"
  OBVIOUS
<1>4. m = [role |-> role, parts |-> parts, calls |-> none, result |-> 0, reasoning |-> reasoning]
  BY <1>1, <1>3 DEF Message
<1>5. role \in {"assistant", "user", "tool"}
  BY <1>3
<1>6. PICK zero : zero = 0
  OBVIOUS
<1>7. m = [role |-> role, parts |-> parts, calls |-> none, result |-> zero, reasoning |-> reasoning] /\ zero \in Nat
  BY <1>4, <1>6
<1>8. m \in Msg
  <2>1. PICK R : R = {"assistant", "user", "tool"}
    OBVIOUS
  <2>2. PICK P : P = Seq(Nat)
    OBVIOUS
  <2>3. PICK B : B = BOOLEAN
    OBVIOUS
  <2>4. Msg = [role: R, parts: P, calls: P, result: Nat, reasoning: B]
    BY <2>1, <2>2, <2>3 DEF Msg
  <2>5. role \in R /\ parts \in P /\ none \in P /\ reasoning \in B
    BY <1>2, <1>5, <2>1, <2>2, <2>3
  <2>6. m \in [role: R, parts: P, calls: P, result: Nat, reasoning: B]
    BY <1>7, <2>5
  <2> QED BY <2>4, <2>6
<1>9. m.role = role /\ m.parts = parts /\ m.calls = none /\ m.result = zero
  BY <1>7
<1> QED BY <1>1, <1>3, <1>6, <1>8, <1>9 DEF Speech

\* The calls are added to it.
LEMMA SpokenWithCalls ==
  ASSUME NEW pre, NEW parts \in Seq(Nat), NEW calls \in Seq(Nat), NEW none, Speech(pre, parts, none),
         NEW m, m = [pre EXCEPT !.calls = calls]
  PROVE  Speech(m, parts, calls)
<1>1. pre \in Msg /\ pre.role = "assistant" /\ pre.parts = parts /\ pre.result = 0
  BY DEF Speech
<1>2. m \in Msg /\ m.role = pre.role /\ m.parts = pre.parts /\ m.result = pre.result /\ m.calls = calls
  BY <1>1 DEF Msg
<1> QED BY <1>1, <1>2 DEF Speech

\* _convert_assistant_message keeps the texts of the replay mode.
LEMMA ConvertIs ==
  ASSUME NEW blocks \in Seq(Block), NEW top \in BOOLEAN
  PROVE  Speech(ConvertAssistant(blocks, top), Ids(Kept(blocks, TextKinds)), <<>>)
<1>1. PICK parts : parts = Ids(Kept(blocks, TextKinds))
  OBVIOUS
<1>2. parts \in Seq(Nat)
  BY <1>1, KeptTyped, IdsOf
<1>3. PICK thinking : thinking = (\E i \in DOMAIN blocks : blocks[i].kind = "thinking")
  OBVIOUS
<1>4. PICK reasoning : reasoning = (cvMode.replay = "reasoning_content" /\ (top \/ thinking))
  OBVIOUS
<1>5. reasoning \in BOOLEAN
  BY <1>4
<1>6. PICK m : m = ConvertAssistant(blocks, top)
  OBVIOUS
<1>7. m = [Message("assistant", parts) EXCEPT !.reasoning = reasoning]
  BY <1>1, <1>3, <1>4, <1>6 DEF ConvertAssistant
<1>8. Speech(m, parts, <<>>)
  BY <1>2, <1>5, <1>7, Spoken
<1> QED BY <1>1, <1>6, <1>8

\* The deferred text of one pending record is one message.
LEMMA ReleasedOne ==
  ASSUME NEW p \in Pend, NEW pending, pending = {p}
  PROVE  /\ Released(pending) = <<ConvertAssistant(p.blocks, p.top)>>
         /\ Speech(ConvertAssistant(p.blocks, p.top), WaitingText(pending), <<>>)
         /\ WaitingText(pending) = Ids(Kept(p.blocks, TextKinds))
         /\ WaitingText(pending) \in Seq(Nat)
<1>1. p.blocks \in Seq(Block) /\ p.top \in BOOLEAN
  BY DEF Pend
<1>2. PICK m : m = ConvertAssistant(p.blocks, p.top)
  OBVIOUS
<1>3. PICK parts : parts = Ids(Kept(p.blocks, TextKinds))
  OBVIOUS
<1>4. Speech(m, parts, <<>>) /\ parts \in Seq(Nat)
  BY <1>1, <1>2, <1>3, ConvertIs, KeptTyped, IdsOf
<1>5. Deferred(pending) = {m}
  BY <1>2 DEF Deferred
<1>6. Released(pending) = <<m>>
  BY <1>5, OneInSeq DEF Released
<1>7. WaitingText(pending) = parts
  <2>1. PICK none : none = <<>>
    OBVIOUS
  <2>2. none \in Seq(Msg) /\ <<m>> = Append(none, m)
    BY <2>1
  <2>3. m \in Msg /\ m.parts = parts
    BY <1>4 DEF Speech
  <2>4. TextsOf(Append(none, m)) = TextsOf(none) \o parts
    BY <2>2, <2>3, TextsAppend
  <2>5. TextsOf(none) = none
    BY <2>1, TextsEmpty
  <2>6. none \o parts = parts
    BY <1>4, <2>1, ConcatEmptySeq
  <2> QED BY <1>6, <2>2, <2>4, <2>5, <2>6 DEF WaitingText
<1> QED BY <1>2, <1>3, <1>4, <1>6, <1>7

\* If nothing waits, nothing is released.
LEMMA ReleasedNone == Released({}) = <<>> /\ WaitingText({}) = <<>>
<1>1. PICK S : S = {}
  OBVIOUS
<1>2. Deferred(S) = {}
  BY <1>1 DEF Deferred
<1>3. Released(S) = <<>>
  BY <1>2, NoneInSeq DEF Released
<1>4. WaitingText(S) = <<>>
  BY <1>3, TextsEmpty DEF WaitingText
<1> QED BY <1>1, <1>3, <1>4

\* At most one record waits.
LEMMA HeldIs == ASSUME NEW pending, Held(pending) PROVE pending = {} \/ \E p \in Pend : pending = {p}
BY DEF Held

\* The answers of those in open may come next.
Asked(out, open) ==
  \E j \in DOMAIN out : open \subseteq ToSet(out[j].calls) /\ \A k \in (j + 1)..Len(out) : out[k].role = "tool"

\* A message that is no result leaves the results where they were.
LEMMA FollowsOn ==
  ASSUME NEW out \in Seq(Msg), NEW m \in Msg, ResultsFollow(out), m.result = 0
  PROVE  Append(out, m) \in Seq(Msg) /\ ResultsFollow(Append(out, m))
<1>1. PICK len : len = Len(out)
  OBVIOUS
<1>2. PICK t : t = Append(out, m)
  OBVIOUS
<1>3. /\ len \in Nat /\ t \in Seq(Msg) /\ DOMAIN out = 1..len /\ DOMAIN t = 1..(len + 1)
      /\ \A i \in 1..len : t[i] = out[i]
      /\ t[len + 1] = m
  BY <1>1, <1>2, AppendProperties, LenProperties
<1>4. ASSUME NEW i \in 1..(len + 1), t[i].result # 0
      PROVE  \E j \in 1..(i - 1) : t[i].result \in ToSet(t[j].calls) /\ \A k \in (j + 1)..(i - 1) : t[k].role = "tool"
  <2>1. i \in 1..len
    BY <1>3, <1>4
  <2>2. PICK j \in 1..(i - 1) : /\ out[i].result \in ToSet(out[j].calls)
                                /\ \A k \in (j + 1)..(i - 1) : out[k].role = "tool"
    BY <1>3, <1>4, <2>1 DEF ResultsFollow
  <2>3. j \in 1..len /\ \A k \in (j + 1)..(i - 1) : k \in 1..len
    BY <1>3, <2>1
  <2>4. t[i] = out[i] /\ t[j] = out[j] /\ \A k \in (j + 1)..(i - 1) : t[k] = out[k]
    BY <1>3, <2>1, <2>3
  <2> QED BY <2>2, <2>4
<1> QED BY <1>2, <1>3, <1>4 DEF ResultsFollow

\* A result right behind the message with its call, or behind other results.
LEMMA ResultNext ==
  ASSUME NEW out \in Seq(Msg), NEW m \in Msg, NEW open, ResultsFollow(out), Asked(out, open),
         m.result \in open, m.role = "tool"
  PROVE  Append(out, m) \in Seq(Msg) /\ ResultsFollow(Append(out, m)) /\ Asked(Append(out, m), open)
<1>1. PICK len : len = Len(out)
  OBVIOUS
<1>2. PICK t : t = Append(out, m)
  OBVIOUS
<1>3. /\ len \in Nat /\ t \in Seq(Msg) /\ DOMAIN out = 1..len /\ DOMAIN t = 1..(len + 1) /\ Len(t) = len + 1
      /\ \A i \in 1..len : t[i] = out[i]
      /\ t[len + 1] = m
  BY <1>1, <1>2, AppendProperties, LenProperties
<1>4. PICK a \in 1..len : open \subseteq ToSet(out[a].calls) /\ \A k \in (a + 1)..len : out[k].role = "tool"
  BY <1>1, <1>3 DEF Asked
<1>5. t[a] = out[a] /\ \A k \in (a + 1)..len : k \in 1..len /\ t[k] = out[k]
  BY <1>3, <1>4
<1>6. ASSUME NEW i \in 1..(len + 1), t[i].result # 0
      PROVE  \E j \in 1..(i - 1) : t[i].result \in ToSet(t[j].calls) /\ \A k \in (j + 1)..(i - 1) : t[k].role = "tool"
  <2>1. CASE i = len + 1
    <3>1. a \in 1..(i - 1) /\ i - 1 = len
      BY <1>3, <2>1
    <3>2. t[i].result \in ToSet(t[a].calls)
      BY <1>3, <1>4, <1>5, <2>1
    <3> QED BY <1>4, <1>5, <3>1, <3>2
  <2>2. CASE i \in 1..len
    <3>1. PICK j \in 1..(i - 1) : /\ out[i].result \in ToSet(out[j].calls)
                                  /\ \A k \in (j + 1)..(i - 1) : out[k].role = "tool"
      BY <1>3, <1>6, <2>2 DEF ResultsFollow
    <3>2. j \in 1..len /\ \A k \in (j + 1)..(i - 1) : k \in 1..len
      BY <1>3, <2>2
    <3>3. t[i] = out[i] /\ t[j] = out[j] /\ \A k \in (j + 1)..(i - 1) : t[k] = out[k]
      BY <1>3, <2>2, <3>2
    <3> QED BY <3>1, <3>3
  <2> QED BY <1>3, <2>1, <2>2
<1>7. ResultsFollow(t)
  BY <1>3, <1>6 DEF ResultsFollow
<1>8. Asked(t, open)
  <2>1. a \in DOMAIN t /\ open \subseteq ToSet(t[a].calls)
    BY <1>3, <1>4, <1>5
  <2>2. ASSUME NEW k \in (a + 1)..Len(t) PROVE t[k].role = "tool"
    <3>1. k = len + 1 \/ k \in (a + 1)..len
      BY <1>3
    <3> QED BY <1>3, <1>4, <1>5, <3>1
  <2> QED BY <2>1, <2>2 DEF Asked
<1> QED BY <1>2, <1>3, <1>7, <1>8

\* Everything that waits is released.
LEMMA ReleaseAll ==
  ASSUME NEW out \in Seq(Msg), NEW pending, Held(pending), ResultsFollow(out)
  PROVE  LET all == out \o Released(pending)
         IN  /\ all \in Seq(Msg) /\ ResultsFollow(all) /\ TextsOf(all) = TextsOf(out) \o WaitingText(pending)
             /\ WaitingText(pending) \in Seq(Nat) /\ TextsOf(out) \in Seq(Nat) /\ TextsOf(all) \in Seq(Nat)
<1>0. \A s \in Seq(Msg) : TextsOf(s) \in Seq(Nat)
  <2>1. PICK m : m \in Msg
    <3>1. PICK none : none = <<>>
      OBVIOUS
    <3>2. none \in Seq(Nat)
      BY <3>1, EmptySeq
    <3>3. PICK m : m = [role |-> "user", parts |-> none, calls |-> none, result |-> 0, reasoning |-> FALSE]
      OBVIOUS
    <3>4. m \in Msg
      BY <3>2, <3>3 DEF Msg
    <3> QED BY <3>4
  <2> QED BY <2>1, TextsAppend
<1>1. PICK all : all = out \o Released(pending)
  OBVIOUS
<1>2. CASE pending = {}
  <2>1. PICK none : none = <<>>
    OBVIOUS
  <2>2. Released(pending) = none /\ WaitingText(pending) = none
    BY <1>2, <2>1, ReleasedNone
  <2>3. all = out /\ TextsOf(out) \o none = TextsOf(out) /\ none \in Seq(Nat)
    BY <1>0, <1>1, <2>1, <2>2, ConcatEmptySeq, EmptySeq
  <2> QED BY <1>0, <1>1, <2>2, <2>3
<1>3. ASSUME NEW p \in Pend, pending = {p} PROVE
        /\ all \in Seq(Msg) /\ ResultsFollow(all) /\ TextsOf(all) = TextsOf(out) \o WaitingText(pending)
        /\ WaitingText(pending) \in Seq(Nat)
  <2>1. PICK m : m = ConvertAssistant(p.blocks, p.top)
    OBVIOUS
  <2>2. PICK w : w = WaitingText(pending)
    OBVIOUS
  <2>3. Released(pending) = <<m>> /\ Speech(m, w, <<>>) /\ w \in Seq(Nat)
    BY <1>3, <2>1, <2>2, ReleasedOne
  <2>4. m \in Msg /\ m.parts = w /\ m.result = 0
    BY <2>3 DEF Speech
  <2>5. all = Append(out, m)
    BY <1>1, <2>3, <2>4, AppendIsConcat
  <2> QED BY <2>2, <2>3, <2>4, <2>5, FollowsOn, TextsAppend
<1> QED BY <1>0, <1>1, <1>2, <1>3, HeldIs

-----------------------------------------------------------------------------
(***************************************************************************)
(* The invariant of the conversion.                                        *)
(***************************************************************************)
Fed == [n: Nat, next: Nat, texts: Seq(Nat), open: SUBSET Nat, early: BOOLEAN]

\* Those that are still waited for were called last, and the text that waits,
\* waits for them.
Answerable(out, pending, open) ==
  open # {} => Asked(out, open) /\ \A p \in pending : p.remaining = open

Conversing(out, pending, fed) ==
  /\ out \in Seq(Msg) /\ Held(pending) /\ ResultsFollow(out)
  /\ fed \in Fed /\ IsFiniteSet(fed.open)
  /\ Faithful(TextsOf(out) \o WaitingText(pending), fed.texts, fed.early)
  /\ Answerable(out, pending, fed.open)

ReplayInv ==
  /\ cvMode \in [replay : ReplayModes, raised : BOOLEAN]
  /\ Conversing(cvOut, cvPending, cvFed)

\* The conversion depends on the replay mode only.
LEMMA ConvertSame ==
  ASSUME cvMode'.replay = cvMode.replay, NEW blocks, NEW top
  PROVE  ConvertAssistant(blocks, top)' = ConvertAssistant(blocks, top)
<1>1. TextKinds' = TextKinds
  BY DEF TextKinds
<1> QED BY <1>1 DEF ConvertAssistant

\* So does the text that waits.
LEMMA WaitingSame ==
  ASSUME cvMode'.replay = cvMode.replay, NEW pending, pending = cvPending'
  PROVE  WaitingText(cvPending)' = WaitingText(pending)
<1>1. PICK D : D = Deferred(pending)
  OBVIOUS
<1>2. Deferred(cvPending)' = D
  <2>1. Deferred(cvPending)' = {ConvertAssistant(p.blocks, p.top)' : p \in pending}
    BY DEF Deferred
  <2>2. \A p \in pending : ConvertAssistant(p.blocks, p.top)' = ConvertAssistant(p.blocks, p.top)
    BY ConvertSame
  <2> QED BY <1>1, <2>1, <2>2 DEF Deferred
<1> QED BY <1>1, <1>2 DEF WaitingText, Released

\* The invariant in the next state, from the next values.
LEMMA ConversingNext ==
  ASSUME cvMode'.replay = cvMode.replay, NEW out, out = cvOut', NEW pending, pending = cvPending',
         NEW fed, fed = cvFed', Conversing(out, pending, fed)
  PROVE  Conversing(cvOut, cvPending, cvFed)'
<1>1. WaitingText(cvPending)' = WaitingText(pending)
  BY WaitingSame
<1> QED BY <1>1 DEF Conversing

-----------------------------------------------------------------------------
(***************************************************************************)
(* Assistant messages.                                                     *)
(***************************************************************************)
\* A message with a tool in it has a first one.
LEMMA FirstIs ==
  ASSUME NEW s \in Seq(Block), \E i \in DOMAIN s : s[i].kind \in ToolKinds
  PROVE  FirstTool(s) \in 1..Len(s)
<1>1. PICK len : len = Len(s)
  OBVIOUS
<1>2. len \in Nat /\ DOMAIN s = 1..len
  BY <1>1, LenProperties
<1>3. PICK S : S = {i \in 1..len : s[i].kind \in ToolKinds}
  OBVIOUS
<1>4. S # {} /\ S \subseteq Nat
  BY <1>2, <1>3
<1>5. PICK i \in S : \A j \in S : ~(<<j, i>> \in OpToRel(<, Nat))
  BY <1>4, NatLessThanWellFounded, WFMin
<1>6. ASSUME NEW j \in 1..(i - 1) PROVE s[j].kind \notin ToolKinds
  <2>1. j \in 1..len /\ j < i /\ j \in Nat /\ i \in Nat
    BY <1>2, <1>3, <1>4
  <2>2. <<j, i>> \in OpToRel(<, Nat)
    BY <2>1 DEF OpToRel
  <2>3. j \notin S
    BY <1>5, <2>2
  <2> QED BY <1>3, <2>1, <2>3
<1>7. i \in DOMAIN s /\ s[i].kind \in ToolKinds
  BY <1>2, <1>3
<1>8. FirstTool(s) \in DOMAIN s
  BY <1>6, <1>7 DEF FirstTool
<1> QED BY <1>1, <1>2, <1>8

\* A message and what it leaves waiting: all its texts are in one or the other,
\* and the tools that are waited for are its calls.
Saying(m, pending, texts, open) ==
  /\ m \in Msg /\ m.result = 0 /\ Held(pending)
  /\ texts \in Seq(Nat) /\ m.parts \o WaitingText(pending) = texts
  /\ open \subseteq Nat /\ IsFiniteSet(open)
  /\ open # {} => open \subseteq ToSet(m.calls) /\ \A p \in pending : p.remaining = open

\* A tool call is no text.
LEMMA TextNotTool == TextKinds \subseteq BlockTypes \ ToolKinds
BY DEF TextKinds, BlockTypes, ToolKinds

\* The texts of the two parts of a message, the second without its calls.
Parts(s, len, first, pre, rest, after) ==
  /\ len = Len(s) /\ first \in 1..len
  /\ pre = SubSeq(s, 1, first - 1) /\ rest = SubSeq(s, first, len)
  /\ after = Kept(rest, BlockTypes \ ToolKinds)

\* The texts before the first call and after it are the texts.
LEMMA SplitTexts ==
  ASSUME NEW s \in Seq(Block), NEW len, NEW first, NEW pre, NEW rest, NEW after,
         Parts(s, len, first, pre, rest, after)
  PROVE  /\ pre \in Seq(Block) /\ after \in Seq(Block)
         /\ Ids(Kept(s, TextKinds)) = Ids(Kept(pre, TextKinds)) \o Ids(Kept(after, TextKinds))
<1>1. /\ len = Len(s) /\ first \in 1..len
      /\ pre = SubSeq(s, 1, first - 1) /\ rest = SubSeq(s, first, len)
      /\ after = Kept(rest, BlockTypes \ ToolKinds)
  BY DEF Parts
<1>2. len \in Nat /\ first \in 1..len /\ \A i \in 1..len : s[i] \in Block
  BY <1>1, LenProperties, ElementOfSeq
<1>4. pre \in Seq(Block)
  <2>1. \A i \in 1..(first - 1) : s[i] \in Block
    BY <1>2
  <2> QED BY <1>1, <1>2, <2>1, SubSeqProperties
<1>5. rest \in Seq(Block)
  <2>1. \A i \in first..len : s[i] \in Block
    BY <1>2
  <2> QED BY <1>1, <1>2, <2>1, SubSeqProperties
<1>6. pre \o rest = s
  <2>1. PICK k : k = first - 1
    OBVIOUS
  <2>2. k + 1 = first /\ 1 \in 1..(len + 1) /\ k \in (1 - 1)..len /\ len \in k..len
    BY <1>2, <2>1
  <2>3. SubSeq(s, 1, k) \o SubSeq(s, k + 1, len) = SubSeq(s, 1, len)
    BY <1>1, <2>2, ConcatAdjacentSubSeq
  <2> QED BY <1>1, <2>1, <2>2, <2>3, SubSeqFull
<1>7. after \in Seq(Block)
  BY <1>1, <1>5, KeptTyped
<1>8. Kept(after, TextKinds) = Kept(rest, TextKinds)
  <2>1. PICK kinds : kinds = TextKinds
    OBVIOUS
  <2>2. PICK wide : wide = BlockTypes \ ToolKinds
    OBVIOUS
  <2>3. kinds \subseteq wide /\ after = Kept(rest, wide)
    BY <1>1, <2>1, <2>2, TextNotTool
  <2>4. Kept(Kept(rest, wide), kinds) = Kept(rest, kinds)
    BY <1>5, <2>3, KeptKept
  <2> QED BY <2>1, <2>3, <2>4
<1>9. Kept(s, TextKinds) = Kept(pre, TextKinds) \o Kept(rest, TextKinds)
  <2>1. PICK kinds : kinds = TextKinds
    OBVIOUS
  <2>2. Kept(pre \o rest, kinds) = Kept(pre, kinds) \o Kept(rest, kinds)
    BY <1>4, <1>5, KeptConcat
  <2> QED BY <1>6, <2>1, <2>2
<1>10. Kept(pre, TextKinds) \in Seq(Block) /\ Kept(rest, TextKinds) \in Seq(Block)
  BY <1>4, <1>5, KeptTyped
<1>11. Ids(Kept(s, TextKinds)) = Ids(Kept(pre, TextKinds)) \o Ids(Kept(rest, TextKinds))
  BY <1>9, <1>10, IdsConcat
<1> QED BY <1>4, <1>7, <1>8, <1>11

\* _convert_assistant_message_with_split loses no text.
LEMMA SplitSays ==
  ASSUME NEW s \in Seq(Block), NEW top \in BOOLEAN, \E i \in DOMAIN s : s[i].kind \in ToolKinds
  PROVE  Saying(Split(s, top).message, Split(s, top).pending, Ids(Kept(s, TextKinds)), Awaited(s))
<1>1. PICK first : first = FirstTool(s)
  OBVIOUS
<1>2. PICK len : len = Len(s)
  OBVIOUS
<1>3. PICK pre : pre = SubSeq(s, 1, first - 1)
  OBVIOUS
<1>4. PICK after : after = Kept(SubSeq(s, first, len), BlockTypes \ ToolKinds)
  OBVIOUS
<1>5. /\ pre \in Seq(Block) /\ after \in Seq(Block)
      /\ Ids(Kept(s, TextKinds)) = Ids(Kept(pre, TextKinds)) \o Ids(Kept(after, TextKinds))
  <2>1. PICK rest : rest = SubSeq(s, first, len)
    OBVIOUS
  <2>2. first \in 1..len /\ after = Kept(rest, BlockTypes \ ToolKinds)
    BY <1>1, <1>2, <1>4, <2>1, FirstIs
  <2>3. Parts(s, len, first, pre, rest, after)
    BY <1>2, <1>3, <2>1, <2>2 DEF Parts
  <2> QED BY <2>3, SplitTexts
<1>6. PICK parts : parts = Ids(Kept(pre, TextKinds))
  OBVIOUS
<1>7. PICK calls : calls = Ids(Kept(s, ToolKinds))
  OBVIOUS
<1>8. parts \in Seq(Nat) /\ calls \in Seq(Nat)
  BY <1>5, <1>6, <1>7, KeptTyped, IdsOf
<1>9. PICK said : said = ConvertAssistant(pre, top)
  OBVIOUS
<1>10. Speech(said, parts, <<>>)
  BY <1>5, <1>6, <1>9, ConvertIs
<1>11. PICK m : m = [said EXCEPT !.calls = calls]
  OBVIOUS
<1>12. Speech(m, parts, calls)
  BY <1>8, <1>10, <1>11, SpokenWithCalls
<1>13. m \in Msg /\ m.parts = parts /\ m.calls = calls /\ m.result = 0
  BY <1>12 DEF Speech
<1>14. PICK open : open = Awaited(s)
  OBVIOUS
<1>15. open \subseteq Nat /\ IsFiniteSet(open) /\ open \subseteq ToSet(calls)
  BY <1>7, <1>14, AwaitedCalled
<1>16. PICK p : p = [blocks |-> after, top |-> top, remaining |-> open]
  OBVIOUS
<1>17. PICK pending : pending = IF after = <<>> THEN {} ELSE {p}
  OBVIOUS
<1>18. p.blocks = after /\ p.remaining = open /\ p \in Pend
  <2>1. PICK B : B = BOOLEAN
    OBVIOUS
  <2>2. top \in B /\ open \in SUBSET Nat
    BY <1>15, <2>1
  <2>3. p \in [blocks: Seq(Block), top: B, remaining: SUBSET Nat]
    BY <1>5, <1>16, <2>2
  <2> QED BY <1>16, <2>1, <2>3 DEF Pend
<1>19. Held(pending) /\ \A q \in pending : q.remaining = open
  BY <1>17, <1>18 DEF Held
<1>20. WaitingText(pending) = Ids(Kept(after, TextKinds))
  <2>1. CASE after = <<>>
    <3>1. PICK none : none = <<>>
      OBVIOUS
    <3>2. Kept(after, TextKinds) = none /\ WaitingText(pending) = none
      BY <1>17, <2>1, <3>1, KeptEmpty, ReleasedNone
    <3>3. Ids(none) = none
      <4>1. none \in Seq(Block)
        BY <3>1, EmptySeq
      <4>2. Len(Ids(none)) = 0 /\ Ids(none) \in Seq(Nat)
        BY <3>1, <4>1, IdsOf, EmptySeq
      <4> QED BY <3>1, <4>2, EmptySeq
    <3> QED BY <3>2, <3>3
  <2>2. CASE after # <<>>
    BY <1>17, <1>18, <2>2, ReleasedOne
  <2> QED BY <2>1, <2>2
<1>21. m.parts \o WaitingText(pending) = Ids(Kept(s, TextKinds)) /\ Ids(Kept(s, TextKinds)) \in Seq(Nat)
  BY <1>5, <1>6, <1>13, <1>20, KeptTyped, IdsOf
<1>22. Saying(m, pending, Ids(Kept(s, TextKinds)), open)
  BY <1>13, <1>15, <1>19, <1>21 DEF Saying
<1>23. Split(s, top).message = m
  BY <1>1, <1>3, <1>7, <1>9, <1>11 DEF Split
<1>24. Split(s, top).pending = pending
  BY <1>1, <1>2, <1>4, <1>14, <1>16, <1>17 DEF Split
<1> QED BY <1>14, <1>22, <1>23, <1>24

\* A message with no tool in it leaves nothing waiting.
LEMMA PlainSays ==
  ASSUME NEW m, NEW texts \in Seq(Nat), NEW calls, Speech(m, texts, calls)
  PROVE  Saying(m, {}, texts, {})
<1>1. m \in Msg /\ m.result = 0 /\ m.parts = texts
  BY DEF Speech
<1>2. PICK none : none = <<>>
  OBVIOUS
<1>3. PICK S : S = {}
  OBVIOUS
<1>4. WaitingText(S) = none /\ texts \o none = texts
  BY <1>2, <1>3, ReleasedNone, ConcatEmptySeq
<1>5. Held(S) /\ S \subseteq Nat /\ IsFiniteSet(S)
  BY <1>3, FS_EmptySet DEF Held
<1>6. Saying(m, S, texts, S)
  BY <1>1, <1>3, <1>4, <1>5 DEF Saying
<1> QED BY <1>3, <1>6

\* What is fed afterwards.
Feeding(fed, texts, open, early) ==
  fed \in Fed /\ fed.texts = texts /\ fed.open = open /\ fed.early = early

\* What waits is released, and the message follows.
LEMMA SpokenOn ==
  ASSUME NEW out, NEW pending, NEW fed, Conversing(out, pending, fed), NEW texts, NEW m, NEW held, NEW open,
         Saying(m, held, texts, open), NEW next, Feeding(next, fed.texts \o texts, open, fed.early)
  PROVE  Conversing(Append(out \o Released(pending), m), held, next)
<1>1. /\ out \in Seq(Msg) /\ Held(pending) /\ ResultsFollow(out) /\ fed \in Fed
      /\ Faithful(TextsOf(out) \o WaitingText(pending), fed.texts, fed.early)
  BY DEF Conversing
<1>2. /\ m \in Msg /\ m.result = 0 /\ Held(held)
      /\ texts \in Seq(Nat) /\ m.parts \o WaitingText(held) = texts
      /\ open \subseteq Nat /\ IsFiniteSet(open)
      /\ open # {} => open \subseteq ToSet(m.calls) /\ \A p \in held : p.remaining = open
  BY DEF Saying
<1>3. next \in Fed /\ next.texts = fed.texts \o texts /\ next.open = open /\ next.early = fed.early
  BY DEF Feeding
<1>4. PICK all : all = out \o Released(pending)
  OBVIOUS
<1>5. /\ all \in Seq(Msg) /\ ResultsFollow(all) /\ TextsOf(all) = TextsOf(out) \o WaitingText(pending)
      /\ TextsOf(all) \in Seq(Nat)
  BY <1>1, <1>4, ReleaseAll
<1>6. PICK t : t = Append(all, m)
  OBVIOUS
<1>7. /\ t \in Seq(Msg) /\ ResultsFollow(t) /\ TextsOf(t) = TextsOf(all) \o m.parts
  BY <1>2, <1>5, <1>6, FollowsOn, TextsAppend
<1>8. TextsOf(t) \o WaitingText(held) = TextsOf(all) \o texts
  <2>1. m.parts \in Seq(Nat)
    BY <1>2 DEF Msg
  <2>2. WaitingText(held) \in Seq(Nat)
    BY <1>2, <1>7, ReleaseAll
  <2>3. PICK a : a = TextsOf(all)
    OBVIOUS
  <2>4. PICK b : b = m.parts
    OBVIOUS
  <2>5. PICK c : c = WaitingText(held)
    OBVIOUS
  <2>6. a \in Seq(Nat) /\ b \in Seq(Nat) /\ c \in Seq(Nat)
    BY <1>5, <2>1, <2>2, <2>3, <2>4, <2>5
  <2>7. (a \o b) \o c = a \o (b \o c)
    <3>1. Associates(a, b, c)
      BY <2>6, Associate
    <3> QED BY <3>1 DEF Associates
  <2> QED BY <1>2, <1>7, <2>3, <2>4, <2>5, <2>7
<1>9. Faithful(TextsOf(all) \o texts, fed.texts \o texts, fed.early)
  <2>1. fed.texts \in Seq(Nat)
    BY <1>1 DEF Fed
  <2>2. Faithful(TextsOf(all), fed.texts, fed.early)
    BY <1>1, <1>5
  <2> QED BY <1>2, <1>5, <2>1, <2>2, AddedAtEnd
<1>10. ASSUME open # {} PROVE Asked(t, open)
  <2>1. PICK len : len = Len(all)
    OBVIOUS
  <2>2. len \in Nat /\ DOMAIN t = 1..(len + 1) /\ Len(t) = len + 1 /\ t[len + 1] = m
    BY <1>2, <1>5, <1>6, <2>1, AppendProperties, LenProperties
  <2>3. len + 1 \in DOMAIN t /\ open \subseteq ToSet(t[len + 1].calls)
    BY <1>2, <1>10, <2>2
  <2>4. \A k \in ((len + 1) + 1)..Len(t) : t[k].role = "tool"
    BY <2>2
  <2> QED BY <2>3, <2>4 DEF Asked
<1>11. Answerable(t, held, open)
  BY <1>2, <1>10 DEF Answerable
<1>12. Conversing(t, held, next)
  BY <1>2, <1>3, <1>7, <1>8, <1>9, <1>11 DEF Conversing
<1> QED BY <1>4, <1>6, <1>12

\* A message comes before what waits, which makes it early.
LEMMA SpokenBefore ==
  ASSUME NEW out, NEW pending, NEW fed, Conversing(out, pending, fed), NEW texts \in Seq(Nat),
         NEW m \in Msg, m.result = 0, m.parts = texts,
         NEW next, Feeding(next, fed.texts \o texts, {}, fed.early \/ pending # {})
  PROVE  Conversing(Append(out, m), pending, next)
<1>1. /\ out \in Seq(Msg) /\ Held(pending) /\ ResultsFollow(out) /\ fed \in Fed
      /\ Faithful(TextsOf(out) \o WaitingText(pending), fed.texts, fed.early)
  BY DEF Conversing
<1>2. PICK none : none = {}
  OBVIOUS
<1>3. next \in Fed /\ next.texts = fed.texts \o texts /\ next.open = none /\ next.early = (fed.early \/ pending # {})
  BY <1>2 DEF Feeding
<1>4. PICK t : t = Append(out, m)
  OBVIOUS
<1>5. t \in Seq(Msg) /\ ResultsFollow(t) /\ TextsOf(t) = TextsOf(out) \o texts
  BY <1>1, <1>4, FollowsOn, TextsAppend
<1>6. PICK a : a = TextsOf(out)
  OBVIOUS
<1>7. PICK w : w = WaitingText(pending)
  OBVIOUS
<1>8. a \in Seq(Nat) /\ w \in Seq(Nat) /\ fed.texts \in Seq(Nat)
  BY <1>1, <1>6, <1>7, ReleaseAll DEF Fed
<1>9. Faithful(a \o w, fed.texts, fed.early)
  BY <1>1, <1>6, <1>7
<1>10. Faithful((a \o texts) \o w, next.texts, next.early)
  <2>1. CASE pending = {}
    <3>1. PICK empty : empty = <<>>
      OBVIOUS
    <3>2. w = empty /\ a \o empty = a
      BY <1>7, <1>8, <2>1, <3>1, ReleasedNone, ConcatEmptySeq
    <3>3. Faithful(a, fed.texts, fed.early)
      BY <1>9, <3>2
    <3>4. Faithful(a \o texts, fed.texts \o texts, fed.early)
      BY <1>8, <3>3, AddedAtEnd
    <3>5. a \o texts \in Seq(Nat)
      BY <1>8, ToSetConcat
    <3>6. (a \o texts) \o w = a \o texts
      BY <3>1, <3>2, <3>5, ConcatEmptySeq
    <3>7. Faithful((a \o texts) \o w, fed.texts \o texts, fed.early)
      BY <3>4, <3>6
    <3> QED BY <1>3, <2>1, <3>7 DEF Faithful
  <2>2. CASE pending # {}
    <3>1. Faithful((a \o texts) \o w, fed.texts \o texts, TRUE)
      BY <1>8, <1>9, AddedBefore
    <3> QED BY <1>3, <2>2, <3>1 DEF Faithful
  <2> QED BY <2>1, <2>2
<1>11. IsFiniteSet(none) /\ Answerable(t, pending, none)
  BY <1>2, FS_EmptySet DEF Answerable
<1>12. Conversing(t, pending, next)
  BY <1>1, <1>3, <1>5, <1>6, <1>7, <1>10, <1>11 DEF Conversing
<1> QED BY <1>4, <1>12

-----------------------------------------------------------------------------
(***************************************************************************)
(* The actions that are not about results.                                 *)
(***************************************************************************)
FedAs(after, n, next, texts, open, early) ==
  after = [n |-> n, next |-> next, texts |-> texts, open |-> open, early |-> early]

\* The fields of what was fed.
LEMMA FedIs ==
  ASSUME NEW n \in Nat, NEW next \in Nat, NEW texts \in Seq(Nat), NEW open \in SUBSET Nat, NEW early \in BOOLEAN,
         NEW after, FedAs(after, n, next, texts, open, early)
  PROVE  Feeding(after, texts, open, early)
<1>1. after = [n |-> n, next |-> next, texts |-> texts, open |-> open, early |-> early]
  BY DEF FedAs
<1>2. PICK B : B = BOOLEAN
  OBVIOUS
<1>3. early \in B
  BY <1>2
<1>4. after \in [n: Nat, next: Nat, texts: Seq(Nat), open: SUBSET Nat, early: B]
  BY <1>1, <1>3
<1>5. after \in Fed
  BY <1>2, <1>4 DEF Fed
<1> QED BY <1>1, <1>5 DEF Feeding

\* Numbered kinds are blocks.
LEMMA NumberedTyped ==
  ASSUME NEW kinds \in Seq(BlockTypes), cvFed.next \in Nat
  PROVE  Numbered(kinds) \in Seq(Block)
<1>1. PICK len : len = Len(kinds)
  OBVIOUS
<1>2. len \in Nat /\ DOMAIN kinds = 1..len /\ \A i \in 1..len : kinds[i] \in BlockTypes
  BY <1>1, LenProperties, ElementOfSeq
<1>3. \A i \in 1..len : cvFed.next + i - 1 \in Nat
  OBVIOUS
<1>4. \A i \in 1..len : [kind |-> kinds[i], id |-> cvFed.next + i - 1] \in Block
  BY <1>2, <1>3 DEF Block
<1> QED BY <1>2, <1>4 DEF Numbered

\* Without tools nobody is waited for.
LEMMA NoTools ==
  ASSUME NEW s \in Seq(Block), ~\E i \in DOMAIN s : s[i].kind \in ToolKinds
  PROVE  Awaited(s) = {}
<1>1. "tool_use" \in ToolKinds
  BY DEF ToolKinds
<1>2. \A b \in ToSet(s) : \E i \in DOMAIN s : s[i] = b
  BY DEF ToSet
<1> QED BY <1>1, <1>2 DEF Awaited

\* An assistant message, with tools or without.
LEMMA AssistantSays ==
  ASSUME NEW s \in Seq(Block), NEW top \in BOOLEAN, NEW split,
         split = IF \E i \in DOMAIN s : s[i].kind \in ToolKinds THEN Split(s, top)
                 ELSE [message |-> ConvertAssistant(s, top), pending |-> {}]
  PROVE  Saying(split.message, split.pending, Ids(Kept(s, TextKinds)), Awaited(s))
<1>1. CASE \E i \in DOMAIN s : s[i].kind \in ToolKinds
  BY <1>1, SplitSays
<1>2. CASE ~\E i \in DOMAIN s : s[i].kind \in ToolKinds
  <2>1. split.message = ConvertAssistant(s, top) /\ split.pending = {}
    BY <1>2
  <2>2. PICK texts : texts = Ids(Kept(s, TextKinds))
    OBVIOUS
  <2>3. texts \in Seq(Nat) /\ Speech(ConvertAssistant(s, top), texts, <<>>)
    BY <2>2, ConvertIs, KeptTyped, IdsOf
  <2>4. Saying(ConvertAssistant(s, top), {}, texts, {})
    BY <2>3, PlainSays
  <2> QED BY <1>2, <2>1, <2>2, <2>4, NoTools
<1> QED BY <1>1, <1>2

\* An assistant message of blocks: what waited is released before it.
LEMMA AssistantBlocksKeeps ==
  ASSUME ReplayInv, NEW kinds \in AssistantKinds, NEW top \in BOOLEAN, AssistantBlocks(kinds, top)
  PROVE  ReplayInv'
<1>1. /\ cvMode \in [replay : ReplayModes, raised : BOOLEAN] /\ Conversing(cvOut, cvPending, cvFed)
  BY DEF ReplayInv
<1>2. cvFed \in Fed /\ cvFed.n \in Nat /\ cvFed.next \in Nat /\ cvFed.texts \in Seq(Nat) /\ cvFed.early \in BOOLEAN
  BY <1>1 DEF Conversing, Fed
<1>3. kinds \in Seq(BlockTypes) /\ Len(kinds) \in Nat
  BY AssistantAssumption, LenProperties
<1>4. PICK s : s = Numbered(kinds)
  OBVIOUS
<1>5. s \in Seq(Block)
  BY <1>2, <1>3, <1>4, NumberedTyped
<1>6. PICK split : split = IF \E i \in DOMAIN s : s[i].kind \in ToolKinds THEN Split(s, top)
                           ELSE [message |-> ConvertAssistant(s, top), pending |-> {}]
  OBVIOUS
<1>7. PICK texts : texts = Ids(Kept(s, TextKinds))
  OBVIOUS
<1>8. PICK open : open = Awaited(s)
  OBVIOUS
<1>9. Saying(split.message, split.pending, texts, open)
  BY <1>5, <1>6, <1>7, <1>8, AssistantSays
<1>10. texts \in Seq(Nat) /\ open \in SUBSET Nat
  BY <1>9 DEF Saying
<1>11. PICK out : out = Append(cvOut \o Released(cvPending), split.message)
  OBVIOUS
<1>12. PICK fed : fed = cvFed'
  OBVIOUS
<1>13. /\ cvOut' = out /\ cvPending' = split.pending /\ cvMode' = cvMode
       /\ fed = [cvFed EXCEPT !.n = @ + 1, !.next = @ + Len(kinds), !.texts = @ \o texts, !.open = open]
  BY <1>4, <1>6, <1>7, <1>8, <1>11, <1>12 DEF AssistantBlocks
<1>14. Feeding(fed, cvFed.texts \o texts, open, cvFed.early)
  <2>1. fed = [cvFed EXCEPT !.n = cvFed.n + 1, !.next = cvFed.next + Len(kinds), !.texts = cvFed.texts \o texts,
                            !.open = open, !.early = cvFed.early]
    BY <1>2, <1>13 DEF Fed
  <2>2. cvFed.n + 1 \in Nat /\ cvFed.next + Len(kinds) \in Nat /\ cvFed.texts \o texts \in Seq(Nat)
    BY <1>2, <1>3, <1>10, ToSetConcat
  <2>3. PICK n : n = cvFed.n + 1
    OBVIOUS
  <2>4. PICK next : next = cvFed.next + Len(kinds)
    OBVIOUS
  <2>5. PICK more : more = cvFed.texts \o texts
    OBVIOUS
  <2>6. PICK early : early = cvFed.early
    OBVIOUS
  <2>7. FedAs(fed, n, next, more, open, early)
    BY <1>2, <2>1, <2>3, <2>4, <2>5, <2>6 DEF Fed, FedAs
  <2>8. n \in Nat /\ next \in Nat /\ more \in Seq(Nat) /\ early \in BOOLEAN
    BY <1>2, <2>2, <2>3, <2>4, <2>5, <2>6
  <2>9. Feeding(fed, more, open, early)
    BY <1>2, <1>10, <2>7, <2>8, FedIs
  <2> QED BY <2>5, <2>6, <2>9
<1>15. Conversing(out, split.pending, fed)
  BY <1>1, <1>9, <1>11, <1>14, SpokenOn
<1>16. Conversing(cvOut, cvPending, cvFed)'
  BY <1>12, <1>13, <1>15, ConversingNext
<1> QED BY <1>1, <1>13, <1>16 DEF ReplayInv

\* A string: a user's releases what waits, an assistant's comes before it.
LEMMA StringMessageKeeps ==
  ASSUME ReplayInv, NEW role \in {"assistant", "user"}, NEW top \in BOOLEAN, StringMessage(role, top)
  PROVE  ReplayInv'
<1>1. /\ cvMode \in [replay : ReplayModes, raised : BOOLEAN] /\ Conversing(cvOut, cvPending, cvFed)
  BY DEF ReplayInv
<1>2. /\ cvFed \in Fed /\ cvFed.n \in Nat /\ cvFed.next \in Nat /\ cvFed.texts \in Seq(Nat) /\ cvFed.early \in BOOLEAN
      /\ cvOut \in Seq(Msg)
  BY <1>1 DEF Conversing, Fed
<1>3. PICK texts : texts = IF top /\ cvMode.replay = "think_tags" THEN <<cvFed.next, cvFed.next + 1>> ELSE <<cvFed.next>>
  OBVIOUS
<1>4. texts \in Seq(Nat) /\ Len(texts) \in Nat
  BY <1>2, <1>3
<1>5. PICK reasoning : reasoning = (top /\ cvMode.replay = "reasoning_content")
  OBVIOUS
<1>6. PICK m : m = [Message(role, texts) EXCEPT !.reasoning = reasoning]
  OBVIOUS
<1>7. m \in Msg /\ m.result = 0 /\ m.parts = texts
  <2>1. PICK none : none = <<>>
    OBVIOUS
  <2>2. PICK zero : zero = 0
    OBVIOUS
  <2>3. PICK R : R = {"assistant", "user", "tool"}
    OBVIOUS
  <2>4. PICK B : B = BOOLEAN
    OBVIOUS
  <2>5. role \in R /\ none \in Seq(Nat) /\ zero \in Nat /\ reasoning \in B
    BY <1>5, <2>1, <2>2, <2>3, <2>4, EmptySeq
  <2>6. m = [role |-> role, parts |-> texts, calls |-> none, result |-> zero, reasoning |-> reasoning]
    BY <1>6, <2>1, <2>2 DEF Message
  <2>7. m \in [role: R, parts: Seq(Nat), calls: Seq(Nat), result: Nat, reasoning: B]
    BY <1>4, <2>5, <2>6
  <2>8. m.result = zero /\ m.parts = texts
    BY <2>6
  <2> QED BY <2>2, <2>3, <2>4, <2>7, <2>8 DEF Msg
<1>8. PICK early : early = (cvFed.early \/ (role = "assistant" /\ cvPending # {}))
  OBVIOUS
<1>9. PICK fed : fed = cvFed'
  OBVIOUS
<1>10. /\ cvOut' = Append(cvOut \o (IF role = "user" THEN Released(cvPending) ELSE <<>>), m)
       /\ cvPending' = (IF role = "user" THEN {} ELSE cvPending) /\ cvMode' = cvMode
       /\ fed = [cvFed EXCEPT !.n = @ + 1, !.next = @ + Len(texts), !.texts = @ \o texts, !.open = {}, !.early = early]
  BY <1>3, <1>5, <1>6, <1>8, <1>9 DEF StringMessage
<1>11. Feeding(fed, cvFed.texts \o texts, {}, early)
  <2>1. PICK none : none = {}
    OBVIOUS
  <2>2. fed = [cvFed EXCEPT !.n = cvFed.n + 1, !.next = cvFed.next + Len(texts), !.texts = cvFed.texts \o texts,
                            !.open = none, !.early = early]
    BY <1>2, <1>10, <2>1 DEF Fed
  <2>3. /\ cvFed.n + 1 \in Nat /\ cvFed.next + Len(texts) \in Nat /\ cvFed.texts \o texts \in Seq(Nat)
        /\ none \in SUBSET Nat
    BY <1>2, <1>4, <2>1, ToSetConcat
  <2>4. early \in BOOLEAN
    BY <1>2, <1>8
  <2>5. PICK n : n = cvFed.n + 1
    OBVIOUS
  <2>6. PICK next : next = cvFed.next + Len(texts)
    OBVIOUS
  <2>7. PICK more : more = cvFed.texts \o texts
    OBVIOUS
  <2>8. FedAs(fed, n, next, more, none, early)
    BY <1>2, <2>2, <2>5, <2>6, <2>7 DEF Fed, FedAs
  <2>9. n \in Nat /\ next \in Nat /\ more \in Seq(Nat)
    BY <2>3, <2>5, <2>6, <2>7
  <2>10. Feeding(fed, more, none, early)
    BY <1>2, <2>3, <2>4, <2>8, <2>9, FedIs
  <2> QED BY <2>1, <2>7, <2>10
<1>12. CASE role = "user"
  <2>1. early = cvFed.early
    BY <1>2, <1>8, <1>12
  <2>2. Saying(m, {}, texts, {})
    <3>1. PICK none : none = <<>>
      OBVIOUS
    <3>2. PICK S : S = {}
      OBVIOUS
    <3>3. WaitingText(S) = none /\ texts \o none = texts
      BY <1>4, <3>1, <3>2, ReleasedNone, ConcatEmptySeq
    <3>4. Held(S) /\ S \subseteq Nat /\ IsFiniteSet(S)
      BY <3>2, FS_EmptySet DEF Held
    <3>5. Saying(m, S, texts, S)
      BY <1>4, <1>7, <3>2, <3>3, <3>4 DEF Saying
    <3> QED BY <3>2, <3>5
  <2>3. PICK out : out = Append(cvOut \o Released(cvPending), m)
    OBVIOUS
  <2>4. cvOut' = out /\ cvPending' = {}
    BY <1>10, <1>12, <2>3
  <2>5. Conversing(out, {}, fed)
    BY <1>1, <1>11, <2>1, <2>2, <2>3, SpokenOn
  <2>6. Conversing(cvOut, cvPending, cvFed)'
    BY <1>9, <1>10, <2>4, <2>5, ConversingNext
  <2> QED BY <1>1, <1>10, <2>6 DEF ReplayInv
<1>13. CASE role = "assistant"
  <2>1. PICK none : none = <<>>
    OBVIOUS
  <2>2. role # "user"
    BY <1>13
  <2>3. cvOut \o none = cvOut
    BY <1>2, <2>1, ConcatEmptySeq
  <2>4. PICK out : out = Append(cvOut, m)
    OBVIOUS
  <2>5. cvOut' = out /\ cvPending' = cvPending
    BY <1>10, <2>1, <2>2, <2>3, <2>4
  <2>6. early = (cvFed.early \/ cvPending # {})
    BY <1>8, <1>13
  <2>7. Conversing(out, cvPending, fed)
    BY <1>1, <1>4, <1>7, <1>11, <2>4, <2>6, SpokenBefore
  <2>8. Conversing(cvOut, cvPending, cvFed)'
    BY <1>9, <1>10, <2>5, <2>7, ConversingNext
  <2> QED BY <1>1, <1>10, <2>8 DEF ReplayInv
<1> QED BY <1>12, <1>13

\* A refused request changes no message.
LEMMA UnsupportedKeeps ==
  ASSUME ReplayInv, NEW kinds, Unsupported(kinds) \/ UNCHANGED cvVars
  PROVE  ReplayInv'
<1>1. /\ cvMode \in [replay : ReplayModes, raised : BOOLEAN] /\ Conversing(cvOut, cvPending, cvFed)
  BY DEF ReplayInv
<1>2. cvOut' = cvOut /\ cvPending' = cvPending /\ cvFed' = cvFed
  BY DEF Unsupported, cvVars
<1>3. cvMode' = cvMode \/ cvMode' = [cvMode EXCEPT !.raised = TRUE]
  BY DEF Unsupported, cvVars
<1>4. cvMode'.replay = cvMode.replay /\ cvMode' \in [replay : ReplayModes, raised : BOOLEAN]
  BY <1>1, <1>3
<1>5. Conversing(cvOut, cvPending, cvFed)'
  BY <1>1, <1>2, <1>4, ConversingNext
<1> QED BY <1>4, <1>5 DEF ReplayInv

-----------------------------------------------------------------------------
(***************************************************************************)
(* The results of a user's message.                                        *)
(***************************************************************************)
\* A record whose tool was answered waits for one less.
LEMMA AnsweredOne ==
  ASSUME NEW p \in Pend, NEW id, NEW q, q = [p EXCEPT !.remaining = @ \ {id}]
  PROVE  q \in Pend /\ q.blocks = p.blocks /\ q.top = p.top /\ q.remaining = p.remaining \ {id}
<1>1. PICK left : left = p.remaining \ {id}
  OBVIOUS
<1>2. PICK B : B = BOOLEAN
  OBVIOUS
<1>3. p \in [blocks: Seq(Block), top: B, remaining: SUBSET Nat]
  BY <1>2 DEF Pend
<1>4. q = [blocks |-> p.blocks, top |-> p.top, remaining |-> left]
  BY <1>1, <1>3
<1>5. left \in SUBSET Nat
  BY <1>1, <1>3
<1>6. q \in [blocks: Seq(Block), top: B, remaining: SUBSET Nat]
  BY <1>3, <1>4, <1>5
<1> QED BY <1>1, <1>2, <1>4, <1>6 DEF Pend

\* An answer changes only what the text waits for.
LEMMA AnsweredIs ==
  ASSUME NEW pending, Held(pending), NEW id, NEW answered, answered = Answered(pending, id)
  PROVE  /\ Held(answered) /\ Released(answered) = Released(pending) /\ WaitingText(answered) = WaitingText(pending)
         /\ \A q \in answered : \E p \in pending : q.remaining = p.remaining \ {id}
         /\ pending = {} <=> answered = {}
<1>1. CASE pending = {}
  <2>1. answered = {}
    BY <1>1 DEF Answered
  <2> QED BY <1>1, <2>1
<1>2. ASSUME NEW p \in Pend, pending = {p}
      PROVE  /\ Held(answered) /\ Released(answered) = Released(pending) /\ WaitingText(answered) = WaitingText(pending)
             /\ \A q \in answered : \E r \in pending : q.remaining = r.remaining \ {id}
             /\ answered # {}
  <2>1. PICK q : q = [p EXCEPT !.remaining = @ \ {id}]
    OBVIOUS
  <2>2. q \in Pend /\ q.blocks = p.blocks /\ q.top = p.top /\ q.remaining = p.remaining \ {id}
    BY <2>1, AnsweredOne
  <2>3. answered = {q}
    BY <1>2, <2>1 DEF Answered
  <2>4. Deferred(answered) = Deferred(pending)
    BY <1>2, <2>2, <2>3 DEF Deferred
  <2>5. Released(answered) = Released(pending)
    BY <2>4 DEF Released
  <2> QED BY <1>2, <2>2, <2>3, <2>5 DEF Held, WaitingText
<1> QED BY <1>1, <1>2, HeldIs

\* One message more behind two sequences.
LEMMA AppendInner ==
  ASSUME NEW s \in Seq(Msg), NEW r \in Seq(Msg), NEW m \in Msg
  PROVE  s \o Append(r, m) = Append(s \o r, m) /\ Append(r, m) \in Seq(Msg) /\ s \o r \in Seq(Msg)
<1>1. Append(r, m) \in Seq(Msg)
  BY AppendProperties
<1>2. s \o r \in Seq(Msg)
  BY ConcatProperties
<1> QED BY <1>1, <1>2, ConcatAppend

\* The message of a result.
LEMMA ToolMessage ==
  ASSUME NEW id \in Nat, NEW m, m = [Message("tool", <<>>) EXCEPT !.result = id]
  PROVE  m \in Msg /\ m.role = "tool" /\ m.result = id /\ m.parts = <<>>
<1>1. PICK none : none = <<>>
  OBVIOUS
<1>2. PICK R : R = {"assistant", "user", "tool"}
  OBVIOUS
<1>3. PICK B : B = BOOLEAN
  OBVIOUS
<1>4. PICK role : role = "tool"
  OBVIOUS
<1>5. PICK no : no = FALSE
  OBVIOUS
<1>6. m = [role |-> role, parts |-> none, calls |-> none, result |-> id, reasoning |-> no]
  BY <1>1, <1>4, <1>5 DEF Message
<1>7. role \in R /\ none \in Seq(Nat) /\ no \in B
  BY <1>1, <1>2, <1>3, <1>4, <1>5, EmptySeq
<1>8. m \in [role: R, parts: Seq(Nat), calls: Seq(Nat), result: Nat, reasoning: B]
  BY <1>6, <1>7
<1>9. m \in Msg
  BY <1>2, <1>3, <1>8 DEF Msg
<1> QED BY <1>1, <1>4, <1>6, <1>9

\* Where the message stands when those in left have not been answered yet.
Told(out, pending, left, texts) ==
  /\ out \in Seq(Msg) /\ ResultsFollow(out) /\ Held(pending)
  /\ \A p \in pending : p.remaining = left
  /\ left # {} => Asked(out, left) /\ TextsOf(out) \o WaitingText(pending) = texts
  /\ left = {} => TextsOf(out) = texts

Answering(a, base, left, texts) ==
  /\ a = [out |-> a.out, texts |-> <<>>, pending |-> a.pending]
  /\ a.out \in Seq(Msg) /\ Told(base \o a.out, a.pending, left, texts)

\* What the messages are after one more result.
LEMMA OneMoreTold ==
  ASSUME NEW out, NEW pending, NEW left \in SUBSET Nat, NEW texts, Told(out, pending, left, texts), NEW id \in left,
         NEW m \in Msg, m.role = "tool", m.result = id, m.parts = <<>>,
         NEW answered, answered = Answered(pending, id), NEW rest, rest = left \ {id}
  PROVE  /\ rest # {} => Told(Append(out, m), answered, rest, texts)
         /\ rest = {} => Told(Append(out, m) \o Released(answered), answered, rest, texts)
<1>1. /\ out \in Seq(Msg) /\ ResultsFollow(out) /\ Held(pending)
      /\ \A p \in pending : p.remaining = left
      /\ Asked(out, left) /\ TextsOf(out) \o WaitingText(pending) = texts
  BY DEF Told
<1>2. /\ Held(answered) /\ WaitingText(answered) = WaitingText(pending)
      /\ \A q \in answered : q.remaining = rest
  BY <1>1, AnsweredIs
<1>3. PICK t : t = Append(out, m)
  OBVIOUS
<1>4. t \in Seq(Msg) /\ ResultsFollow(t) /\ Asked(t, left)
  BY <1>1, <1>3, ResultNext
<1>5. TextsOf(t) = TextsOf(out)
  <2>1. PICK none : none = <<>>
    OBVIOUS
  <2>2. TextsOf(out) \in Seq(Nat) /\ TextsOf(t) = TextsOf(out) \o none
    BY <1>1, <1>3, <2>1, TextsAppend
  <2>3. TextsOf(out) \o none = TextsOf(out)
    BY <2>1, <2>2, ConcatEmptySeq
  <2> QED BY <2>2, <2>3
<1>6. Asked(t, rest)
  BY <1>4 DEF Asked
<1>7. ASSUME rest # {} PROVE Told(t, answered, rest, texts)
  BY <1>1, <1>2, <1>4, <1>5, <1>6, <1>7 DEF Told
<1>8. ASSUME rest = {} PROVE Told(t \o Released(answered), answered, rest, texts)
  <2>1. PICK all : all = t \o Released(answered)
    OBVIOUS
  <2>2. all \in Seq(Msg) /\ ResultsFollow(all) /\ TextsOf(all) = TextsOf(t) \o WaitingText(answered)
    BY <1>2, <1>4, <2>1, ReleaseAll
  <2>3. TextsOf(all) = texts
    BY <1>1, <1>2, <1>5, <2>2
  <2>4. Told(all, answered, rest, texts)
    BY <1>2, <1>8, <2>2, <2>3 DEF Told
  <2> QED BY <2>1, <2>4
<1> QED BY <1>3, <1>7, <1>8

\* One turn of the loop over the blocks, for a result.
LEMMA ResultTold ==
  ASSUME NEW a, NEW base \in Seq(Msg), NEW left \in SUBSET Nat, NEW texts, Answering(a, base, left, texts),
         NEW id \in left, NEW b, b.kind = "tool_result", b.id = id, NEW next, next = UserBlock(a, b)
  PROVE  Answering(next, base, left \ {id}, texts)
<1>1. /\ a = [out |-> a.out, texts |-> <<>>, pending |-> a.pending]
      /\ a.out \in Seq(Msg) /\ Told(base \o a.out, a.pending, left, texts)
  BY DEF Answering
<1>2. PICK m : m = [Message("tool", <<>>) EXCEPT !.result = id]
  OBVIOUS
<1>3. m \in Msg /\ m.role = "tool" /\ m.result = id /\ m.parts = <<>>
  BY <1>2, ToolMessage
<1>4. PICK answered : answered = Answered(a.pending, id)
  OBVIOUS
<1>5. PICK told : told = Append(a.out, m)
  OBVIOUS
<1>6. PICK free : free = (\A p \in answered : p.remaining = {})
  OBVIOUS
<1>7. PICK out : out = IF free THEN told \o Released(answered) ELSE told
  OBVIOUS
<1>8. next = [out |-> out, texts |-> <<>>, pending |-> answered]
  <2>1. b.kind # "text" /\ a.texts = <<>>
    BY <1>1
  <2>2. FlushText(a) = a
    BY <2>1 DEF FlushText
  <2> QED BY <1>2, <1>4, <1>5, <1>6, <1>7, <2>1, <2>2 DEF UserBlock
<1>9. PICK here : here = base \o a.out
  OBVIOUS
<1>10. told \in Seq(Msg) /\ base \o told = Append(here, m) /\ here \in Seq(Msg)
  BY <1>1, <1>3, <1>5, <1>9, AppendInner
<1>11. PICK rest : rest = left \ {id}
  OBVIOUS
<1>12. /\ rest # {} => Told(Append(here, m), answered, rest, texts)
       /\ rest = {} => Told(Append(here, m) \o Released(answered), answered, rest, texts)
  BY <1>1, <1>3, <1>4, <1>9, <1>11, OneMoreTold
<1>13. Held(answered)
  BY <1>1, <1>4, AnsweredIs DEF Told
<1>14. Released(answered) \in Seq(Msg)
  <2>1. CASE answered = {}
    <3>1. PICK none : none = <<>>
      OBVIOUS
    <3>2. Released(answered) = none /\ none \in Seq(Msg)
      BY <2>1, <3>1, ReleasedNone, EmptySeq
    <3> QED BY <3>2
  <2>2. ASSUME NEW p \in Pend, answered = {p} PROVE Released(answered) \in Seq(Msg)
    <3>1. PICK said : said = ConvertAssistant(p.blocks, p.top)
      OBVIOUS
    <3>2. Released(answered) = <<said>> /\ Speech(said, WaitingText(answered), <<>>)
      BY <2>2, <3>1, ReleasedOne
    <3>3. said \in Msg
      BY <3>2 DEF Speech
    <3> QED BY <3>2, <3>3
  <2> QED BY <1>13, <2>1, <2>2, HeldIs
<1>15. out \in Seq(Msg) /\ Told(base \o out, answered, rest, texts)
  <2>1. CASE rest = {}
    <3>1. \A p \in answered : p.remaining = {}
      BY <1>12, <2>1 DEF Told
    <3>2. out = told \o Released(answered)
      BY <1>6, <1>7, <3>1
    <3>3. PICK r : r = Released(answered)
      OBVIOUS
    <3>4. r \in Seq(Msg) /\ out = told \o r
      BY <1>14, <3>2, <3>3
    <3>5. base \o out = (base \o told) \o r /\ out \in Seq(Msg)
      <4>1. (base \o told) \o r = base \o (told \o r)
        <5>1. told \in Seq(Msg)
          BY <1>10
        <5>2. r \in Seq(Msg)
          BY <3>4
        <5>3. Associates(base, told, r)
          BY <5>1, <5>2, Associate
        <5> QED BY <5>3 DEF Associates
      <4>2. told \o r \in Seq(Msg)
        BY <1>10, <3>4, ConcatProperties
      <4> QED BY <3>4, <4>1, <4>2
    <3> QED BY <1>10, <1>12, <2>1, <3>3, <3>5
  <2>2. CASE rest # {}
    <3>1. Told(Append(here, m), answered, rest, texts)
      BY <1>12, <2>2
    <3>2. out = told
      <4>1. CASE answered = {}
        <5>1. PICK none : none = <<>>
          OBVIOUS
        <5>2. Released(answered) = none
          BY <4>1, <5>1, ReleasedNone
        <5>3. told \o none = told
          BY <1>10, <5>1, ConcatEmptySeq
        <5> QED BY <1>7, <5>2, <5>3
      <4>2. CASE answered # {}
        <5>1. \A p \in answered : p.remaining = rest
          BY <3>1 DEF Told
        <5>2. free = FALSE
          BY <1>6, <2>2, <4>2, <5>1
        <5> QED BY <1>7, <5>2
      <4> QED BY <4>1, <4>2
    <3> QED BY <1>10, <3>1, <3>2
  <2> QED BY <2>1, <2>2
<1>16. next.out = out /\ next.pending = answered /\ next = [out |-> out, texts |-> <<>>, pending |-> answered]
  BY <1>8
<1>17. Answering(next, base, rest, texts)
  BY <1>15, <1>16 DEF Answering
<1> QED BY <1>11, <1>17

\* The accumulator of the loop over a user's blocks.
UserUpTo(f, blocks, pending, len) ==
  f = [n \in 0..len |-> IF n = 0 THEN [out |-> <<>>, texts |-> <<>>, pending |-> pending]
                        ELSE UserBlock(f[n - 1], blocks[n])]

Stepping(f, blocks, pending, len) ==
  /\ f[0] = [out |-> <<>>, texts |-> <<>>, pending |-> pending]
  /\ ConvertUser(blocks, pending) = FlushText(f[len])
  /\ \A n \in 1..len : f[n] = UserBlock(f[n - 1], blocks[n])

\* The recursion of ConvertUser has a solution.
LEMMA UserExists == ASSUME NEW blocks, NEW pending, NEW len \in Nat PROVE \E f : UserUpTo(f, blocks, pending, len)
<1>1. PICK start : start = [out |-> <<>>, texts |-> <<>>, pending |-> pending]
  OBVIOUS
<1>2. PICK T : T = {k \in Nat : \E f : UserUpTo(f, blocks, pending, k)}
  OBVIOUS
<1>3. 0 \in T
  <2>1. PICK f : f = [n \in 0..0 |-> start]
    OBVIOUS
  <2>2. \A n \in 0..0 : n = 0
    OBVIOUS
  <2>3. UserUpTo(f, blocks, pending, 0)
    BY <1>1, <2>1, <2>2 DEF UserUpTo
  <2> QED BY <1>2, <2>3
<1>4. ASSUME NEW k \in Nat, k \in T PROVE k + 1 \in T
  <2>1. PICK f : UserUpTo(f, blocks, pending, k)
    BY <1>2, <1>4
  <2>2. \A n \in 0..k : f[n] = IF n = 0 THEN start ELSE UserBlock(f[n - 1], blocks[n])
    BY <1>1, <2>1 DEF UserUpTo
  <2>3. PICK last : last = UserBlock(f[k], blocks[k + 1])
    OBVIOUS
  <2>4. PICK h : h = [n \in 0..(k + 1) |-> IF n = k + 1 THEN last ELSE f[n]]
    OBVIOUS
  <2>5. h[k + 1] = last /\ \A n \in 0..k : h[n] = f[n]
    BY <2>4
  <2>6. ASSUME NEW n \in 0..(k + 1) PROVE h[n] = IF n = 0 THEN start ELSE UserBlock(h[n - 1], blocks[n])
    <3>1. CASE n = k + 1
      <4>1. n # 0 /\ n - 1 = k /\ k \in 0..k
        BY <3>1
      <4>2. h[n - 1] = f[k]
        BY <2>5, <4>1
      <4> QED BY <2>3, <2>5, <3>1, <4>1, <4>2
    <3>2. CASE n \in 0..k
      <4>1. CASE n = 0
        BY <2>2, <2>5, <3>2, <4>1
      <4>2. CASE n # 0
        <5>1. n - 1 \in 0..k
          BY <3>2, <4>2
        <5> QED BY <2>2, <2>5, <3>2, <4>2, <5>1
      <4> QED BY <4>1, <4>2
    <3> QED BY <3>1, <3>2
  <2>7. h = [n \in 0..(k + 1) |-> h[n]]
    BY <2>4
  <2>8. UserUpTo(h, blocks, pending, k + 1)
    BY <1>1, <2>6, <2>7 DEF UserUpTo
  <2> QED BY <1>2, <2>8
<1>5. Nat \subseteq T
  BY <1>3, <1>4, FromZero
<1> QED BY <1>2, <1>5

\* ConvertUser flushes where its recursion ends.
LEMMA UserSteps ==
  ASSUME NEW blocks, NEW pending, NEW len \in Nat, len = Len(blocks)
  PROVE  \E f : Stepping(f, blocks, pending, len)
<1>1. PICK f : f = CHOOSE g : UserUpTo(g, blocks, pending, len)
  OBVIOUS
<1>2. UserUpTo(f, blocks, pending, len)
  BY <1>1, UserExists
<1>3. ConvertUser(blocks, pending) = FlushText(f[len])
  BY <1>1 DEF ConvertUser, UserUpTo
<1>4. \A n \in 0..len : f[n] = IF n = 0 THEN [out |-> <<>>, texts |-> <<>>, pending |-> pending]
                             ELSE UserBlock(f[n - 1], blocks[n])
  BY <1>2 DEF UserUpTo
<1>5. 0 \in 0..len /\ \A n \in 1..len : n \in 0..len /\ n # 0
  OBVIOUS
<1> QED BY <1>3, <1>4, <1>5 DEF Stepping

\* The first k blocks are results, each of another tool of those in open.
Resulting(results, k, open, blocks) ==
  /\ results \in [1..k -> open]
  /\ \A i, j \in 1..k : i # j => results[i] # results[j]
  /\ \A n \in 1..k : blocks[n].kind = "tool_result" /\ blocks[n].id = results[n]

LeftOpen(open, results, k) == open \ {results[i] : i \in 1..k}

\* The loop over the results, up to any of them.
LEMMA FoldTold ==
  ASSUME NEW base \in Seq(Msg), NEW pending, NEW open \in SUBSET Nat, NEW texts, open # {},
         Told(base, pending, open, texts), NEW blocks, NEW len \in Nat, NEW f, Stepping(f, blocks, pending, len),
         NEW k \in Nat, k <= len, NEW results, Resulting(results, k, open, blocks)
  PROVE  Answering(f[k], base, LeftOpen(open, results, k), texts)
<1>0. /\ results \in [1..k -> open]
      /\ \A i, j \in 1..k : i # j => results[i] # results[j]
      /\ \A n \in 1..k : blocks[n].kind = "tool_result" /\ blocks[n].id = results[n]
  BY DEF Resulting
<1>1. /\ f[0] = [out |-> <<>>, texts |-> <<>>, pending |-> pending]
      /\ \A n \in 1..len : f[n] = UserBlock(f[n - 1], blocks[n])
  BY DEF Stepping
<1>2. PICK T : T = {n \in Nat : n <= k => Answering(f[n], base, LeftOpen(open, results, n), texts)}
  OBVIOUS
<1>3. 0 \in T
  <2>1. PICK none : none = <<>>
    OBVIOUS
  <2>2. none \in Seq(Msg) /\ base \o none = base
    BY <2>1, EmptySeq, ConcatEmptySeq
  <2>3. f[0].out = none /\ f[0].pending = pending /\ f[0] = [out |-> none, texts |-> <<>>, pending |-> pending]
    BY <1>1, <2>1
  <2>4. Answering(f[0], base, open, texts)
    BY <2>2, <2>3 DEF Answering
  <2>5. LeftOpen(open, results, 0) = open
    BY DEF LeftOpen
  <2> QED BY <1>2, <2>4, <2>5
<1>4. ASSUME NEW n \in Nat, n \in T PROVE n + 1 \in T
  <2>1. SUFFICES ASSUME n + 1 <= k PROVE Answering(f[n + 1], base, LeftOpen(open, results, n + 1), texts)
    BY <1>2
  <2>2. PICK left : left = LeftOpen(open, results, n)
    OBVIOUS
  <2>3. Answering(f[n], base, left, texts)
    BY <1>2, <1>4, <2>1, <2>2
  <2>4. PICK id : id = results[n + 1]
    OBVIOUS
  <2>5. n + 1 \in 1..k /\ n + 1 \in 1..len /\ (n + 1) - 1 = n /\ \A i \in 1..n : i \in 1..k /\ i # n + 1
    BY <2>1
  <2>6. id \in left /\ left \in SUBSET Nat
    BY <1>0, <2>2, <2>4, <2>5 DEF LeftOpen
  <2>7. PICK b : b = blocks[n + 1]
    OBVIOUS
  <2>8. b.kind = "tool_result" /\ b.id = id /\ f[n + 1] = UserBlock(f[n], b)
    BY <1>0, <1>1, <2>4, <2>5, <2>7
  <2>9. Answering(f[n + 1], base, left \ {id}, texts)
    BY <2>3, <2>6, <2>8, ResultTold
  <2>10. left \ {id} = LeftOpen(open, results, n + 1)
    <3>1. \A i : i \in 1..(n + 1) <=> i \in 1..n \/ i = n + 1
      OBVIOUS
    <3> QED BY <2>2, <2>4, <3>1 DEF LeftOpen
  <2> QED BY <2>9, <2>10
<1>5. Nat \subseteq T
  BY <1>3, <1>4, FromZero
<1>6. k \in T
  BY <1>5
<1> QED BY <1>2, <1>6

\* Only what still waits is kept.
Still(pending) == {p \in pending : p.remaining # {}}

\* Text whose last result came was released, other text still waits.
LEMMA AnsweredNext ==
  ASSUME NEW a, NEW base, NEW pending, NEW fed, Conversing(base, pending, fed), NEW left, left \subseteq fed.open,
         NEW texts, texts = TextsOf(base) \o WaitingText(pending), Answering(a, base, left, texts),
         NEW next, Feeding(next, fed.texts, left, fed.early)
  PROVE  Conversing(base \o a.out, Still(a.pending), next)
<1>1. IsFiniteSet(fed.open) /\ Faithful(texts, fed.texts, fed.early) /\ IsFiniteSet(left)
  BY FS_Subset DEF Conversing
<1>2. PICK out : out = base \o a.out
  OBVIOUS
<1>3. PICK held : held = a.pending
  OBVIOUS
<1>4. /\ out \in Seq(Msg) /\ ResultsFollow(out) /\ Held(held)
      /\ \A p \in held : p.remaining = left
      /\ left # {} => Asked(out, left) /\ TextsOf(out) \o WaitingText(held) = texts
      /\ left = {} => TextsOf(out) = texts
  BY <1>2, <1>3 DEF Answering, Told
<1>5. next \in Fed /\ next.texts = fed.texts /\ next.open = left /\ next.early = fed.early
  BY DEF Feeding
<1>6. CASE left = {}
  <2>1. PICK S : S = {}
    OBVIOUS
  <2>2. Still(held) = S
    BY <1>4, <1>6, <2>1 DEF Still
  <2>3. PICK none : none = <<>>
    OBVIOUS
  <2>4. TextsOf(out) \in Seq(Nat) /\ WaitingText(S) = none
    BY <1>4, <2>1, <2>3, ReleaseAll, ReleasedNone
  <2>5. TextsOf(out) \o WaitingText(S) = texts
    BY <1>4, <1>6, <2>3, <2>4, ConcatEmptySeq
  <2>6. Held(S) /\ Answerable(out, S, left)
    BY <1>6, <2>1 DEF Held, Answerable
  <2>7. Conversing(out, S, next)
    BY <1>1, <1>4, <1>5, <2>5, <2>6 DEF Conversing
  <2> QED BY <1>2, <1>3, <2>2, <2>7
<1>7. CASE left # {}
  <2>1. Still(held) = held
    BY <1>4, <1>7 DEF Still
  <2>2. Answerable(out, held, left) /\ TextsOf(out) \o WaitingText(held) = texts
    BY <1>4, <1>7 DEF Answerable
  <2>3. Conversing(out, held, next)
    BY <1>1, <1>4, <1>5, <2>2 DEF Conversing
  <2> QED BY <1>2, <1>3, <2>1, <2>3
<1> QED BY <1>6, <1>7

\* A turn of the user: the messages so far, the blocks, and the first k of them.
Turning(base, pending, fed, blocks, len, f, k, results, left, next) ==
  /\ Conversing(base, pending, fed) /\ Still(pending) = pending
  /\ len \in Nat /\ Stepping(f, blocks, pending, len) /\ k \in Nat /\ k <= len
  /\ Resulting(results, k, fed.open, blocks) /\ left = LeftOpen(fed.open, results, k)
  /\ Feeding(next, fed.texts, left, fed.early)

\* The results of a message, none included, keep the invariant.
LEMMA ResultsTurn ==
  ASSUME NEW base, NEW pending, NEW fed, NEW blocks, NEW len, NEW f, NEW k, NEW results, NEW left, NEW next,
         Turning(base, pending, fed, blocks, len, f, k, results, left, next)
  PROVE  /\ f[k] = [out |-> f[k].out, texts |-> <<>>, pending |-> f[k].pending]
         /\ f[k].out \in Seq(Msg)
         /\ Conversing(base \o f[k].out, Still(f[k].pending), next)
<1>0. /\ Conversing(base, pending, fed) /\ Still(pending) = pending
      /\ len \in Nat /\ Stepping(f, blocks, pending, len) /\ k \in Nat /\ k <= len
      /\ Resulting(results, k, fed.open, blocks) /\ left = LeftOpen(fed.open, results, k)
      /\ Feeding(next, fed.texts, left, fed.early)
  BY DEF Turning
<1>1. /\ base \in Seq(Msg) /\ Held(pending) /\ ResultsFollow(base) /\ fed \in Fed /\ IsFiniteSet(fed.open)
      /\ Faithful(TextsOf(base) \o WaitingText(pending), fed.texts, fed.early)
      /\ Answerable(base, pending, fed.open)
  BY <1>0 DEF Conversing
<1>2. next \in Fed /\ next.texts = fed.texts /\ next.open = left /\ next.early = fed.early
  BY <1>0 DEF Feeding
<1>3. fed.open \in SUBSET Nat
  BY <1>1 DEF Fed
<1>4. CASE k = 0
  <2>1. PICK none : none = <<>>
    OBVIOUS
  <2>2. f[k] = [out |-> none, texts |-> <<>>, pending |-> pending]
    BY <1>0, <1>4, <2>1 DEF Stepping
  <2>3. none \in Seq(Msg) /\ base \o none = base
    BY <1>1, <2>1, EmptySeq, ConcatEmptySeq
  <2>4. left = fed.open
    BY <1>0, <1>4 DEF LeftOpen
  <2>5. Conversing(base, pending, next)
    BY <1>0, <1>1, <1>2, <2>4 DEF Conversing
  <2>6. f[k].out = none /\ f[k].pending = pending
    BY <2>2
  <2> QED BY <1>0, <2>2, <2>3, <2>5, <2>6
<1>5. CASE k # 0
  <2>1. PICK open : open = fed.open
    OBVIOUS
  <2>2. open \in SUBSET Nat /\ Resulting(results, k, open, blocks) /\ open # {}
    <3>1. 1 \in 1..k
      BY <1>0, <1>5
    <3> QED BY <1>0, <1>3, <2>1, <3>1 DEF Resulting
  <2>3. PICK texts : texts = TextsOf(base) \o WaitingText(pending)
    OBVIOUS
  <2>4. Told(base, pending, open, texts)
    BY <1>0, <1>1, <2>1, <2>2, <2>3 DEF Told, Answerable
  <2>5. Answering(f[k], base, LeftOpen(open, results, k), texts)
    BY <1>0, <1>1, <2>2, <2>4, FoldTold
  <2>6. Answering(f[k], base, left, texts) /\ left \subseteq fed.open
    BY <1>0, <2>1, <2>5 DEF LeftOpen
  <2>7. f[k] = [out |-> f[k].out, texts |-> <<>>, pending |-> f[k].pending] /\ f[k].out \in Seq(Msg)
    BY <2>6 DEF Answering
  <2> QED BY <1>0, <2>3, <2>6, <2>7, AnsweredNext
<1> QED BY <1>4, <1>5

\* Text that waits for nobody any more can be released at once.
LEMMA ReleasedFirst ==
  ASSUME NEW out, NEW pending, NEW fed, Conversing(out, pending, fed), \A p \in pending : p.remaining = {}
  PROVE  Conversing(out \o Released(pending), {}, fed)
<1>1. /\ out \in Seq(Msg) /\ Held(pending) /\ ResultsFollow(out) /\ fed \in Fed /\ IsFiniteSet(fed.open)
      /\ Faithful(TextsOf(out) \o WaitingText(pending), fed.texts, fed.early)
      /\ Answerable(out, pending, fed.open)
  BY DEF Conversing
<1>2. PICK all : all = out \o Released(pending)
  OBVIOUS
<1>3. /\ all \in Seq(Msg) /\ ResultsFollow(all) /\ TextsOf(all) = TextsOf(out) \o WaitingText(pending)
      /\ TextsOf(all) \in Seq(Nat)
  BY <1>1, <1>2, ReleaseAll
<1>4. PICK S : S = {}
  OBVIOUS
<1>5. PICK none : none = <<>>
  OBVIOUS
<1>6. TextsOf(all) \o WaitingText(S) = TextsOf(all)
  <2>1. WaitingText(S) = none
    BY <1>4, <1>5, ReleasedNone
  <2> QED BY <1>3, <1>5, <2>1, ConcatEmptySeq
<1>7. Held(S)
  BY <1>4 DEF Held
<1>8. Answerable(all, S, fed.open)
  <2>1. CASE fed.open = {}
    BY <2>1 DEF Answerable
  <2>2. CASE fed.open # {}
    <3>1. Asked(out, fed.open) /\ \A p \in pending : p.remaining = fed.open
      BY <1>1, <2>2 DEF Answerable
    <3>2. pending = {}
      BY <2>2, <3>1
    <3>3. all = out
      <4>1. Released(pending) = none
        BY <1>5, <3>2, ReleasedNone
      <4> QED BY <1>1, <1>2, <1>5, <4>1, ConcatEmptySeq
    <3> QED BY <1>4, <3>1, <3>3 DEF Answerable
  <2> QED BY <2>1, <2>2
<1>9. Conversing(all, S, fed)
  BY <1>1, <1>3, <1>6, <1>7, <1>8 DEF Conversing
<1> QED BY <1>2, <1>4, <1>9

\* What a user message starts from: text that waits for nobody is released.
LEMMA UserBase ==
  ASSUME Conversing(cvOut, cvPending, cvFed), NEW waits \in BOOLEAN, waits = (\E p \in cvPending : p.remaining # {}),
         NEW base, base = (IF waits THEN cvOut ELSE cvOut \o Released(cvPending)),
         NEW pending, pending = (IF waits THEN cvPending ELSE {})
  PROVE  Conversing(base, pending, cvFed) /\ Still(pending) = pending
<1>1. CASE waits
  <2>1. base = cvOut /\ pending = cvPending
    BY <1>1
  <2>2. \A p, q \in cvPending : p = q
    BY DEF Conversing, Held
  <2>3. \A p \in cvPending : p.remaining # {}
    BY <1>1, <2>2
  <2> QED BY <2>1, <2>3 DEF Still
<1>2. CASE ~waits
  <2>1. base = cvOut \o Released(cvPending) /\ pending = {} /\ \A p \in cvPending : p.remaining = {}
    BY <1>2
  <2>2. Conversing(cvOut \o Released(cvPending), {}, cvFed)
    BY <2>1, ReleasedFirst
  <2>3. Still({}) = {}
    BY DEF Still
  <2> QED BY <2>1, <2>2, <2>3
<1> QED BY <1>1, <1>2

\* The blocks of a user's message: the results, and perhaps a text.
ResultsThenText(blocks, results, text, last) ==
  blocks = [i \in DOMAIN results |-> [kind |-> "tool_result", id |-> results[i]]]
              \o (IF text THEN <<[kind |-> "text", id |-> last]>> ELSE <<>>)

Shaped(k, open, results, blocks, text, last) ==
  /\ Resulting(results, k, open, blocks) /\ LeftOpen(open, results, k) = open \ ToSet(results)
  /\ Len(blocks) = IF text THEN k + 1 ELSE k
  /\ text => blocks[k + 1].kind = "text" /\ blocks[k + 1].id = last

\* The blocks are the results, each once, and perhaps the text.
LEMMA UserShape ==
  ASSUME NEW open, open \subseteq Nat, IsFiniteSet(open), NEW S \in SUBSET open, NEW results \in SetToSeqs(S), NEW text,
         NEW last \in Nat, NEW blocks, ResultsThenText(blocks, results, text, last)
  PROVE  \E k \in Nat : Shaped(k, open, results, blocks, text, last)
<1>1. PICK k : k = Cardinality(S)
  OBVIOUS
<1>2. k \in Nat
  BY <1>1, FS_Subset, FS_CardinalityType
<1>3. results \in [1..k -> S] /\ \A i, j \in 1..k : i # j => results[i] # results[j]
  BY <1>1 DEF SetToSeqs
<1>4. DOMAIN results = 1..k /\ \A i \in 1..k : results[i] \in S /\ results[i] \in open /\ results[i] \in Nat
  BY <1>3
<1>5. PICK B : B = [kind: {"tool_result", "text"}, id: Nat]
  OBVIOUS
<1>6. PICK told : told = [i \in 1..k |-> [kind |-> "tool_result", id |-> results[i]]]
  OBVIOUS
<1>7. \A i \in 1..k : told[i] = [kind |-> "tool_result", id |-> results[i]] /\ told[i] \in B
  BY <1>4, <1>5, <1>6
<1>8. told \in Seq(B) /\ Len(told) = k
  BY <1>2, <1>6, <1>7
<1>9. PICK one : one = [kind |-> "text", id |-> last]
  OBVIOUS
<1>10. one \in B /\ one.kind = "text" /\ one.id = last
  BY <1>5, <1>9
<1>21. PICK tail : tail = IF text THEN <<[kind |-> "text", id |-> last]>> ELSE <<>>
  OBVIOUS
<1>22. blocks = told \o tail
  BY <1>4, <1>6, <1>21 DEF ResultsThenText
<1>11. ASSUME text PROVE tail \in Seq(B) /\ Len(tail) = 1 /\ tail[1] = one
  BY <1>9, <1>10, <1>11, <1>21
<1>12. ASSUME ~text PROVE tail \in Seq(B) /\ Len(tail) = 0
  BY <1>12, <1>21
<1>13. tail \in Seq(B) /\ Len(tail) = IF text THEN 1 ELSE 0
  BY <1>11, <1>12
<1>14. /\ Len(blocks) = Len(told) + Len(tail)
       /\ \A i \in 1..(Len(told) + Len(tail)) : blocks[i] = IF i <= Len(told) THEN told[i] ELSE tail[i - Len(told)]
  BY <1>8, <1>13, <1>22, ConcatProperties
<1>15. Len(blocks) = IF text THEN k + 1 ELSE k
  BY <1>2, <1>8, <1>13, <1>14
<1>16. ASSUME NEW n \in 1..k PROVE blocks[n].kind = "tool_result" /\ blocks[n].id = results[n]
  <2>1. n \in 1..(Len(told) + Len(tail)) /\ n <= Len(told)
    BY <1>2, <1>8, <1>13
  <2>2. blocks[n] = told[n]
    BY <1>14, <2>1
  <2>3. told[n] = [kind |-> "tool_result", id |-> results[n]]
    BY <1>7
  <2>4. told[n].kind = "tool_result" /\ told[n].id = results[n]
    BY <2>3
  <2> QED BY <2>2, <2>4
<1>17. ASSUME text PROVE blocks[k + 1].kind = "text" /\ blocks[k + 1].id = last
  <2>1. k + 1 \in 1..(Len(told) + Len(tail)) /\ ~(k + 1 <= Len(told)) /\ (k + 1) - Len(told) = 1
    BY <1>2, <1>8, <1>13, <1>17
  <2>2. blocks[k + 1] = tail[1]
    BY <1>14, <2>1
  <2> QED BY <1>10, <1>11, <1>17, <2>2
<1>18. results \in [1..k -> open]
  BY <1>3
<1>19. Resulting(results, k, open, blocks)
  BY <1>3, <1>16, <1>18 DEF Resulting
<1>20. LeftOpen(open, results, k) = open \ ToSet(results)
  BY <1>4 DEF LeftOpen, ToSet
<1>23. Shaped(k, open, results, blocks, text, last)
  BY <1>15, <1>17, <1>19, <1>20 DEF Shaped
<1> QED BY <1>2, <1>23

\* The text after the results is a message of its own.
LEMMA TextTurn ==
  ASSUME NEW a, a = [out |-> a.out, texts |-> <<>>, pending |-> a.pending], NEW id \in Nat,
         NEW b, b.kind = "text", b.id = id, NEW user, user = FlushText(UserBlock(a, b)),
         NEW texts, texts = <<id>>
  PROVE  user.out = Append(a.out, Message("user", texts)) /\ user.pending = a.pending
<1>1. a.texts = <<>>
  OBVIOUS
<1>2. Append(a.texts, id) = texts /\ texts # <<>>
  BY <1>1
<1>3. UserBlock(a, b) = [a EXCEPT !.texts = Append(@, id)]
  BY DEF UserBlock
<1>4. PICK c : c = [out |-> a.out, texts |-> texts, pending |-> a.pending]
  OBVIOUS
<1>5. UserBlock(a, b) = c
  BY <1>2, <1>3, <1>4
<1>6. c.texts = texts /\ c.out = a.out /\ c.pending = a.pending
  BY <1>4
<1>7. user = [c EXCEPT !.out = Append(@, Message("user", texts)), !.texts = <<>>]
  BY <1>2, <1>5, <1>6 DEF FlushText
<1> QED BY <1>4, <1>6, <1>7

\* The message of a text.
LEMMA UserMessage ==
  ASSUME NEW texts \in Seq(Nat), NEW m, m = Message("user", texts)
  PROVE  m \in Msg /\ m.result = 0 /\ m.parts = texts
<1>1. PICK none : none = <<>>
  OBVIOUS
<1>2. PICK zero : zero = 0
  OBVIOUS
<1>3. PICK R : R = {"assistant", "user", "tool"}
  OBVIOUS
<1>4. PICK B : B = BOOLEAN
  OBVIOUS
<1>5. PICK no : no = FALSE
  OBVIOUS
<1>6. PICK role : role = "user"
  OBVIOUS
<1>7. role \in R /\ none \in Seq(Nat) /\ zero \in Nat /\ no \in B
  BY <1>1, <1>2, <1>3, <1>4, <1>5, <1>6, EmptySeq
<1>8. m = [role |-> role, parts |-> texts, calls |-> none, result |-> zero, reasoning |-> no]
  BY <1>1, <1>2, <1>5, <1>6 DEF Message
<1>9. m \in [role: R, parts: Seq(Nat), calls: Seq(Nat), result: Nat, reasoning: B]
  BY <1>7, <1>8
<1>10. m.result = zero /\ m.parts = texts
  BY <1>8
<1> QED BY <1>2, <1>3, <1>4, <1>9, <1>10 DEF Msg

\* A user message: results first, then perhaps a text.
LEMMA UserBlocksKeeps ==
  ASSUME ReplayInv, NEW S \in SUBSET cvFed.open, NEW text \in BOOLEAN, NEW results \in SetToSeqs(S),
         UserBlocks(results, text)
  PROVE  ReplayInv'
<1>1. /\ cvMode \in [replay : ReplayModes, raised : BOOLEAN] /\ Conversing(cvOut, cvPending, cvFed)
  BY DEF ReplayInv
<1>2. /\ cvFed \in Fed /\ cvFed.n \in Nat /\ cvFed.next \in Nat /\ cvFed.texts \in Seq(Nat) /\ cvFed.early \in BOOLEAN
      /\ cvFed.open \subseteq Nat /\ IsFiniteSet(cvFed.open) /\ cvOut \in Seq(Msg) /\ Held(cvPending)
  BY <1>1 DEF Conversing, Fed
<1>3. PICK id : id = cvFed.next
  OBVIOUS
<1>4. PICK told : told = [i \in DOMAIN results |-> [kind |-> "tool_result", id |-> results[i]]]
  OBVIOUS
<1>5. PICK tail : tail = IF text THEN <<[kind |-> "text", id |-> id]>> ELSE <<>>
  OBVIOUS
<1>6. PICK blocks : blocks = told \o tail /\ ResultsThenText(blocks, results, text, id)
  BY <1>4, <1>5 DEF ResultsThenText
<1>7. PICK k \in Nat : Shaped(k, cvFed.open, results, blocks, text, id)
  <2>1. PICK open : open = cvFed.open
    OBVIOUS
  <2>2. open \subseteq Nat /\ IsFiniteSet(open) /\ S \in SUBSET open /\ id \in Nat
    BY <1>2, <1>3, <2>1
  <2>3. \E k \in Nat : Shaped(k, open, results, blocks, text, id)
    BY <1>6, <2>2, UserShape, Zenon
  <2> QED BY <2>1, <2>3
<1>8. PICK len : len = Len(blocks)
  OBVIOUS
<1>9. len \in Nat /\ k <= len
  BY <1>7, <1>8 DEF Shaped
<1>10. PICK waits \in BOOLEAN : waits = (\E p \in cvPending : p.remaining # {})
  OBVIOUS
<1>11. PICK base : base = IF waits THEN cvOut ELSE cvOut \o Released(cvPending)
  OBVIOUS
<1>12. PICK pending : pending = IF waits THEN cvPending ELSE {}
  OBVIOUS
<1>13. Conversing(base, pending, cvFed) /\ Still(pending) = pending
  BY <1>1, <1>10, <1>11, <1>12, UserBase
<1>14. PICK f : Stepping(f, blocks, pending, len)
  BY <1>8, <1>9, UserSteps
<1>15. PICK user : user = ConvertUser(blocks, pending)
  OBVIOUS
<1>16. user = FlushText(f[len]) /\ \A n \in 1..len : f[n] = UserBlock(f[n - 1], blocks[n])
  BY <1>14, <1>15 DEF Stepping
<1>17. PICK left : left = LeftOpen(cvFed.open, results, k)
  OBVIOUS
<1>18. left \in SUBSET Nat /\ left = cvFed.open \ ToSet(results)
  BY <1>2, <1>7, <1>17 DEF Shaped, LeftOpen
<1>19. PICK still : still = Still(user.pending)
  OBVIOUS
<1>20. PICK fed : fed = cvFed'
  OBVIOUS
<1>21. /\ cvMode' = cvMode /\ cvPending' = still
       /\ fed = [cvFed EXCEPT !.n = @ + 1, !.next = IF text THEN @ + 1 ELSE @,
                              !.texts = IF text THEN Append(@, cvFed.next) ELSE @,
                              !.open = IF text THEN {} ELSE @ \ ToSet(results),
                              !.early = @ \/ (text /\ still # {})]
       /\ cvOut' = IF waits THEN cvOut \o user.out ELSE cvOut \o Released(cvPending) \o user.out
  BY <1>3, <1>4, <1>5, <1>6, <1>10, <1>12, <1>15, <1>19, <1>20 DEF UserBlocks, Still
<1>22. cvOut' = base \o user.out
  BY <1>11, <1>21
<1>23. PICK a : a = f[k]
  OBVIOUS
<1>24. PICK n : n = cvFed.n + 1
  OBVIOUS
<1>25. n \in Nat /\ id \in Nat /\ id + 1 \in Nat
  BY <1>2, <1>3, <1>24
<1>26. ASSUME NEW next, Feeding(next, cvFed.texts, left, cvFed.early)
       PROVE  /\ a = [out |-> a.out, texts |-> <<>>, pending |-> a.pending]
              /\ a.out \in Seq(Msg)
              /\ Conversing(base \o a.out, Still(a.pending), next)
  <2>1. Resulting(results, k, cvFed.open, blocks)
    BY <1>7 DEF Shaped
  <2>2. Turning(base, pending, cvFed, blocks, len, f, k, results, left, next)
    BY <1>9, <1>13, <1>14, <1>17, <1>26, <2>1 DEF Turning
  <2> QED BY <1>23, <2>2, ResultsTurn
<1>27. CASE ~text
  <2>1. FedAs(fed, n, id, cvFed.texts, left, cvFed.early)
    BY <1>2, <1>3, <1>18, <1>21, <1>24, <1>27 DEF Fed, FedAs
  <2>2. Feeding(fed, cvFed.texts, left, cvFed.early)
    BY <1>2, <1>18, <1>25, <2>1, FedIs
  <2>3. /\ a = [out |-> a.out, texts |-> <<>>, pending |-> a.pending]
        /\ Conversing(base \o a.out, Still(a.pending), fed)
    BY <1>26, <2>2
  <2>4. len = k
    BY <1>7, <1>8, <1>27 DEF Shaped
  <2>5. user = a
    BY <1>16, <1>23, <2>3, <2>4 DEF FlushText
  <2>6. PICK out : out = base \o user.out
    OBVIOUS
  <2>7. Conversing(out, still, fed) /\ cvOut' = out
    BY <1>19, <1>22, <2>3, <2>5, <2>6
  <2>8. Conversing(cvOut, cvPending, cvFed)'
    BY <1>20, <1>21, <2>7, ConversingNext
  <2> QED BY <1>1, <1>21, <2>8 DEF ReplayInv
<1>28. CASE text
  <2>1. PICK mid : mid = [n |-> n, next |-> id, texts |-> cvFed.texts, open |-> left, early |-> cvFed.early]
    OBVIOUS
  <2>2. FedAs(mid, n, id, cvFed.texts, left, cvFed.early)
    BY <2>1 DEF FedAs
  <2>3. Feeding(mid, cvFed.texts, left, cvFed.early)
    BY <1>2, <1>18, <1>25, <2>2, FedIs
  <2>4. /\ a = [out |-> a.out, texts |-> <<>>, pending |-> a.pending]
        /\ a.out \in Seq(Msg)
        /\ Conversing(base \o a.out, Still(a.pending), mid)
    BY <1>26, <2>3
  <2>5. len = k + 1 /\ k + 1 \in 1..len /\ (k + 1) - 1 = k
    BY <1>7, <1>8, <1>28 DEF Shaped
  <2>6. PICK b : b = blocks[k + 1]
    OBVIOUS
  <2>7. b.kind = "text" /\ b.id = id
    BY <1>7, <1>28, <2>6 DEF Shaped
  <2>8. user = FlushText(UserBlock(a, b))
    BY <1>16, <1>23, <2>5, <2>6
  <2>9. PICK texts : texts = <<id>>
    OBVIOUS
  <2>10. PICK m : m = Message("user", texts)
    OBVIOUS
  <2>11. texts \in Seq(Nat)
    BY <1>25, <2>9
  <2>12. user.out = Append(a.out, m) /\ user.pending = a.pending
    BY <1>25, <2>4, <2>7, <2>8, <2>9, <2>10, TextTurn
  <2>13. m \in Msg /\ m.result = 0 /\ m.parts = texts
    BY <2>10, <2>11, UserMessage
  <2>14. PICK here : here = base \o a.out
    OBVIOUS
  <2>15. base \in Seq(Msg)
    BY <1>13 DEF Conversing
  <2>16. cvOut' = Append(here, m)
    BY <1>22, <2>4, <2>12, <2>13, <2>14, <2>15, AppendInner
  <2>17. Conversing(here, still, mid)
    BY <1>19, <2>4, <2>12, <2>14
  <2>18. PICK more : more = cvFed.texts \o texts
    OBVIOUS
  <2>19. PICK early : early = (cvFed.early \/ still # {})
    OBVIOUS
  <2>20. PICK none : none = {}
    OBVIOUS
  <2>21. more \in Seq(Nat) /\ early \in BOOLEAN /\ none \in SUBSET Nat /\ more = Append(cvFed.texts, id)
    BY <1>2, <1>25, <2>9, <2>11, <2>18, <2>19, <2>20, ToSetConcat, AppendIsConcat
  <2>22. FedAs(fed, n, id + 1, more, none, early)
    BY <1>2, <1>3, <1>21, <1>24, <1>28, <2>19, <2>20, <2>21 DEF Fed, FedAs
  <2>23. Feeding(fed, more, none, early)
    <3>1. PICK after : after = id + 1
      OBVIOUS
    <3> QED BY <1>25, <2>21, <2>22, <3>1, FedIs
  <2>24. mid.texts = cvFed.texts /\ mid.early = cvFed.early
    BY <2>3 DEF Feeding
  <2>25. Feeding(fed, mid.texts \o texts, {}, mid.early \/ still # {})
    BY <2>18, <2>19, <2>20, <2>23, <2>24
  <2>26. PICK out : out = Append(here, m)
    OBVIOUS
  <2>27. Conversing(out, still, fed)
    BY <2>11, <2>13, <2>17, <2>25, <2>26, SpokenBefore
  <2>28. cvOut' = out
    BY <2>16, <2>26
  <2>29. Conversing(cvOut, cvPending, cvFed)'
    BY <1>20, <1>21, <2>27, <2>28, ConversingNext
  <2> QED BY <1>1, <1>21, <2>29 DEF ReplayInv
<1> QED BY <1>27, <1>28

-----------------------------------------------------------------------------
(***************************************************************************)
(* The conversation, for any contents of the messages and any number of    *)
(* them.                                                                   *)
(***************************************************************************)
\* Initially nothing was fed or replayed.
LEMMA ReplayStarts == CVInit => ReplayInv
<1>1. SUFFICES ASSUME CVInit PROVE ReplayInv
  OBVIOUS
<1>2. PICK none : none = <<>>
  OBVIOUS
<1>3. PICK S : S = {}
  OBVIOUS
<1>4. PICK no : no = FALSE
  OBVIOUS
<1>5. /\ cvMode \in [replay : ReplayModes, raised : {FALSE}] /\ cvOut = none /\ cvPending = S
      /\ FedAs(cvFed, 0, 1, none, S, no)
  BY <1>1, <1>2, <1>3, <1>4 DEF CVInit, FedAs
<1>6. cvMode \in [replay : ReplayModes, raised : BOOLEAN]
  BY <1>5
<1>7. none \in Seq(Nat) /\ none \in Seq(Msg) /\ S \in SUBSET Nat /\ no \in BOOLEAN
  BY <1>2, <1>3, <1>4, EmptySeq
<1>8. Feeding(cvFed, none, S, no)
  <2>1. PICK zero \in Nat : zero = 0
    OBVIOUS
  <2>2. PICK one \in Nat : one = 1
    OBVIOUS
  <2> QED BY <1>5, <1>7, <2>1, <2>2, FedIs
<1>9. cvFed \in Fed /\ cvFed.texts = none /\ cvFed.open = S /\ cvFed.early = no
  BY <1>8 DEF Feeding
<1>10. WaitingText(S) = none /\ TextsOf(none) = none /\ none \o none = none
  BY <1>2, <1>3, <1>7, ReleasedNone, TextsEmpty, ConcatEmptySeq
<1>11. Faithful(TextsOf(none) \o WaitingText(S), none, no)
  BY <1>10 DEF Faithful
<1>12. Held(S) /\ IsFiniteSet(S) /\ Answerable(none, S, S)
  BY <1>3, FS_EmptySet DEF Held, Answerable
<1>13. ResultsFollow(none)
  BY <1>2 DEF ResultsFollow
<1>14. Conversing(none, S, cvFed)
  BY <1>7, <1>9, <1>11, <1>12, <1>13 DEF Conversing
<1> QED BY <1>5, <1>6, <1>14 DEF ReplayInv

\* Every message keeps the invariant.
LEMMA ReplaySteps == ReplayInv /\ [CVNext]_cvVars => ReplayInv'
<1>1. SUFFICES ASSUME ReplayInv, [CVNext]_cvVars PROVE ReplayInv'
  OBVIOUS
<1>2. ASSUME NEW kinds \in AssistantKinds \cup {<<"image">>}, Unsupported(kinds) PROVE ReplayInv'
  BY <1>1, <1>2, UnsupportedKeeps
<1>3. ASSUME NEW kinds \in AssistantKinds, NEW top \in BOOLEAN, AssistantBlocks(kinds, top) PROVE ReplayInv'
  BY <1>1, <1>3, AssistantBlocksKeeps
<1>4. ASSUME NEW role \in {"assistant", "user"}, NEW top \in BOOLEAN, StringMessage(role, top) PROVE ReplayInv'
  BY <1>1, <1>4, StringMessageKeeps
<1>5. ASSUME NEW S \in SUBSET cvFed.open, NEW text \in BOOLEAN, NEW results \in SetToSeqs(S), UserBlocks(results, text)
      PROVE  ReplayInv'
  BY <1>1, <1>5, UserBlocksKeeps
<1>6. CASE UNCHANGED cvVars
  BY <1>1, <1>6, UnsupportedKeeps
<1> QED BY <1>1, <1>2, <1>3, <1>4, <1>5, <1>6 DEF CVNext

\* What waits could be released in any state.
LEMMA ReplayShows == ReplayInv => ConversationReplayed
<1>1. SUFFICES ASSUME ReplayInv PROVE ConversationReplayed
  OBVIOUS
<1>2. /\ cvOut \in Seq(Msg) /\ Held(cvPending) /\ ResultsFollow(cvOut)
      /\ Faithful(TextsOf(cvOut) \o WaitingText(cvPending), cvFed.texts, cvFed.early)
  BY <1>1 DEF ReplayInv, Conversing
<1>3. PICK all : all = Replayed
  OBVIOUS
<1>4. ResultsFollow(all) /\ TextsOf(all) = TextsOf(cvOut) \o WaitingText(cvPending)
  BY <1>2, <1>3, ReleaseAll DEF Replayed
<1>5. Faithful(TextsOf(all), cvFed.texts, cvFed.early)
  BY <1>2, <1>4
<1> QED BY <1>3, <1>4, <1>5 DEF ConversationReplayed, Faithful

\* convert_messages gives the provider every text the replay mode keeps, once,
\* and the results of a message right behind it, for any messages and any number
\* of them of a client that sends known results and none twice.  The texts are
\* in their order unless one came early: an assistant's plain string, or a
\* user's text with results left out, while other text was still held back.
THEOREM ConversationsReplayed == CVSpec => []ConversationReplayed
<1> QED BY ReplayStarts, ReplaySteps, ReplayShows, PTL DEF CVSpec
=============================================================================
