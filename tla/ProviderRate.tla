--------------------------- MODULE ProviderRate ---------------------------
(***************************************************************************)
(* GlobalRateLimiter (providers/rate_limit.py) as the transports use it:   *)
(* a concurrency slot around the stream, execute_with_retry around the     *)
(* call, map_error when it failed for good.  Time is counted in seconds    *)
(* and passes whenever it likes: a task may run long after it woke up.     *)
(***************************************************************************)
EXTENDS SlidingWindow, FiniteSets

CONSTANTS Requests, MaxConcurrency, MaxRetries, BaseDelay, MaxDelay, MapDelay, MaxTime

ASSUME RequestsAssumption == IsFiniteSet(Requests) /\ MaxConcurrency \in Nat

VARIABLES rReq, rFree, rBlockedUntil

rVars == <<swVars, rReq, rFree, rBlockedUntil>>

RInit ==
    /\ SWInit
    /\ rReq = [q \in Requests |-> [pc |-> "new", attempt |-> 0, wake |-> 0, again |-> FALSE]]
    /\ rFree = MaxConcurrency
    /\ rBlockedUntil = 0

At(q, pc) == rReq[q].pc = pc
To(q, pc) == rReq' = [rReq EXCEPT ![q].pc = pc]
Sleep(q, pc, t) == rReq' = [rReq EXCEPT ![q].pc = pc, ![q].wake = t]

\* concurrency_slot
OpenSlot(q) ==
    /\ At(q, "new") /\ rFree > 0
    /\ rFree' = rFree - 1 /\ To(q, "check")
    /\ UNCHANGED <<swVars, rBlockedUntil>>

\* wait_if_blocked: the block is looked at once, before the window.
WaitIfBlocked(q) ==
    /\ At(q, "check")
    /\ IF swNow < rBlockedUntil THEN Sleep(q, "blocked", rBlockedUntil) ELSE To(q, "acquire")
    /\ UNCHANGED <<swVars, rFree, rBlockedUntil>>

Wakes(q) ==
    /\ rReq[q].pc \in {"blocked", "window", "backoff"} /\ swNow >= rReq[q].wake
    /\ To(q, IF At(q, "backoff") THEN "check" ELSE "acquire")
    /\ UNCHANGED <<swVars, rFree, rBlockedUntil>>

AcquireProactiveSlot(q) ==
    /\ At(q, "acquire")
    /\ \E k \in swFirst..(Len(swGrants) + 1) :
          \/ Grant(k) /\ To(q, "call")
          \/ Full(k) /\ Sleep(q, "window", swGrants[k] + RateWindow)
    /\ UNCHANGED <<rFree, rBlockedUntil>>

Delay(attempt) == IF BaseDelay * 2^attempt < MaxDelay THEN BaseDelay * 2^attempt ELSE MaxDelay

\* A 429 blocks everyone, this request included, and is tried again.
Backoff(q, jitter) ==
    LET until == swNow + Delay(rReq[q].attempt) + jitter
    IN  /\ At(q, "call") /\ rReq[q].attempt < MaxRetries
        /\ rBlockedUntil' = until
        /\ rReq' = [rReq EXCEPT ![q] = [pc |-> "backoff", attempt |-> @.attempt + 1, wake |-> until,
                                         again |-> @.again]]
        /\ UNCHANGED <<swVars, rFree>>

MutantLeave(q, pc) == To(q, pc) /\ UNCHANGED rFree

\* Leaving the slot, on every way out of the stream.
Leave(q, pc) == To(q, pc) /\ rFree' = rFree + 1

\* The last 429 is mapped to an error and blocks for a minute; any other
\* failure of the call is not retried.
GivesUp(q) ==
    /\ At(q, "call") /\ rReq[q].attempt = MaxRetries
    /\ rBlockedUntil' = swNow + MapDelay /\ Leave(q, "failed")
    /\ UNCHANGED swVars

\* A rejected body (400) is changed and sent once more from inside the same
\* slot, with retries of its own (_create_stream).
CallsAgain(q) ==
    /\ At(q, "call") /\ ~rReq[q].again
    /\ rReq' = [rReq EXCEPT ![q] = [pc |-> "check", attempt |-> 0, wake |-> @.wake, again |-> TRUE]]
    /\ UNCHANGED <<swVars, rFree, rBlockedUntil>>

CallFails(q) == At(q, "call") /\ Leave(q, "failed") /\ UNCHANGED <<swVars, rBlockedUntil>>
CallSucceeds(q) == At(q, "call") /\ To(q, "stream") /\ UNCHANGED <<swVars, rFree, rBlockedUntil>>
StreamEnds(q) == At(q, "stream") /\ Leave(q, "done") /\ UNCHANGED <<swVars, rBlockedUntil>>

\* The client goes away: the task is cancelled at whatever it awaits.
CancelStream(q) ==
    /\ rReq[q].pc \notin {"new", "done", "failed"}
    /\ Leave(q, "failed")
    /\ UNCHANGED <<swVars, rBlockedUntil>>

RTick == swNow < MaxTime /\ Pass(1) /\ UNCHANGED <<rReq, rFree, rBlockedUntil>>

RNext ==
    \/ RTick
    \/ \E q \in Requests :
          \/ OpenSlot(q) \/ WaitIfBlocked(q) \/ Wakes(q) \/ AcquireProactiveSlot(q)
          \/ \E j \in {0, 1} : Backoff(q, j)
          \/ GivesUp(q) \/ CallsAgain(q) \/ CallFails(q) \/ CallSucceeds(q) \/ StreamEnds(q) \/ CancelStream(q)

RSpec == RInit /\ [][RNext]_rVars

\* The requests inside concurrency_slot.
InSlot == {q \in Requests : rReq[q].pc \notin {"new", "done", "failed"}}

\* Streams open at once never exceed the cap, and a slot comes back on every
\* way out: success, a failed call, exhausted retries, cancellation.
SlotsAccounted ==
    /\ rFree >= 0
    /\ rFree + Cardinality(InSlot) = MaxConcurrency

-----------------------------------------------------------------------------
\* With the shape of the rows, the accounting is inductive.
RateInv ==
    /\ DOMAIN rReq = Requests /\ rReq = [q \in Requests |-> rReq[q]]
    /\ \A q \in Requests : rReq[q] = [pc |-> rReq[q].pc, attempt |-> rReq[q].attempt, wake |-> rReq[q].wake,
                                      again |-> rReq[q].again]
    /\ rFree \in Nat
    /\ SlotsAccounted
=============================================================================
