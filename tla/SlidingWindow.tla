--------------------------- MODULE SlidingWindow ---------------------------
(***************************************************************************)
(* StrictSlidingWindowLimiter (core/rate_limit.py).  swGrants is the time  *)
(* of every acquisition so far; the deque _times of the code is its part   *)
(* from swFirst on: popleft advances swFirst, append appends.  Each turn   *)
(* of the loop of acquire is under the lock and so is one step.            *)
(***************************************************************************)
EXTENDS Integers, Sequences

CONSTANTS RateLimit, RateWindow

ASSUME RateAssumption == RateLimit \in Nat \ {0} /\ RateWindow \in Nat \ {0}

VARIABLES swNow, swGrants, swFirst

swVars == <<swNow, swGrants, swFirst>>

SWInit == swNow = 0 /\ swGrants = <<>> /\ swFirst = 1

MutantPopped(k) ==
    /\ \A i \in swFirst..(k - 1) : swGrants[i] <= swNow - RateWindow + 1
    /\ k <= Len(swGrants) => swGrants[k] > swNow - RateWindow + 1

\* Everything older than the window has been popped when the deque begins at k.
Popped(k) ==
    /\ \A i \in swFirst..(k - 1) : swGrants[i] <= swNow - RateWindow
    /\ k <= Len(swGrants) => swGrants[k] > swNow - RateWindow

Waiting(k) == Len(swGrants) - k + 1

\* The branches of acquire: take a slot, or find the window full.
Grant(k) ==
    /\ Popped(k) /\ Waiting(k) < RateLimit
    /\ swFirst' = k /\ swGrants' = Append(swGrants, swNow)
    /\ UNCHANGED swNow

Full(k) ==
    /\ Popped(k) /\ Waiting(k) >= RateLimit
    /\ swFirst' = k
    /\ UNCHANGED <<swNow, swGrants>>

\* Time passes, by one or by a long pause.
Pass(d) == swNow' = swNow + d /\ UNCHANGED <<swGrants, swFirst>>

SWNext ==
    \/ \E k \in swFirst..(Len(swGrants) + 1) : Grant(k) \/ Full(k)
    \/ \E d \in Nat \ {0} : Pass(d)

SWSpec == SWInit /\ [][SWNext]_swVars

SWTypeOK == swNow \in Nat /\ swGrants \in Seq(Nat) /\ swFirst \in 1..(Len(swGrants) + 1)

\* "At most rate_limit acquisitions in any interval of length rate_window":
\* of RateLimit + 1 acquisitions in a row the last comes a full window after
\* the first, however many tasks wait and whenever they wake up.
WindowKept ==
    \A i \in DOMAIN swGrants :
        i + RateLimit <= Len(swGrants) => swGrants[i + RateLimit] - swGrants[i] >= RateWindow
=============================================================================
