----------------------------- MODULE JobLifecycle -----------------------------
(***************************************************************************)
(* What the controller promises about jobs, without tables, run ids,       *)
(* leases or clocks: a submitted job is held by at most one worker at a    *)
(* time, is handed out again only if its policy allows it, may stop at     *)
(* each of its declared gates once, and ends once.                         *)
(***************************************************************************)
EXTENDS Integers

CONSTANTS
  Job, Worker, Gate,
  Retryable,       \* the jobs that may be handed out more than once
  Declared,        \* Declared[j]: the gates job j may stop at
  Parent           \* Parent[j]: the jobs that must be done before j is handed out

VARIABLES
  phase,           \* "new", "ready", "held", "asking" or how the job ended
  holders,         \* the workers the job is granted to
  grants,          \* how often the job was granted
  asking,          \* the gates the job waits at
  passed           \* the gates a human approved

lvars == <<phase, holders, grants, asking, passed>>

Ended == {"DONE", "BLOCKED", "FAILED", "NEEDS_RECONCILIATION", "CANCELLED"}

LInit ==
  /\ phase = [j \in Job |-> "new"]
  /\ holders = [j \in Job |-> {}]
  /\ grants = [j \in Job |-> 0]
  /\ asking = [j \in Job |-> {}]
  /\ passed = [j \in Job |-> {}]

Submit(j) ==
  /\ phase[j] = "new"
  /\ phase' = [phase EXCEPT ![j] = "ready"]
  /\ UNCHANGED <<holders, grants, asking, passed>>

Grant(j, w) ==
  /\ phase[j] = "ready" /\ holders[j] = {}
  /\ \A p \in Parent[j] : phase[p] = "DONE"
  /\ grants[j] = 0 \/ j \in Retryable
  /\ phase' = [phase EXCEPT ![j] = "held"]
  /\ holders' = [holders EXCEPT ![j] = {w}]
  /\ grants' = [grants EXCEPT ![j] = @ + 1]
  /\ UNCHANGED <<asking, passed>>

\* Where a job goes when it must be started again.
Again(j) == IF j \in Retryable THEN "ready" ELSE "NEEDS_RECONCILIATION"

\* The holders of the jobs in S have vanished.
Revoke(S) ==
  /\ S # {} /\ \A j \in S : phase[j] = "held"
  /\ phase' = [j \in Job |-> IF j \in S THEN Again(j) ELSE phase[j]]
  /\ holders' = [j \in Job |-> IF j \in S THEN {} ELSE holders[j]]
  /\ UNCHANGED <<grants, asking, passed>>

Finish(j, outcome) ==
  /\ phase[j] = "held"
  /\ phase' = [phase EXCEPT ![j] = outcome]
  /\ holders' = [holders EXCEPT ![j] = {}]
  /\ UNCHANGED <<grants, asking, passed>>

Ask(j, g) ==
  /\ phase[j] = "held" /\ g \in Declared[j] \ passed[j]
  /\ phase' = [phase EXCEPT ![j] = "asking"]
  /\ holders' = [holders EXCEPT ![j] = {}]
  /\ asking' = [asking EXCEPT ![j] = {g}]
  /\ UNCHANGED <<grants, passed>>

Approve(j, g) ==
  /\ asking[j] = {g}
  /\ phase' = [phase EXCEPT ![j] = Again(j)]
  /\ asking' = [asking EXCEPT ![j] = {}]
  /\ passed' = [passed EXCEPT ![j] = @ \cup {g}]
  /\ UNCHANGED <<holders, grants>>

Reject(j, g) ==
  /\ asking[j] = {g}
  /\ phase' = [phase EXCEPT ![j] = "CANCELLED"]
  /\ asking' = [asking EXCEPT ![j] = {}]
  /\ UNCHANGED <<holders, grants, passed>>

LNext ==
  \/ \E j \in Job : Submit(j)
  \/ \E j \in Job, w \in Worker : Grant(j, w)
  \/ \E S \in SUBSET Job : Revoke(S)
  \/ \E j \in Job, outcome \in {"DONE", "BLOCKED", "FAILED"} : Finish(j, outcome)
  \/ \E j \in Job, g \in Gate : Ask(j, g) \/ Approve(j, g) \/ Reject(j, g)

LSpec == LInit /\ [][LNext]_lvars

=============================================================================
