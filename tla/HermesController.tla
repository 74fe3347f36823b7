--------------------------- MODULE HermesController ---------------------------
(***************************************************************************)
(* The Hermes controller: the job queue, the leased runs and the human     *)
(* gates kept in one SQLite database by hermes_controller/controller.py.   *)
(* One action is one public method of class Controller, taken as a whole:  *)
(* the HTTP server runs its handlers one at a time under request_lock.     *)
(* (Module ControllerStatements opens the methods that are not             *)
(* transactions into their SQL statements.)                                *)
(*                                                                         *)
(* Time is kept relative: `left' of a run is lease_expires_at - now and    *)
(* `age' of a worker is now - last_heartbeat_at, both clipped where the    *)
(* code no longer tells values apart.  A step of Tick is one unit of the   *)
(* clock.                                                                  *)
(***************************************************************************)
EXTENDS Integers, FiniteSets

CONSTANTS
  Job,             \* job_id of the tasks that may be enqueued, ordered as Nat
  Worker,          \* worker_id
  RunId,           \* BOUND: the run ids that uuid4 may still hand out
  Gate,            \* names of human gates
  Descriptor,      \* worker descriptors that may be registered
  Task,            \* Task[j]: the task snapshot enqueued as job j
  Payload,         \* the result payloads workers report
  LeaseDuration,   \* LEASE_DURATION_MS in clock units
  WorkerOffline,   \* WORKER_OFFLINE_MS in clock units
  None             \* SQL NULL / JSON null

VARIABLES
  jobs,            \* table jobs
  runs,            \* table runs
  workers,         \* table workers
  decisions        \* table gate_decisions, keyed by (job, gate)

vars == <<jobs, runs, workers, decisions>>

RESULT_STATUSES == {"DONE", "WAIT_USER", "BLOCKED", "FAILED"}

JobState == {"ABSENT", "QUEUED", "RUNNING", "NEEDS_RECONCILIATION", "CANCELLED"}
              \cup RESULT_STATUSES

RunState == {"UNUSED", "RUNNING", "STALE"} \cup RESULT_STATUSES

\* Task states that no operation of the controller leaves.
FinalJobState == {"DONE", "BLOCKED", "FAILED", "NEEDS_RECONCILIATION", "CANCELLED"}

(***************************************************************************)
(* A result envelope.  A worker copies job_id, worker_id, attempt,         *)
(* lease_id and lease_token from one claim, and those five columns of a    *)
(* run never change: `claim' names the run they were copied from.          *)
(***************************************************************************)
Envelope == [run: RunId, claim: RunId, body: Payload]

Engine == {"codex", "claude", "hybrid", "brainstorm", "native", "github_api"}

ResultPayload == [status: RESULT_STATUSES, gate: Gate \cup {None},
                  engine: Engine \cup {None}, legacy: BOOLEAN, artifacts_ok: BOOLEAN]

\* What ingest_result stores: the payload and whether the gate policy rewrote it.
StoredResult == [body: ResultPayload, policy: BOOLEAN]

JobRow == [state: JobState, attempt: Nat, active: RunId \cup {None}, created: Nat]

RunRow == [state: RunState, job: Job \cup {None}, worker: Worker \cup {None},
           attempt: Nat, left: -1 .. LeaseDuration, result: StoredResult \cup {None}]

WorkerRow == [descriptor: Descriptor \cup {None}, age: 0 .. WorkerOffline + 1]

DecisionRow == [decision: {"APPROVED", "REJECTED"}, source: RunId, disposition: JobState]

ASSUME ConstantsAssumption ==
  /\ Job \subseteq Nat
  /\ LeaseDuration \in Nat /\ WorkerOffline \in Nat
  /\ None \notin RunId /\ None \notin Gate /\ None \notin Job /\ None \notin Worker
  /\ None \notin Descriptor
  /\ \A d \in Descriptor : d.max_concurrent_jobs \in Nat
  /\ \A j \in Job : Task[j].human_gates \subseteq Gate
  /\ \A j \in Job : Task[j].depends_on \in Job \cup {None}
  /\ Payload \subseteq ResultPayload

\* A stored row or result is not NULL.
ASSUME NullAssumption == None \notin StoredResult /\ None \notin DecisionRow

-----------------------------------------------------------------------------
NoJob == [state |-> "ABSENT", attempt |-> 0, active |-> None, created |-> 0]

NoRunRow == [state |-> "UNUSED", job |-> None, worker |-> None, attempt |-> 0,
             left |-> 0, result |-> None]

Init ==
  /\ jobs = [j \in Job |-> NoJob]
  /\ runs = [r \in RunId |-> NoRunRow]
  /\ workers = [w \in Worker |-> [descriptor |-> None, age |-> 0]]
  /\ decisions = [j \in Job |-> [g \in Gate |-> None]]

-----------------------------------------------------------------------------
(***************************************************************************)
(* What the methods read.                                                  *)
(***************************************************************************)
Enqueued(j) == jobs[j].state # "ABSENT"

Idempotent(j) == Task[j].idempotency_policy = "safe_retry"

RunsOf(j) == {r \in RunId : runs[r].state # "UNUSED" /\ runs[r].job = j}

\* The lease predicate of claim and heartbeat_run: lease_expires_at >= now.
Live(r) == runs[r].state = "RUNNING" /\ runs[r].left >= 0

\* The lease predicate of reconcile_expired_leases: lease_expires_at < now.
Expired(r) == runs[r].state = "RUNNING" /\ runs[r].left < 0

LiveRuns(w) == {r \in RunId : Live(r) /\ runs[r].worker = w}

\* _worker_matches
Matches(w, j) ==
  LET d == workers[w].descriptor
      t == Task[j]
  IN  /\ t.worker_id \in {None, w}
      /\ d.platform = t.platform
      /\ t.required_capabilities \subseteq d.capabilities

\* Mutant: the dependency is not joined.
RunnableAnyParent(j) == jobs[j].state = "QUEUED"

\* The WHERE clause of the SELECT of claim.
Runnable(j) ==
  /\ jobs[j].state = "QUEUED"
  /\ Task[j].depends_on # None => jobs[Task[j].depends_on].state = "DONE"

\* ORDER BY created_at, job_id
Before(i, j) ==
  \/ jobs[i].created < jobs[j].created
  \/ jobs[i].created = jobs[j].created /\ i < j

\* The first row of the SELECT that the worker matches.
NextFor(w, j) ==
  /\ Runnable(j) /\ Matches(w, j)
  /\ \A i \in Job \ {j} : Runnable(i) /\ Matches(w, i) => Before(j, i)

\* _task_engine
TaskEngine(t) ==
  IF "github_api" \in t.integrations THEN "github_api"
  ELSE IF t.execution_engine # None THEN t.execution_engine
  ELSE IF "codex" \in t.required_capabilities THEN "codex" ELSE "native"

\* _gate_is_approved
GateIsApproved(j, g) == decisions[j][g] # None /\ decisions[j][g].decision = "APPROVED"

\* _approved_gates: what claim hands to the worker as _hermes_gate_context.
ApprovedGates(j) == {g \in Gate : GateIsApproved(j, g)}

\* _current_waiting_gate: the WAIT_USER run of the latest attempt, if any.
IsWaitingRun(j, r) ==
  /\ r \in RunsOf(j) /\ runs[r].state = "WAIT_USER"
  /\ \A q \in RunsOf(j) : runs[q].state = "WAIT_USER" => runs[q].attempt <= runs[r].attempt

WaitingGate(r) == runs[r].result.body.gate

(***************************************************************************)
(* The checks of ingest_result, in the order the method makes them.        *)
(***************************************************************************)
\* _validate_envelope: the artifacts pass validate_artifacts, and engine_result names
\* its engine while the legacy codex_result names codex or none.
WellFormed(p) ==
  /\ p.artifacts_ok
  /\ IF p.legacy THEN p.engine \in {None, "codex"} ELSE p.engine # None

\* run["state"] in RESULT_STATUSES and run["result_json"] == incoming
SameResult(e) ==
  /\ runs[e.run].state \in RESULT_STATUSES
  /\ e.claim = e.run
  /\ runs[e.run].result = [body |-> e.body, policy |-> FALSE]

\* Mutant: only the identity of the envelope is compared.
OwnsLeaseByIdentity(e) == runs[e.run].state # "UNUSED" /\ e.claim = e.run

\* The run is RUNNING, the envelope has its identity, and it is active.
OwnsLease(e) ==
  /\ runs[e.run].state = "RUNNING"
  /\ e.claim = e.run
  /\ jobs[runs[e.run].job].active = e.run

EngineMatches(j, p) ==
  LET expected == TaskEngine(Task[j])
  IN  IF p.legacy
      THEN expected # "github_api" /\ p.engine \in {None, expected}
      ELSE p.engine = expected

\* Mutant: any named gate may be asked for.
GateAllowedUndeclared(j, p) ==
  IF p.status = "WAIT_USER" THEN p.gate # None ELSE p.gate = None

GateAllowed(j, p) ==
  IF p.status = "WAIT_USER" THEN p.gate \in Task[j].human_gates ELSE p.gate = None

IngestVerdict(e) ==
  IF ~WellFormed(e.body) THEN "refused"
  ELSE IF SameResult(e) THEN "duplicate"
  ELSE IF ~OwnsLease(e) THEN "stale"
  ELSE IF ~EngineMatches(runs[e.run].job, e.body) THEN "refused"
  ELSE IF ~GateAllowed(runs[e.run].job, e.body) THEN "refused"
  ELSE "accepted"

\* Mutant: an approved gate may be asked for again.
NormalizedNever(j, p) == [body |-> p, policy |-> FALSE]

\* A request for a gate that is already approved is stored as BLOCKED.
Normalized(j, p) ==
  IF p.status = "WAIT_USER" /\ GateIsApproved(j, p.gate)
  THEN [body |-> [p EXCEPT !.status = "BLOCKED", !.gate = None], policy |-> TRUE]
  ELSE [body |-> p, policy |-> FALSE]

-----------------------------------------------------------------------------
(***************************************************************************)
(* register_worker, heartbeat_worker                                       *)
(***************************************************************************)
RegisterWorker(w, d) ==
  /\ workers' = [workers EXCEPT ![w] = [descriptor |-> d, age |-> 0]]
  /\ UNCHANGED <<jobs, runs, decisions>>

HeartbeatWorker(w) ==
  /\ workers[w].descriptor # None
  /\ workers' = [workers EXCEPT ![w].age = 0]
  /\ UNCHANGED <<jobs, runs, decisions>>

(***************************************************************************)
(* enqueue.  A task whose idempotency_key is already in the table returns  *)
(* that job and inserts nothing.  The foreign key lets a job depend on     *)
(* itself.  created_at is the clock in milliseconds: two tasks enqueued    *)
(* one after the other may carry the same value.                           *)
(***************************************************************************)
KeyTaken(j) ==
  /\ Task[j].idempotency_key # None
  /\ \E i \in Job : Enqueued(i) /\ Task[i].idempotency_key = Task[j].idempotency_key

CreatedNow(t) ==
  /\ \A i \in Job : jobs[i].created <= t
  /\ \E i \in Job : t \in {jobs[i].created, jobs[i].created + 1}

Enqueue(j, t) ==
  /\ ~Enqueued(j) /\ ~KeyTaken(j)
  /\ Task[j].depends_on \notin {None, j} => Enqueued(Task[j].depends_on)
  /\ CreatedNow(t)
  /\ jobs' = [jobs EXCEPT ![j] = [NoJob EXCEPT !.state = "QUEUED", !.created = t]]
  /\ UNCHANGED <<runs, workers, decisions>>

(***************************************************************************)
(* claim: one BEGIN IMMEDIATE transaction.  Either the first matching job  *)
(* becomes a new leased run, or only the worker's heartbeat is written.    *)
(***************************************************************************)
\* Mutant: off by one.
HasCapacityInclusive(w) ==
  Cardinality(LiveRuns(w)) <= workers[w].descriptor.max_concurrent_jobs

HasCapacity(w) ==
  Cardinality(LiveRuns(w)) < workers[w].descriptor.max_concurrent_jobs

\* Mutants: the attempt is not advanced, the worker is not recorded.
LeaseSameAttempt(w, j, r) ==
  /\ jobs' = [jobs EXCEPT ![j].state = "RUNNING", ![j].active = r]
  /\ runs' = [runs EXCEPT ![r] = [state |-> "RUNNING", job |-> j, worker |-> w,
                                  attempt |-> jobs[j].attempt + 1,
                                  left |-> LeaseDuration, result |-> None]]

LeaseWithoutWorker(w, j, r) ==
  /\ jobs' = [jobs EXCEPT ![j].state = "RUNNING", ![j].attempt = @ + 1, ![j].active = r]
  /\ runs' = [runs EXCEPT ![r] = [NoRunRow EXCEPT !.state = "RUNNING", !.job = j,
                                                  !.attempt = jobs[j].attempt + 1,
                                                  !.left = LeaseDuration]]

Lease(w, j, r) ==
  /\ jobs' = [jobs EXCEPT ![j].state = "RUNNING",
                          ![j].attempt = @ + 1,
                          ![j].active = r]
  /\ runs' = [runs EXCEPT ![r] = [state |-> "RUNNING", job |-> j, worker |-> w,
                                  attempt |-> jobs[j].attempt + 1,
                                  left |-> LeaseDuration, result |-> None]]

Claim(w, j, r) ==
  /\ workers[w].descriptor # None
  /\ HasCapacity(w)
  /\ NextFor(w, j)
  /\ runs[r].state = "UNUSED"
  /\ Lease(w, j, r)
  /\ workers' = [workers EXCEPT ![w].age = 0]
  /\ UNCHANGED decisions

ClaimNothing(w) ==
  /\ workers[w].descriptor # None
  /\ HasCapacity(w) => \A j \in Job : ~(Runnable(j) /\ Matches(w, j))
  /\ workers' = [workers EXCEPT ![w].age = 0]
  /\ UNCHANGED <<jobs, runs, decisions>>

(***************************************************************************)
(* heartbeat_run: lease_id and lease_token are those of run `claim'.       *)
(***************************************************************************)
HeartbeatRun(r, claim) ==
  /\ Live(r) /\ claim = r
  /\ runs' = [runs EXCEPT ![r].left = LeaseDuration]
  /\ UNCHANGED <<jobs, workers, decisions>>

(***************************************************************************)
(* reconcile_expired_leases: every expired run becomes STALE; the job it   *)
(* is active for is queued again only under safe_retry.                    *)
(***************************************************************************)
ExpiryTarget(j) == IF Idempotent(j) THEN "QUEUED" ELSE "NEEDS_RECONCILIATION"

\* Mutant: the job keeps pointing to the expired run.
ReconcileKeepsActive ==
  LET expired == {r \in RunId : Expired(r)}
  IN  /\ expired # {}
      /\ runs' = [r \in RunId |->
                    IF r \in expired THEN [runs[r] EXCEPT !.state = "STALE"] ELSE runs[r]]
      /\ jobs' = [j \in Job |->
                    IF jobs[j].active \in expired
                    THEN [jobs[j] EXCEPT !.state = ExpiryTarget(j)] ELSE jobs[j]]
      /\ UNCHANGED <<workers, decisions>>

\* Mutant: the job is freed, the run stays RUNNING.
ReconcileJobsOnly ==
  LET expired == {r \in RunId : Expired(r)}
  IN  /\ expired # {}
      /\ jobs' = [j \in Job |->
                    IF jobs[j].active \in expired
                    THEN [jobs[j] EXCEPT !.state = ExpiryTarget(j), !.active = None]
                    ELSE jobs[j]]
      /\ UNCHANGED <<runs, workers, decisions>>

\* Mutant: the run is given up, its job is forgotten.
ReconcileRunsOnly ==
  LET expired == {r \in RunId : Expired(r)}
  IN  /\ expired # {}
      /\ runs' = [r \in RunId |->
                    IF r \in expired THEN [runs[r] EXCEPT !.state = "STALE"] ELSE runs[r]]
      /\ UNCHANGED <<jobs, workers, decisions>>

ReconcileExpiredLeases ==
  LET expired == {r \in RunId : Expired(r)}
  IN  /\ expired # {}
      /\ runs' = [r \in RunId |->
                    IF r \in expired THEN [runs[r] EXCEPT !.state = "STALE"] ELSE runs[r]]
      /\ jobs' = [j \in Job |->
                    IF jobs[j].active \in expired
                    THEN [jobs[j] EXCEPT !.state = ExpiryTarget(j), !.active = None]
                    ELSE jobs[j]]
      /\ UNCHANGED <<workers, decisions>>

(***************************************************************************)
(* ingest_result.  Only an accepted envelope changes the database; a       *)
(* duplicate returns, a stale (409) or refused (400) one raises.           *)
(***************************************************************************)
StoreResult(r, stored) ==
  /\ runs' = [runs EXCEPT ![r].state = stored.body.status, ![r].result = stored]
  /\ jobs' = [jobs EXCEPT ![runs[r].job].state = stored.body.status,
                          ![runs[r].job].active = None]

IngestResult(e) ==
  /\ IngestVerdict(e) = "accepted"
  /\ StoreResult(e.run, Normalized(runs[e.run].job, e.body))
  /\ UNCHANGED <<workers, decisions>>

(***************************************************************************)
(* _resolve_gate: one BEGIN IMMEDIATE transaction.  `source' is the        *)
(* source_run_id of the request, None when the operator gave none.  An     *)
(* existing decision is returned or refused, never changed.                *)
(***************************************************************************)
Disposition(j, decision) ==
  IF decision = "REJECTED" THEN "CANCELLED" ELSE ExpiryTarget(j)

ResolveGate(j, g, decision, source) ==
  /\ decisions[j][g] = None
  /\ jobs[j].state = "WAIT_USER"
  /\ g \in Task[j].human_gates
  /\ \E r \in RunId :
       /\ IsWaitingRun(j, r) /\ WaitingGate(r) = g
       /\ source \in {None, r}
       /\ decisions' = [decisions EXCEPT ![j][g] =
                          [decision |-> decision, source |-> r,
                           disposition |-> Disposition(j, decision)]]
  /\ jobs' = [jobs EXCEPT ![j].state = Disposition(j, decision), ![j].active = None]
  /\ UNCHANGED <<runs, workers>>

(***************************************************************************)
(* The clock.                                                              *)
(***************************************************************************)
Tick ==
  /\ runs' = [r \in RunId |->
                IF runs[r].left >= 0 /\ runs[r].state # "UNUSED"
                THEN [runs[r] EXCEPT !.left = @ - 1] ELSE runs[r]]
  /\ workers' = [w \in Worker |->
                   IF workers[w].descriptor # None /\ workers[w].age <= WorkerOffline
                   THEN [workers[w] EXCEPT !.age = @ + 1] ELSE workers[w]]
  /\ UNCHANGED <<jobs, decisions>>

Next ==
  \/ \E w \in Worker, d \in Descriptor : RegisterWorker(w, d)
  \/ \E w \in Worker : HeartbeatWorker(w)
  \/ \E j \in Job, t \in 0 .. Cardinality(Job) : Enqueue(j, t)
  \/ \E w \in Worker, j \in Job, r \in RunId : Claim(w, j, r)
  \/ \E w \in Worker : ClaimNothing(w)
  \/ \E r, claim \in RunId : HeartbeatRun(r, claim)
  \/ ReconcileExpiredLeases
  \/ \E e \in Envelope : IngestResult(e)
  \/ \E j \in Job, g \in Gate, decision \in {"APPROVED", "REJECTED"},
        source \in RunId \cup {None} : ResolveGate(j, g, decision, source)
  \/ Tick

Spec == Init /\ [][Next]_vars

-----------------------------------------------------------------------------
(***************************************************************************)
(* Properties                                                              *)
(***************************************************************************)

\* The columns hold what the schema of _create_schema lets them hold, and a
\* run row in use refers to an existing job and worker (its foreign keys).
TypeOK ==
  /\ jobs \in [Job -> JobRow]
  /\ runs \in [RunId -> RunRow]
  /\ workers \in [Worker -> WorkerRow]
  /\ decisions \in [Job -> [Gate -> DecisionRow \cup {None}]]
  /\ \A r \in RunId : runs[r].state # "UNUSED" => runs[r].job \in Job /\ runs[r].worker \in Worker

\* A job is RUNNING exactly when one run holds it: that run is RUNNING, carries
\* the job's current attempt, and no other run of any worker is RUNNING for the
\* job.  claim, reconcile_expired_leases and ingest_result each write both tables.
LeaseOwnership ==
  /\ \A j \in Job : jobs[j].state = "RUNNING" <=> jobs[j].active # None
  /\ \A j \in Job : jobs[j].active # None =>
        LET r == jobs[j].active
        IN  runs[r].state = "RUNNING" /\ runs[r].job = j /\ runs[r].attempt = jobs[j].attempt
  /\ \A r \in RunId : runs[r].state = "RUNNING" => jobs[runs[r].job].active = r

\* The attempts of a job number its runs 1, 2, ... without repetition, so the
\* unique index one_attempt_per_job never makes claim fail.
AttemptsDistinct ==
  /\ \A r \in RunId : runs[r].state # "UNUSED" =>
        runs[r].attempt \in 1 .. jobs[runs[r].job].attempt
  /\ \A r, q \in RunId :
        /\ runs[r].state # "UNUSED" /\ runs[q].state # "UNUSED"
        /\ runs[r].job = runs[q].job /\ runs[r].attempt = runs[q].attempt
        => r = q

\* A manual_reconcile job is handed out at most once: neither an expired lease
\* nor an approved gate puts it back in the queue.
ManualRunsOnce ==
  \A j \in Job : ~Idempotent(j) => \A r, q \in RunsOf(j) : r = q

\* Handing out a job again is a new attempt, and one that may not be repeated is never
\* handed out again, whatever leases expire and gates are approved.
AttemptsSound == AttemptsDistinct /\ ManualRunsOnce

\* A job that waits for a human can be decided: the run that _current_waiting_gate
\* finds is its latest attempt and asks for a declared gate not yet decided.
WaitingJobResolvable ==
  \A j \in Job : jobs[j].state = "WAIT_USER" =>
    \E r \in RunId :
      /\ IsWaitingRun(j, r) /\ runs[r].attempt = jobs[j].attempt
      /\ WaitingGate(r) \in Task[j].human_gates
      /\ decisions[j][WaitingGate(r)] = None

\* What status() reports of a job that has an outcome is the stored result of its
\* latest attempt (_latest_terminal_result), with the job's own status.
StatusShowsLatestResult ==
  \A j \in Job : jobs[j].state \in RESULT_STATUSES =>
    \E r \in RunsOf(j) :
      /\ runs[r].attempt = jobs[j].attempt
      /\ runs[r].state = jobs[j].state
      /\ runs[r].result # None /\ runs[r].result.body.status = jobs[j].state

\* No gate stops the same job twice: across all attempts, two runs that waited
\* waited for different gates (ingest_result turns a second request into BLOCKED).
GateAskedOnce ==
  \A r, q \in RunId :
    /\ runs[r].state = "WAIT_USER" /\ runs[q].state = "WAIT_USER"
    /\ runs[r].job = runs[q].job /\ WaitingGate(r) = WaitingGate(q)
    => r = q

\* Every decision names the run that asked for that gate, and a job is CANCELLED
\* exactly when one of its gates was rejected.
DecisionsSound ==
  \A j \in Job :
    /\ \A g \in Gate : decisions[j][g] # None =>
          LET r == decisions[j][g].source
          IN  runs[r].state = "WAIT_USER" /\ runs[r].job = j /\ WaitingGate(r) = g
    /\ jobs[j].state = "CANCELLED" <=>
          \E g \in Gate : decisions[j][g] # None /\ decisions[j][g].decision = "REJECTED"

\* The human gates of a job, over all its attempts: who waits can be decided, nobody is
\* asked twice, and every decision is the answer to the run that asked.
GatesSound == WaitingJobResolvable /\ GateAskedOnce /\ DecisionsSound

\* A job with a dependency is never handed out unless the parent is DONE, and the
\* parent stays DONE from then on; so a job that depends on itself never runs.
RunsAfterDependency ==
  \A r \in RunId : runs[r].state # "UNUSED" =>
    LET parent == Task[runs[r].job].depends_on
    IN  parent # None => jobs[parent].state = "DONE" /\ parent # runs[r].job

\* What a step may do to rows that are settled.
HistoryStep ==
  /\ \A j \in Job : jobs[j].state \in FinalJobState =>
       jobs'[j].state = jobs[j].state /\ jobs'[j].attempt = jobs[j].attempt
  /\ \A r \in RunId : runs[r].state \in RESULT_STATUSES \cup {"STALE"} =>
       runs'[r].state = runs[r].state /\ runs'[r].result = runs[r].result
  /\ \A j \in Job, g \in Gate : decisions[j][g] # None =>
       decisions'[j][g] = decisions[j][g]

\* A late message never rewrites history: a job in a final state keeps it and gets
\* no further attempt, a run with a result or marked STALE never changes again, and
\* a gate decision stands (the guards of ingest_result, claim and _resolve_gate).
HistoryStands == [][HistoryStep]_vars

\* A lease that has run out is never live again: a heartbeat that arrives after the
\* expiry cannot take a run back from reconcile_expired_leases.
ExpiredLeaseStaysExpired ==
  [][\A r \in RunId : Expired(r) => ~Live(r)']_vars

\* No step gives a worker one more live lease than the descriptor it registered
\* allows, whatever runs expired, were renewed or were taken over before.
CapacityRespected ==
  [][\A w \in Worker :
       Cardinality(LiveRuns(w)') > Cardinality(LiveRuns(w)) =>
         Cardinality(LiveRuns(w)') <= workers[w].descriptor.max_concurrent_jobs]_vars

-----------------------------------------------------------------------------
(***************************************************************************)
(* What makes the invariants inductive.                                    *)
(***************************************************************************)
\* A job that was never handed out has no attempt, and a manual_reconcile job in
\* the queue was never handed out.
QueuedManualIsFresh ==
  \A j \in Job :
    /\ jobs[j].state = "ABSENT" => jobs[j].attempt = 0
    /\ ~Idempotent(j) => jobs[j].attempt <= 1 /\ (jobs[j].state = "QUEUED" => jobs[j].attempt = 0)

\* The job still waits for the answer to run r.
Pending(r) ==
  LET j == runs[r].job
  IN  jobs[j].state = "WAIT_USER" /\ runs[r].attempt = jobs[j].attempt

\* Each run that asked for a gate is either the one its job waits for now, with
\* that gate undecided, or the source of the decision on that gate.
EveryRequestAnsweredOrPending ==
  \A r \in RunId : runs[r].state = "WAIT_USER" =>
    LET j == runs[r].job
        g == WaitingGate(r)
    IN  /\ runs[r].result # None /\ g \in Task[j].human_gates
        /\ IF Pending(r) THEN decisions[j][g] = None
           ELSE decisions[j][g] # None /\ decisions[j][g].source = r

IInv ==
  /\ TypeOK
  /\ LeaseOwnership
  /\ AttemptsDistinct
  /\ QueuedManualIsFresh
  /\ StatusShowsLatestResult
  /\ EveryRequestAnsweredOrPending
  /\ DecisionsSound
  /\ RunsAfterDependency

-----------------------------------------------------------------------------
(***************************************************************************)
(* The tables implement JobLifecycle: only the RUNNING runs count as       *)
(* holders, only the waiting run of the latest attempt asks.               *)
(***************************************************************************)
PhaseOf(j) ==
  CASE jobs[j].state = "ABSENT" -> "new"
    [] jobs[j].state = "QUEUED" -> "ready"
    [] jobs[j].state = "RUNNING" -> "held"
    [] jobs[j].state = "WAIT_USER" -> "asking"
    [] OTHER -> jobs[j].state

HoldersOf(j) == {runs[r].worker : r \in {q \in RunId : runs[q].state = "RUNNING" /\ runs[q].job = j}}

AskingOf(j) ==
  IF jobs[j].state = "WAIT_USER"
  THEN {WaitingGate(r) : r \in {q \in RunId : IsWaitingRun(j, q)}} ELSE {}

Lifecycle == INSTANCE JobLifecycle WITH
  Retryable <- {j \in Job : Idempotent(j)},
  Declared <- [j \in Job |-> Task[j].human_gates],
  Parent <- [j \in Job |-> {Task[j].depends_on} \ {None}],
  phase <- [j \in Job |-> PhaseOf(j)],
  holders <- [j \in Job |-> HoldersOf(j)],
  grants <- [j \in Job |-> jobs[j].attempt],
  asking <- [j \in Job |-> AskingOf(j)],
  passed <- [j \in Job |-> ApprovedGates(j)]

\* Every behaviour of the controller is a behaviour of the job lifecycle: heartbeats,
\* clock ticks, empty claims and refused messages are stuttering steps of it.
ImplementsLifecycle == Lifecycle!LSpec

=============================================================================
