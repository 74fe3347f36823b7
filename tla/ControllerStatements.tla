------------------------ MODULE ControllerStatements ------------------------
(***************************************************************************)
(* HermesController at the grain of SQL statements.  The connection is in  *)
(* autocommit mode (isolation_level=None) and only claim and _resolve_gate *)
(* open a transaction, so every statement of ingest_result and of          *)
(* reconcile_expired_leases commits by itself.  The HTTP server            *)
(* (request_lock) executes one ingest at a time; `ingest-result' and       *)
(* `reconcile-leases' are commands of the CLI, other processes on the same *)
(* database file, as are `claim', `renew-lease', `enqueue' and `gate'.     *)
(* Every process may die between two statements.                           *)
(***************************************************************************)
EXTENDS HermesController

CONSTANT
  Ingester         \* BOUND: the processes that may execute ingest_result at once

VARIABLES
  ingest,          \* ingest[p]: the ingest_result p is executing, or None
  sweep            \* the reconcile_expired_leases in progress, or None

svars == <<jobs, runs, workers, decisions, ingest, sweep>>

SInit == Init /\ ingest = [p \in Ingester |-> None] /\ sweep = None

-----------------------------------------------------------------------------
(***************************************************************************)
(* ingest_result                                                           *)
(***************************************************************************)
At(p, statement) == ingest[p] # None /\ ingest[p].at = statement

\* _validate_envelope, SELECT * FROM runs, and the checks made on that row.
IngestSelectRun(p, e) ==
  /\ ingest[p] = None
  /\ WellFormed(e.body)
  /\ runs[e.run].state = "RUNNING" /\ e.claim = e.run
  /\ ingest' = [ingest EXCEPT ![p] = [at |-> "select job", run |-> e.run, job |-> runs[e.run].job,
                                      body |-> e.body, stored |-> None]]
  /\ UNCHANGED <<vars, sweep>>

\* SELECT active_run_id FROM jobs, the engine and gate checks, _gate_is_approved.
\* A failed check raises: nothing was written.
IngestSelectJob(p) ==
  /\ At(p, "select job")
  /\ LET i == ingest[p]
     IN  ingest' = [ingest EXCEPT ![p] =
           IF jobs[i.job].active = i.run /\ EngineMatches(i.job, i.body) /\ GateAllowed(i.job, i.body)
           THEN [i EXCEPT !.at = "update run", !.stored = Normalized(i.job, i.body)]
           ELSE None]
  /\ UNCHANGED <<vars, sweep>>

\* UPDATE runs SET state=?, result_json=? WHERE run_id=?
IngestUpdateRun(p) ==
  /\ At(p, "update run")
  /\ runs' = [runs EXCEPT ![ingest[p].run].state = ingest[p].stored.body.status,
                          ![ingest[p].run].result = ingest[p].stored]
  /\ ingest' = [ingest EXCEPT ![p].at = "update job"]
  /\ UNCHANGED <<jobs, workers, decisions, sweep>>

\* UPDATE jobs SET state=?, active_run_id=NULL WHERE job_id=?
IngestUpdateJob(p) ==
  /\ At(p, "update job")
  /\ jobs' = [jobs EXCEPT ![ingest[p].job].state = ingest[p].stored.body.status,
                          ![ingest[p].job].active = None]
  /\ ingest' = [ingest EXCEPT ![p] = None]
  /\ UNCHANGED <<runs, workers, decisions, sweep>>

IngestCrash(p) ==
  /\ ingest[p] # None /\ ingest' = [ingest EXCEPT ![p] = None]
  /\ UNCHANGED <<vars, sweep>>

-----------------------------------------------------------------------------
(***************************************************************************)
(* reconcile_expired_leases                                                *)
(***************************************************************************)
\* SELECT * FROM runs WHERE state='RUNNING' AND lease_expires_at < now
SweepSelect ==
  /\ sweep = None
  /\ \E r \in RunId : Expired(r)
  /\ sweep' = [todo |-> {r \in RunId : Expired(r)}, current |-> None]
  /\ UNCHANGED <<vars, ingest>>

\* UPDATE runs SET state='STALE' WHERE run_id=?
SweepUpdateRun(r) ==
  /\ sweep # None /\ sweep.current = None /\ r \in sweep.todo
  /\ runs' = [runs EXCEPT ![r].state = "STALE"]
  /\ sweep' = [todo |-> sweep.todo \ {r}, current |-> r]
  /\ UNCHANGED <<jobs, workers, decisions, ingest>>

\* UPDATE jobs SET state=?, active_run_id=NULL WHERE job_id=? AND active_run_id=?
SweepUpdateJob ==
  /\ sweep # None /\ sweep.current # None
  /\ LET j == runs[sweep.current].job
     IN  jobs' = IF jobs[j].active = sweep.current
                 THEN [jobs EXCEPT ![j].state = ExpiryTarget(j), ![j].active = None]
                 ELSE jobs
  /\ sweep' = IF sweep.todo = {} THEN None ELSE [sweep EXCEPT !.current = None]
  /\ UNCHANGED <<runs, workers, decisions, ingest>>

SweepCrash ==
  /\ sweep # None /\ sweep' = None
  /\ UNCHANGED <<vars, ingest>>

-----------------------------------------------------------------------------
\* The methods that are one statement or one transaction, from either process.
Atomic ==
  /\ \/ \E w \in Worker, d \in Descriptor : RegisterWorker(w, d)
     \/ \E w \in Worker : HeartbeatWorker(w) \/ ClaimNothing(w)
     \/ \E j \in Job, t \in 0 .. Cardinality(Job) : Enqueue(j, t)
     \/ \E w \in Worker, j \in Job, r \in RunId : Claim(w, j, r)
     \/ \E r, claim \in RunId : HeartbeatRun(r, claim)
     \/ \E j \in Job, g \in Gate, decision \in {"APPROVED", "REJECTED"},
           source \in RunId : ResolveGate(j, g, decision, source)
     \/ Tick
  /\ UNCHANGED <<ingest, sweep>>

Statement ==
  \/ \E p \in Ingester : \/ \E e \in Envelope : IngestSelectRun(p, e)
                        \/ IngestSelectJob(p) \/ IngestUpdateRun(p) \/ IngestUpdateJob(p)
  \/ SweepSelect
  \/ \E r \in RunId : SweepUpdateRun(r)
  \/ SweepUpdateJob

Crash == SweepCrash \/ \E p \in Ingester : IngestCrash(p)

\* Any process may die between two statements.
CrashSpec == SInit /\ [][Atomic \/ Statement \/ Crash]_svars

-----------------------------------------------------------------------------
(***************************************************************************)
(* AttemptsSound of HermesController still holds between any two           *)
(* statements and across crashes.                                          *)
(***************************************************************************)

\* After a restart nothing is left for a sweep to miss: while no method is executing,
\* a RUNNING job has a RUNNING run, which lease expiry will reclaim.
RestartCanReconcile ==
  (\A p \in Ingester : ingest[p] = None) /\ sweep = None =>
    \A j \in Job : jobs[j].state = "RUNNING" => runs[jobs[j].active].state = "RUNNING"

=============================================================================
