-------------------------- MODULE StatementsProofs --------------------------
(***************************************************************************)
(* Attempts stay sound at the grain of SQL statements, for any number of   *)
(* processes that ingest results while leases expire, and wherever they    *)
(* are killed.                                                             *)
(*                                                                         *)
(* LeaseOwnership is lost at this grain: a job may be finished, or queued  *)
(* again, by a statement that was decided on an older row.  StatementsInv  *)
(* does without it: an attempt number is given out in the transaction of   *)
(* claim and never written again, and none of the delayed statements can   *)
(* put a manual_reconcile job back into the queue.                         *)
(***************************************************************************)
EXTENDS ControllerStatements, HermesControllerProofs

USE DEF RESULT_STATUSES, JobState, RunState

IngestRow ==
  [at: {"select job", "update run", "update job"}, run: RunId, job: Job,
   body: Payload, stored: StoredResult \cup {None}]

SweepRow == [todo: SUBSET RunId, current: RunId \cup {None}]

\* The run exists: claim has inserted it.
Used(r) == runs[r].state # "UNUSED"

\* What a process carries from one statement to the next refers to runs that were
\* handed out; what it is about to write is an outcome.
InFlightSound ==
  /\ DOMAIN ingest = Ingester
  /\ \A p \in Ingester : ingest[p] # None =>
       /\ ingest[p] \in IngestRow /\ Used(ingest[p].run)
       /\ ingest[p].at # "select job" => ingest[p].stored \in StoredResult
  /\ sweep # None =>
       /\ sweep \in SweepRow /\ \A r \in sweep.todo : Used(r)
       /\ sweep.current # None => Used(sweep.current)

AttemptsInv == TypeOK /\ AttemptsDistinct /\ QueuedManualIsFresh

StatementsInv == AttemptsInv /\ InFlightSound

-----------------------------------------------------------------------------
\* Statements that keep the columns of claim (the job and the attempt of a run, the
\* attempt of a job) and return no manual job to the queue keep the attempts sound.
LEMMA ColumnsKept ==
  ASSUME AttemptsInv, TypeOK',
         \A r \in RunId : /\ Used(r)' = Used(r)
                          /\ runs'[r].job = runs[r].job /\ runs'[r].attempt = runs[r].attempt,
         \A j \in Job : /\ jobs'[j].attempt = jobs[j].attempt
                        /\ jobs'[j].state = "ABSENT" => jobs[j].state = "ABSENT"
                        /\ ~Idempotent(j) /\ jobs'[j].state = "QUEUED" => jobs[j].state = "QUEUED"
  PROVE  AttemptsInv'
<1>1. /\ \A j \in Job : jobs[j].attempt \in Nat
      /\ \A r \in RunId : runs[r].attempt \in Nat /\ (Used(r) => runs[r].job \in Job)
  BY Types DEF AttemptsInv, Used
<1>2. AttemptsDistinct'
  BY <1>1 DEF AttemptsInv, AttemptsDistinct, Used
<1>3. QueuedManualIsFresh'
  BY <1>1 DEF AttemptsInv, QueuedManualIsFresh, Idempotent
<1> QED BY <1>2, <1>3 DEF AttemptsInv

\* What is in flight stays sound when no run goes away and nobody moves.
LEMMA InFlightKept ==
  ASSUME InFlightSound, UNCHANGED <<ingest, sweep>>, \A r \in RunId : Used(r) => Used(r)'
  PROVE  InFlightSound'
<1>1. ASSUME NEW p \in Ingester, ingest[p] # None
      PROVE  /\ ingest[p] \in IngestRow /\ Used(ingest[p].run) /\ ingest[p].run \in RunId
             /\ ingest[p].at # "select job" => ingest[p].stored \in StoredResult
  BY <1>1 DEF InFlightSound, IngestRow
<1>2. ASSUME sweep # None
      PROVE  /\ sweep \in SweepRow /\ \A r \in sweep.todo : Used(r) /\ r \in RunId
             /\ sweep.current # None => Used(sweep.current) /\ sweep.current \in RunId
  BY <1>2 DEF InFlightSound, SweepRow
<1>3. DOMAIN ingest = Ingester
  BY DEF InFlightSound
<1>4. \A r \in RunId : Used(r) => Used(r)'
  OBVIOUS
<1>5. ASSUME NEW p \in Ingester, ingest[p] # None
      PROVE  /\ ingest[p] \in IngestRow /\ runs'[ingest[p].run].state # "UNUSED"
             /\ ingest[p].at # "select job" => ingest[p].stored \in StoredResult
  BY <1>1, <1>4, <1>5 DEF Used
<1>6. ASSUME sweep # None
      PROVE  /\ sweep \in SweepRow /\ \A r \in sweep.todo : runs'[r].state # "UNUSED"
             /\ sweep.current # None => runs'[sweep.current].state # "UNUSED"
  BY <1>2, <1>4, <1>6 DEF Used
<1>7. ingest' = ingest /\ sweep' = sweep
  OBVIOUS
<1> QED BY <1>3, <1>5, <1>6, <1>7 DEF InFlightSound, Used

-----------------------------------------------------------------------------
\* The methods that are one transaction.
LEMMA AtomicPreserves == ASSUME StatementsInv, Atomic PROVE StatementsInv'
<1>1. TypeOK /\ AttemptsInv /\ InFlightSound /\ UNCHANGED <<ingest, sweep>>
  BY DEF StatementsInv, AttemptsInv, Atomic
<1>2. TypeOK'
  <2>1. Next
    BY DEF Atomic, Next
  <2> QED BY <1>1, <2>1, TypeStep
<1>3. /\ \A j \in Job : jobs[j].attempt \in Nat
      /\ \A r \in RunId : runs[r].attempt \in Nat /\ (Used(r) => runs[r].job \in Job)
  BY <1>1, Types DEF Used
<1>4. ASSUME NEW j \in Job, NEW t \in 0 .. Cardinality(Job), Enqueue(j, t)
      PROVE  AttemptsInv' /\ \A r \in RunId : Used(r) => Used(r)'
  <2>1. /\ jobs[j].state = "ABSENT"
        /\ jobs'[j].state = "QUEUED" /\ jobs'[j].attempt = 0
        /\ \A i \in Job \ {j} : jobs'[i] = jobs[i]
        /\ runs' = runs
    BY <1>1, <1>4, EnqueueEffect
  <2>2. jobs[j].attempt = 0
    BY <1>1, <2>1 DEF AttemptsInv, QueuedManualIsFresh
  <2>3. AttemptsDistinct'
    BY <1>1, <1>3, <2>1, <2>2 DEF AttemptsInv, AttemptsDistinct, Used
  <2>4. QueuedManualIsFresh'
    BY <1>1, <1>3, <2>1 DEF AttemptsInv, QueuedManualIsFresh, Idempotent
  <2> QED BY <1>2, <2>1, <2>3, <2>4 DEF AttemptsInv, Used
<1>5. ASSUME NEW w \in Worker, NEW j \in Job, NEW r \in RunId, Claim(w, j, r)
      PROVE  AttemptsInv' /\ \A q \in RunId : Used(q) => Used(q)'
  <2>1. /\ jobs[j].state = "QUEUED" /\ runs[r].state = "UNUSED"
        /\ jobs'[j].state = "RUNNING"
        /\ jobs'[j].attempt = jobs[j].attempt + 1
        /\ \A i \in Job \ {j} : jobs'[i] = jobs[i]
        /\ runs'[r].state = "RUNNING" /\ runs'[r].job = j
        /\ runs'[r].attempt = jobs[j].attempt + 1
        /\ \A q \in RunId \ {r} : runs'[q] = runs[q]
    BY <1>1, <1>5, ClaimEffect
  <2>2. AttemptsDistinct'
    BY <1>1, <1>3, <2>1 DEF AttemptsInv, AttemptsDistinct, Used
  <2>3. QueuedManualIsFresh'
    BY <1>1, <1>3, <2>1 DEF AttemptsInv, QueuedManualIsFresh, Idempotent
  <2> QED BY <1>2, <2>1, <2>2, <2>3 DEF AttemptsInv, Used
<1>6. ASSUME NEW j \in Job, NEW g \in Gate, NEW decision \in {"APPROVED", "REJECTED"},
             NEW source \in RunId, ResolveGate(j, g, decision, source)
      PROVE  AttemptsInv' /\ \A r \in RunId : Used(r) => Used(r)'
  <2>1. /\ runs' = runs /\ jobs'[j].state = Disposition(j, decision)
        /\ jobs'[j].attempt = jobs[j].attempt
        /\ \A i \in Job \ {j} : jobs'[i] = jobs[i]
    <3>1. source \in RunId \cup {None}
      OBVIOUS
    <3> QED BY <1>1, <1>6, <3>1, ResolveEffect
  <2>2. Disposition(j, decision) # "ABSENT" /\ (~Idempotent(j) => Disposition(j, decision) # "QUEUED")
    BY DEF Disposition, ExpiryTarget
  <2>3. \A r \in RunId : /\ Used(r)' = Used(r)
                         /\ runs'[r].job = runs[r].job /\ runs'[r].attempt = runs[r].attempt
    BY <2>1 DEF Used
  <2>4. \A i \in Job : /\ jobs'[i].attempt = jobs[i].attempt
                       /\ jobs'[i].state = "ABSENT" => jobs[i].state = "ABSENT"
                       /\ ~Idempotent(i) /\ jobs'[i].state = "QUEUED" => jobs[i].state = "QUEUED"
    BY <2>1, <2>2
  <2> QED BY <1>1, <1>2, <2>3, <2>4, ColumnsKept
<1>7. ASSUME \/ \E w \in Worker, d \in Descriptor : RegisterWorker(w, d)
             \/ \E w \in Worker : HeartbeatWorker(w) \/ ClaimNothing(w)
             \/ \E r, claim \in RunId : HeartbeatRun(r, claim)
             \/ Tick
      PROVE  AttemptsInv' /\ \A r \in RunId : Used(r) => Used(r)'
  <2>1. /\ jobs' = jobs
        /\ \A r \in RunId : /\ runs'[r].state = runs[r].state /\ runs'[r].job = runs[r].job
                            /\ runs'[r].attempt = runs[r].attempt
    BY <1>1, <1>7, OtherEffect
  <2>2. \A r \in RunId : /\ Used(r)' = Used(r)
                         /\ runs'[r].job = runs[r].job /\ runs'[r].attempt = runs[r].attempt
    BY <2>1 DEF Used
  <2>3. \A i \in Job : /\ jobs'[i].attempt = jobs[i].attempt
                       /\ jobs'[i].state = "ABSENT" => jobs[i].state = "ABSENT"
                       /\ ~Idempotent(i) /\ jobs'[i].state = "QUEUED" => jobs[i].state = "QUEUED"
    BY <2>1
  <2> QED BY <1>1, <1>2, <2>2, <2>3, ColumnsKept
<1>8. AttemptsInv' /\ \A r \in RunId : Used(r) => Used(r)'
  BY <1>4, <1>5, <1>6, <1>7 DEF Atomic
<1>9. InFlightSound'
  BY <1>1, <1>8, InFlightKept
<1> QED BY <1>8, <1>9 DEF StatementsInv

-----------------------------------------------------------------------------
(***************************************************************************)
(* ingest_result, one statement at a time.                                 *)
(***************************************************************************)
\* One process moves on; the runs stay handed out.
LEMMA IngestMoves ==
  ASSUME InFlightSound, NEW p \in Ingester, NEW row, ingest' = [ingest EXCEPT ![p] = row],
         sweep' = sweep, \A r \in RunId : Used(r) => Used(r)',
         row # None => /\ row \in IngestRow /\ Used(row.run)
                       /\ row.at # "select job" => row.stored \in StoredResult
  PROVE  InFlightSound'
<1>1. /\ DOMAIN ingest = Ingester
      /\ \A q \in Ingester : ingest[q] # None =>
           /\ ingest[q] \in IngestRow /\ Used(ingest[q].run)
           /\ ingest[q].at # "select job" => ingest[q].stored \in StoredResult
  BY DEF InFlightSound
<1>2. /\ DOMAIN ingest' = Ingester /\ ingest'[p] = row
      /\ \A q \in Ingester : q # p => ingest'[q] = ingest[q]
  BY <1>1
<1>3. \A r \in RunId : Used(r) => runs'[r].state # "UNUSED"
  BY DEF Used
<1>4. \A i \in IngestRow : i.run \in RunId
  BY DEF IngestRow
<1>5. ASSUME NEW q \in Ingester, ingest'[q] # None
      PROVE  /\ ingest'[q] \in IngestRow /\ runs'[ingest'[q].run].state # "UNUSED"
             /\ ingest'[q].at # "select job" => ingest'[q].stored \in StoredResult
  <2>1. CASE q = p
    BY <1>2, <1>3, <1>4, <1>5, <2>1
  <2>2. CASE q # p
    BY <1>1, <1>2, <1>3, <1>4, <1>5, <2>2
  <2> QED BY <2>1, <2>2
<1>6. ASSUME sweep # None
      PROVE  /\ sweep \in SweepRow /\ \A r \in sweep.todo : runs'[r].state # "UNUSED"
             /\ sweep.current # None => runs'[sweep.current].state # "UNUSED"
  <2>1. /\ sweep \in SweepRow /\ \A r \in sweep.todo : Used(r)
        /\ sweep.current # None => Used(sweep.current)
    BY <1>6 DEF InFlightSound
  <2>2. sweep.todo \subseteq RunId /\ sweep.current \in RunId \cup {None}
    BY <2>1 DEF SweepRow
  <2> QED BY <1>3, <2>1, <2>2
<1>7. sweep' = sweep
  OBVIOUS
<1> QED BY <1>2, <1>5, <1>6, <1>7 DEF InFlightSound, Used

\* A sweep that moves on leaves the ingesting processes where they are.
LEMMA SweepMoves ==
  ASSUME InFlightSound, ingest' = ingest, \A r \in RunId : Used(r) => Used(r)',
         sweep' # None => /\ sweep' \in SweepRow /\ \A r \in sweep'.todo : Used(r)
                          /\ sweep'.current # None => Used(sweep'.current)
  PROVE  InFlightSound'
<1>1. /\ DOMAIN ingest = Ingester
      /\ \A q \in Ingester : ingest[q] # None =>
           /\ ingest[q] \in IngestRow /\ Used(ingest[q].run)
           /\ ingest[q].at # "select job" => ingest[q].stored \in StoredResult
  BY DEF InFlightSound
<1>2. \A r \in RunId : Used(r) => runs'[r].state # "UNUSED"
  BY DEF Used
<1>3. ASSUME NEW q \in Ingester, ingest[q] # None
      PROVE  /\ ingest[q] \in IngestRow /\ runs'[ingest[q].run].state # "UNUSED"
             /\ ingest[q].at # "select job" => ingest[q].stored \in StoredResult
  <2>1. ingest[q].run \in RunId
    BY <1>1, <1>3 DEF IngestRow
  <2> QED BY <1>1, <1>2, <1>3, <2>1
<1>4. ASSUME sweep' # None
      PROVE  /\ sweep' \in SweepRow /\ \A r \in sweep'.todo : runs'[r].state # "UNUSED"
             /\ sweep'.current # None => runs'[sweep'.current].state # "UNUSED"
  <2>1. sweep'.todo \subseteq RunId /\ sweep'.current \in RunId \cup {None}
    BY <1>4 DEF SweepRow
  <2> QED BY <1>2, <1>4, <2>1
<1>5. ingest' = ingest
  OBVIOUS
<1> QED BY <1>1, <1>3, <1>4, <1>5 DEF InFlightSound, Used

\* A statement that reads writes no table.
LEMMA TablesKept == ASSUME AttemptsInv, UNCHANGED vars PROVE AttemptsInv' /\ \A r \in RunId : Used(r) => Used(r)'
BY DEF AttemptsInv, TypeOK, AttemptsDistinct, QueuedManualIsFresh, Idempotent, Used, vars

\* SELECT * FROM runs: the envelope names a run that is RUNNING.
LEMMA IngestSelectRunPreserves ==
  ASSUME StatementsInv, NEW p \in Ingester, NEW e \in Envelope, IngestSelectRun(p, e)
  PROVE  StatementsInv'
<1>1. AttemptsInv /\ InFlightSound /\ TypeOK
  BY DEF StatementsInv, AttemptsInv
<1>2. PICK row : row = [at |-> "select job", run |-> e.run, job |-> runs[e.run].job,
                        body |-> e.body, stored |-> None]
  OBVIOUS
<1>3. UNCHANGED vars /\ sweep' = sweep /\ ingest' = [ingest EXCEPT ![p] = row]
  BY <1>2 DEF IngestSelectRun
<1>4. e.run \in RunId /\ e.body \in Payload /\ runs[e.run].state = "RUNNING"
  BY DEF IngestSelectRun, Envelope
<1>5. runs[e.run].job \in Job
  BY <1>1, <1>4 DEF TypeOK
<1>6. row \in IngestRow /\ Used(row.run) /\ row.at = "select job"
  BY <1>2, <1>4, <1>5 DEF IngestRow, Used
<1>7. AttemptsInv' /\ \A r \in RunId : Used(r) => Used(r)'
  BY <1>1, <1>3, TablesKept
<1>8. InFlightSound'
  BY <1>1, <1>3, <1>6, <1>7, IngestMoves
<1> QED BY <1>7, <1>8 DEF StatementsInv

\* SELECT active_run_id FROM jobs: what will be stored is an outcome.
LEMMA IngestSelectJobPreserves ==
  ASSUME StatementsInv, NEW p \in Ingester, IngestSelectJob(p)
  PROVE  StatementsInv'
<1>1. AttemptsInv /\ InFlightSound
  BY DEF StatementsInv
<1>2. PICK i : i = ingest[p]
  OBVIOUS
<1>3. PICK new : new = [i EXCEPT !.at = "update run", !.stored = Normalized(i.job, i.body)]
  OBVIOUS
<1>4. i # None /\ UNCHANGED vars /\ sweep' = sweep
  BY <1>2 DEF IngestSelectJob, At
<1>5. PICK row : row \in {new, None} /\ ingest' = [ingest EXCEPT ![p] = row]
  BY <1>2, <1>3 DEF IngestSelectJob
<1>6. i \in IngestRow /\ Used(i.run)
  BY <1>1, <1>2, <1>4 DEF InFlightSound
<1>7. Normalized(i.job, i.body) \in StoredResult
  <2>1. i.job \in Job /\ i.body \in Payload
    BY <1>6 DEF IngestRow
  <2> QED BY <2>1, NormalizedType
<1>8. new \in IngestRow /\ new.run = i.run /\ new.stored \in StoredResult
  <2>1. PICK s : s = Normalized(i.job, i.body)
    OBVIOUS
  <2>2. s \in StoredResult /\ new = [i EXCEPT !.at = "update run", !.stored = s]
    BY <1>3, <1>7, <2>1
  <2> QED BY <1>6, <2>2 DEF IngestRow
<1>9. row # None => row \in IngestRow /\ Used(row.run) /\ row.stored \in StoredResult
  BY <1>5, <1>6, <1>8
<1>10. AttemptsInv' /\ \A r \in RunId : Used(r) => Used(r)'
  BY <1>1, <1>4, TablesKept
<1>11. InFlightSound'
  BY <1>1, <1>4, <1>5, <1>9, <1>10, IngestMoves
<1> QED BY <1>10, <1>11 DEF StatementsInv

\* UPDATE runs: the row keeps its job and its attempt, and stays in use.
LEMMA IngestUpdateRunPreserves ==
  ASSUME StatementsInv, NEW p \in Ingester, IngestUpdateRun(p)
  PROVE  StatementsInv'
<1>1. AttemptsInv /\ InFlightSound /\ TypeOK
  BY DEF StatementsInv, AttemptsInv
<1>2. PICK i : i = ingest[p]
  OBVIOUS
<1>3. /\ i # None /\ i.at = "update run" /\ jobs' = jobs /\ UNCHANGED <<workers, decisions, sweep>>
      /\ ingest' = [ingest EXCEPT ![p] = [i EXCEPT !.at = "update job"]]
  BY <1>2 DEF IngestUpdateRun, At
<1>4. i \in IngestRow /\ Used(i.run) /\ i.stored \in StoredResult
  BY <1>1, <1>2, <1>3 DEF InFlightSound
<1>5. PICK r : r = i.run
  OBVIOUS
<1>6. PICK st : st = i.stored.body.status
  OBVIOUS
<1>7. PICK mid : mid = [runs[r] EXCEPT !.state = st]
  OBVIOUS
<1>8. PICK new : new = [mid EXCEPT !.result = i.stored]
  OBVIOUS
<1>9. runs' = [runs EXCEPT ![r] = new]
  BY <1>2, <1>5, <1>6, <1>7, <1>8 DEF IngestUpdateRun
<1>10. r \in RunId /\ Used(r) /\ runs[r] \in RunRow
  BY <1>1, <1>4, <1>5 DEF IngestRow, TypeOK
<1>11. st \in RESULT_STATUSES
  BY <1>4, <1>6 DEF StoredResult, ResultPayload
<1>12. /\ mid \in RunRow /\ mid.state = st
       /\ mid.job = runs[r].job /\ mid.attempt = runs[r].attempt /\ mid.worker = runs[r].worker
  <2>1. st \in RunState
    BY <1>11
  <2> QED BY <1>7, <1>10, <2>1, RunStateUpdate
<1>13. /\ new \in RunRow /\ new.state = st
       /\ new.job = runs[r].job /\ new.attempt = runs[r].attempt /\ new.worker = runs[r].worker
  BY <1>4, <1>8, <1>12, RunOutcomeUpdate
<1>14. \A q \in RunId :
         /\ Used(q)' = Used(q)
         /\ runs'[q].job = runs[q].job /\ runs'[q].attempt = runs[q].attempt
  <2>1. ASSUME NEW q \in RunId, q # r PROVE runs'[q] = runs[q]
    BY <1>1, <1>9, <2>1 DEF TypeOK
  <2>2. runs'[r] = new
    BY <1>1, <1>9, <1>10 DEF TypeOK
  <2>3. new.state # "UNUSED"
    BY <1>11, <1>13
  <2> QED BY <1>10, <1>13, <2>1, <2>2, <2>3 DEF Used
<1>15. TypeOK'
  <2>1. runs[r].job \in Job /\ runs[r].worker \in Worker
    BY <1>1, <1>10 DEF TypeOK, Used
  <2> QED BY <1>1, <1>3, <1>9, <1>10, <1>13, <2>1 DEF TypeOK
<1>16. \A j \in Job :
                      /\ jobs'[j].attempt = jobs[j].attempt
                      /\ jobs'[j].state = "ABSENT" => jobs[j].state = "ABSENT"
                      /\ ~Idempotent(j) /\ jobs'[j].state = "QUEUED" => jobs[j].state = "QUEUED"
  BY <1>3
<1>17. AttemptsInv'
  BY <1>1, <1>14, <1>15, <1>16, ColumnsKept
<1>18. PICK row : row = [i EXCEPT !.at = "update job"]
  OBVIOUS
<1>19. row \in IngestRow /\ row.run = i.run /\ row.stored = i.stored
  BY <1>4, <1>18 DEF IngestRow
<1>20. InFlightSound'
  <2>1. ingest' = [ingest EXCEPT ![p] = row] /\ sweep' = sweep
    BY <1>3, <1>18
  <2>2. Used(row.run) /\ row.stored \in StoredResult
    BY <1>4, <1>19
  <2>3. \A q \in RunId : Used(q) => Used(q)'
    BY <1>14
  <2> QED BY <1>1, <1>19, <2>1, <2>2, <2>3, IngestMoves
<1> QED BY <1>17, <1>20 DEF StatementsInv

\* A statement that sets the state of a job and frees it: no new attempt, and back to
\* the queue only when the job may be repeated.
LEMMA JobFreed ==
  ASSUME AttemptsInv, NEW j \in Job, NEW st \in JobState \ {"ABSENT"},
         ~Idempotent(j) => st # "QUEUED",
         jobs' = [jobs EXCEPT ![j] = [jobs[j] EXCEPT !.state = st, !.active = None]],
         UNCHANGED <<runs, workers, decisions>>
  PROVE  AttemptsInv' /\ \A r \in RunId : Used(r)' = Used(r)
<1>1. TypeOK
  BY DEF AttemptsInv
<1>2. PICK new : new = [jobs[j] EXCEPT !.state = st, !.active = None]
  OBVIOUS
<1>3. jobs[j] \in JobRow
  BY <1>1 DEF TypeOK
<1>4. new \in JobRow /\ new.state = st /\ new.attempt = jobs[j].attempt
  BY <1>2, <1>3, JobStateUpdate
<1>5. jobs' = [jobs EXCEPT ![j] = new]
  BY <1>2
<1>6. jobs'[j] = new /\ \A i \in Job \ {j} : jobs'[i] = jobs[i]
  BY <1>1, <1>5 DEF TypeOK
<1>7. TypeOK'
  BY <1>1, <1>4, <1>5 DEF TypeOK
<1>8. \A i \in Job : /\ jobs'[i].attempt = jobs[i].attempt
                     /\ jobs'[i].state = "ABSENT" => jobs[i].state = "ABSENT"
                     /\ ~Idempotent(i) /\ jobs'[i].state = "QUEUED" => jobs[i].state = "QUEUED"
  BY <1>4, <1>6
<1>9. \A r \in RunId : /\ Used(r)' = Used(r)
                       /\ runs'[r].job = runs[r].job /\ runs'[r].attempt = runs[r].attempt
  BY DEF Used
<1> QED BY <1>7, <1>8, <1>9, ColumnsKept

\* UPDATE jobs, by ingest_result: an outcome is not QUEUED.
LEMMA IngestUpdateJobPreserves ==
  ASSUME StatementsInv, NEW p \in Ingester, IngestUpdateJob(p)
  PROVE  StatementsInv'
<1>1. AttemptsInv /\ InFlightSound
  BY DEF StatementsInv
<1>2. PICK i : i = ingest[p]
  OBVIOUS
<1>3. /\ i # None /\ i.at = "update job" /\ UNCHANGED <<runs, workers, decisions>> /\ sweep' = sweep
      /\ ingest' = [ingest EXCEPT ![p] = None]
  BY <1>2 DEF IngestUpdateJob, At
<1>4. i \in IngestRow /\ i.stored \in StoredResult
  BY <1>1, <1>2, <1>3 DEF InFlightSound
<1>5. PICK j : j = i.job
  OBVIOUS
<1>6. PICK st : st = i.stored.body.status
  OBVIOUS
<1>7. j \in Job /\ st \in RESULT_STATUSES
  BY <1>4, <1>5, <1>6 DEF IngestRow, StoredResult, ResultPayload
<1>8. jobs' = [jobs EXCEPT ![j] = [jobs[j] EXCEPT !.state = st, !.active = None]]
  BY <1>2, <1>5, <1>6 DEF IngestUpdateJob
<1>9. st \in JobState \ {"ABSENT"} /\ st # "QUEUED"
  BY <1>7
<1>10. AttemptsInv' /\ \A r \in RunId : Used(r)' = Used(r)
  BY <1>1, <1>3, <1>7, <1>8, <1>9, JobFreed
<1>11. InFlightSound'
  BY <1>1, <1>3, <1>10, IngestMoves
<1> QED BY <1>10, <1>11 DEF StatementsInv

-----------------------------------------------------------------------------
(***************************************************************************)
(* reconcile_expired_leases, one statement at a time.                      *)
(***************************************************************************)
LEMMA SweepSelectPreserves == ASSUME StatementsInv, SweepSelect PROVE StatementsInv'
<1>1. AttemptsInv /\ InFlightSound
  BY DEF StatementsInv
<1>2. UNCHANGED vars /\ ingest' = ingest
      /\ sweep' = [todo |-> {r \in RunId : Expired(r)}, current |-> None]
  BY DEF SweepSelect
<1>3. AttemptsInv' /\ \A r \in RunId : Used(r) => Used(r)'
  BY <1>1, <1>2, TablesKept
<1>4. PICK todo : todo = {r \in RunId : Expired(r)}
  OBVIOUS
<1>5. todo \subseteq RunId /\ \A r \in todo : Used(r)
  BY <1>4 DEF Expired, Used
<1>6. sweep' = [todo |-> todo, current |-> None]
  BY <1>2, <1>4
<1>7. sweep' \in SweepRow /\ sweep'.todo = todo /\ sweep'.current = None
  BY <1>5, <1>6 DEF SweepRow
<1>8. InFlightSound'
  BY <1>1, <1>2, <1>3, <1>5, <1>7, SweepMoves
<1> QED BY <1>3, <1>8 DEF StatementsInv

\* UPDATE runs: whatever became of the run since it was selected, it is set to STALE.
LEMMA SweepUpdateRunPreserves ==
  ASSUME StatementsInv, NEW r \in RunId, SweepUpdateRun(r)
  PROVE  StatementsInv'
<1>1. AttemptsInv /\ InFlightSound /\ TypeOK
  BY DEF StatementsInv, AttemptsInv
<1>2. /\ sweep # None /\ r \in sweep.todo /\ UNCHANGED <<jobs, workers, decisions, ingest>>
      /\ runs' = [runs EXCEPT ![r] = [runs[r] EXCEPT !.state = "STALE"]]
      /\ sweep' = [todo |-> sweep.todo \ {r}, current |-> r]
  BY DEF SweepUpdateRun
<1>3. sweep \in SweepRow /\ \A q \in sweep.todo : Used(q)
  BY <1>1, <1>2 DEF InFlightSound
<1>4. PICK new : new = [runs[r] EXCEPT !.state = "STALE"]
  OBVIOUS
<1>5. /\ new \in RunRow /\ new.state = "STALE"
      /\ new.job = runs[r].job /\ new.attempt = runs[r].attempt /\ new.worker = runs[r].worker
  <2>1. runs[r] \in RunRow
    BY <1>1 DEF TypeOK
  <2> QED BY <1>4, <2>1, RunStateUpdate
<1>6. runs' = [runs EXCEPT ![r] = new] /\ Used(r)
  BY <1>2, <1>3, <1>4
<1>7. \A q \in RunId : /\ Used(q)' = Used(q)
                       /\ runs'[q].job = runs[q].job /\ runs'[q].attempt = runs[q].attempt
  <2>1. runs'[r] = new /\ \A q \in RunId \ {r} : runs'[q] = runs[q]
    BY <1>1, <1>6 DEF TypeOK
  <2> QED BY <1>5, <1>6, <2>1 DEF Used
<1>8. TypeOK'
  <2>1. runs[r].job \in Job /\ runs[r].worker \in Worker
    BY <1>1, <1>6 DEF TypeOK, Used
  <2> QED BY <1>1, <1>2, <1>5, <1>6, <2>1 DEF TypeOK
<1>9. \A j \in Job : /\ jobs'[j].attempt = jobs[j].attempt
                     /\ jobs'[j].state = "ABSENT" => jobs[j].state = "ABSENT"
                     /\ ~Idempotent(j) /\ jobs'[j].state = "QUEUED" => jobs[j].state = "QUEUED"
  BY <1>2
<1>10. AttemptsInv'
  BY <1>1, <1>7, <1>8, <1>9, ColumnsKept
<1>11. sweep' \in SweepRow /\ sweep'.todo \subseteq sweep.todo /\ sweep'.current = r
  BY <1>2, <1>3 DEF SweepRow
<1>12. InFlightSound'
  <2>1. ingest' = ingest /\ \A q \in RunId : Used(q) => Used(q)'
    BY <1>2, <1>7
  <2> QED BY <1>1, <1>3, <1>6, <1>11, <2>1, SweepMoves
<1> QED BY <1>10, <1>12 DEF StatementsInv

\* UPDATE jobs: only a job that may be repeated returns to the queue.
LEMMA SweepUpdateJobPreserves == ASSUME StatementsInv, SweepUpdateJob PROVE StatementsInv'
<1>1. AttemptsInv /\ InFlightSound /\ TypeOK
  BY DEF StatementsInv, AttemptsInv
<1>2. PICK c : c = sweep.current
  OBVIOUS
<1>3. /\ sweep # None /\ c # None /\ UNCHANGED <<runs, workers, decisions>> /\ ingest' = ingest
      /\ sweep' \in {None, [sweep EXCEPT !.current = None]}
  BY <1>2 DEF SweepUpdateJob
<1>4. sweep \in SweepRow /\ (\A q \in sweep.todo : Used(q)) /\ c \in RunId /\ Used(c)
  BY <1>1, <1>2, <1>3 DEF InFlightSound, SweepRow
<1>5. PICK j : j = runs[c].job
  OBVIOUS
<1>6. PICK st : st = ExpiryTarget(j)
  OBVIOUS
<1>7. j \in Job
  BY <1>1, <1>4, <1>5 DEF TypeOK, Used
<1>8. st \in JobState \ {"ABSENT"} /\ (~Idempotent(j) => st # "QUEUED")
  BY <1>6 DEF ExpiryTarget
<1>9. \/ UNCHANGED jobs
      \/ jobs' = [jobs EXCEPT ![j] = [jobs[j] EXCEPT !.state = st, !.active = None]]
  BY <1>2, <1>5, <1>6 DEF SweepUpdateJob
<1>10. AttemptsInv' /\ \A r \in RunId : Used(r) => Used(r)'
  <2>1. CASE UNCHANGED jobs
    BY <1>1, <1>3, <2>1, TablesKept DEF vars
  <2>2. CASE jobs' = [jobs EXCEPT ![j] = [jobs[j] EXCEPT !.state = st, !.active = None]]
    BY <1>1, <1>3, <1>7, <1>8, <2>2, JobFreed
  <2> QED BY <1>9, <2>1, <2>2
<1>11. sweep' # None => sweep' \in SweepRow /\ sweep'.todo = sweep.todo /\ sweep'.current = None
  BY <1>3, <1>4 DEF SweepRow
<1>12. InFlightSound'
  BY <1>1, <1>3, <1>4, <1>10, <1>11, SweepMoves
<1> QED BY <1>10, <1>12 DEF StatementsInv

\* A process dies: its statements so far stay, the rest is forgotten.
LEMMA CrashPreserves == ASSUME StatementsInv, Crash PROVE StatementsInv'
<1>1. AttemptsInv /\ InFlightSound /\ UNCHANGED vars
  BY DEF StatementsInv, Crash, SweepCrash, IngestCrash
<1>2. AttemptsInv' /\ \A r \in RunId : Used(r) => Used(r)'
  BY <1>1, TablesKept
<1>3. CASE SweepCrash
  <2>1. ingest' = ingest /\ sweep' = None
    BY <1>3 DEF SweepCrash
  <2> QED BY <1>1, <1>2, <2>1, SweepMoves DEF StatementsInv
<1>4. ASSUME NEW p \in Ingester, IngestCrash(p) PROVE StatementsInv'
  <2>1. sweep' = sweep /\ ingest' = [ingest EXCEPT ![p] = None]
    BY <1>4 DEF IngestCrash
  <2> QED BY <1>1, <1>2, <2>1, IngestMoves DEF StatementsInv
<1> QED BY <1>3, <1>4 DEF Crash

-----------------------------------------------------------------------------
LEMMA StatementsInit == SInit => StatementsInv
<1> SUFFICES ASSUME SInit PROVE StatementsInv
  OBVIOUS
<1>1. Init => IInv
  BY InitIInv
<1>2. AttemptsInv
  BY <1>1 DEF SInit, IInv, AttemptsInv
<1>3. InFlightSound
  BY DEF SInit, InFlightSound
<1> QED BY <1>2, <1>3 DEF StatementsInv

LEMMA StatementsStep == StatementsInv /\ [Atomic \/ Statement \/ Crash]_svars => StatementsInv'
<1> SUFFICES ASSUME StatementsInv, [Atomic \/ Statement \/ Crash]_svars PROVE StatementsInv'
  OBVIOUS
<1>1. CASE Atomic
  BY <1>1, AtomicPreserves
<1>2. CASE Statement
  BY <1>2, IngestSelectRunPreserves, IngestSelectJobPreserves, IngestUpdateRunPreserves,
     IngestUpdateJobPreserves, SweepSelectPreserves, SweepUpdateRunPreserves,
     SweepUpdateJobPreserves DEF Statement
<1>3. CASE Crash
  BY <1>3, CrashPreserves
<1>4. CASE UNCHANGED svars
  <2>1. UNCHANGED vars /\ UNCHANGED <<ingest, sweep>> /\ AttemptsInv /\ InFlightSound
    BY <1>4 DEF svars, vars, StatementsInv
  <2>2. AttemptsInv' /\ \A r \in RunId : Used(r) => Used(r)'
    BY <2>1, TablesKept
  <2>3. InFlightSound'
    BY <2>1, <2>2, InFlightKept
  <2> QED BY <2>2, <2>3 DEF StatementsInv
<1> QED BY <1>1, <1>2, <1>3, <1>4

\* However many processes ingest results while leases expire, and wherever any of them
\* is killed, the attempts of a job are numbered apart and one that may not be repeated
\* is handed out once.
THEOREM AttemptsSoundBetweenStatements == CrashSpec => []AttemptsSound
<1>1. StatementsInv => AttemptsSound
  BY FreshManualRunsOnce DEF StatementsInv, AttemptsInv, AttemptsSound
<1> QED BY <1>1, StatementsInit, StatementsStep, PTL DEF CrashSpec

=============================================================================
