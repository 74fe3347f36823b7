----------------------- MODULE HermesControllerProofs -----------------------
(***************************************************************************)
(* Proofs about HermesController, for every set of jobs, workers, runs and *)
(* gates, every task, and every lease duration.                            *)
(***************************************************************************)
EXTENDS HermesController, TLAPS, FiniteSetTheorems

USE DEF RESULT_STATUSES, JobState, RunState

\* The outcome of a run that the policy of ingest_result rewrites is still a
\* result payload.
LEMMA NormalizedType ==
  ASSUME NEW j \in Job, NEW p \in Payload
  PROVE  /\ Normalized(j, p) \in StoredResult
         /\ Normalized(j, p).body.status \in RESULT_STATUSES
<1>1. p \in ResultPayload
  BY ConstantsAssumption
<1>2. [p EXCEPT !.status = "BLOCKED", !.gate = None] \in ResultPayload
  BY <1>1 DEF ResultPayload
<1>3. Normalized(j, p) \in StoredResult
  BY <1>1, <1>2 DEF Normalized, StoredResult
<1>4. \A s \in StoredResult : s.body.status \in RESULT_STATUSES
  BY DEF StoredResult, ResultPayload
<1> QED BY <1>3, <1>4

LEMMA ExpiryTargetType ==
  ASSUME NEW j \in Job
  PROVE  ExpiryTarget(j) \in {"QUEUED", "NEEDS_RECONCILIATION"}
BY DEF ExpiryTarget

\* Updating some columns of a row leaves the others alone.
LEMMA RunStateUpdate ==
  ASSUME NEW row \in RunRow, NEW st \in RunState
  PROVE  LET new == [row EXCEPT !.state = st]
         IN  /\ new \in RunRow /\ new.state = st
             /\ new.job = row.job /\ new.worker = row.worker /\ new.attempt = row.attempt
             /\ new.left = row.left /\ new.result = row.result
BY DEF RunRow

LEMMA RunLeftUpdate ==
  ASSUME NEW row \in RunRow, NEW k \in -1 .. LeaseDuration
  PROVE  LET new == [row EXCEPT !.left = k]
         IN  /\ new \in RunRow /\ new.left = k
             /\ new.job = row.job /\ new.worker = row.worker /\ new.attempt = row.attempt
             /\ new.state = row.state /\ new.result = row.result
BY DEF RunRow

LEMMA RunOutcomeUpdate ==
  ASSUME NEW row \in RunRow, NEW res \in StoredResult
  PROVE  LET new == [row EXCEPT !.result = res]
         IN  /\ new \in RunRow /\ new.result = res /\ new.state = row.state
             /\ new.job = row.job /\ new.worker = row.worker /\ new.attempt = row.attempt
             /\ new.left = row.left
BY DEF RunRow

LEMMA JobStateUpdate ==
  ASSUME NEW row \in JobRow, NEW st \in JobState
  PROVE  LET new == [row EXCEPT !.state = st, !.active = None]
         IN  /\ new \in JobRow /\ new.state = st /\ new.active = None
             /\ new.attempt = row.attempt /\ new.created = row.created
BY DEF JobRow

\* Every action keeps the shape of the tables.
LEMMA TypeStep == TypeOK /\ [Next]_vars => TypeOK'
<1> SUFFICES ASSUME TypeOK, [Next]_vars PROVE TypeOK'
  OBVIOUS
<1> USE ConstantsAssumption
<1>1. CASE UNCHANGED vars
  BY <1>1 DEF TypeOK, vars
<1>2. ASSUME NEW w \in Worker, NEW d \in Descriptor, RegisterWorker(w, d) PROVE TypeOK'
  BY <1>2 DEF TypeOK, RegisterWorker, WorkerRow
<1>3. ASSUME NEW w \in Worker, HeartbeatWorker(w) PROVE TypeOK'
  BY <1>3 DEF TypeOK, HeartbeatWorker, WorkerRow
<1>4. ASSUME NEW j \in Job, NEW t \in 0 .. Cardinality(Job), Enqueue(j, t) PROVE TypeOK'
  <2>1. t \in Nat
    <3>1. PICK i \in Job : t \in {jobs[i].created, jobs[i].created + 1}
      BY <1>4 DEF Enqueue, CreatedNow
    <3> QED BY <3>1 DEF TypeOK, JobRow
  <2> QED BY <1>4, <2>1 DEF TypeOK, Enqueue, NoJob, JobRow
<1>5. ASSUME NEW w \in Worker, NEW j \in Job, NEW r \in RunId, Claim(w, j, r) PROVE TypeOK'
  <2>1. jobs[j].attempt + 1 \in Nat
    <3>1. jobs[j] \in JobRow
      BY DEF TypeOK
    <3>2. jobs[j].attempt \in Nat
      BY <3>1 DEF JobRow
    <3> QED BY <3>2
  <2>2. jobs' \in [Job -> JobRow]
    BY <1>5, <2>1 DEF TypeOK, Claim, Lease, JobRow
  <2>3. [state |-> "RUNNING", job |-> j, worker |-> w, attempt |-> jobs[j].attempt + 1,
         left |-> LeaseDuration, result |-> None] \in RunRow
    BY <2>1 DEF RunRow
  <2>4. workers' \in [Worker -> WorkerRow]
    BY <1>5 DEF TypeOK, Claim, WorkerRow
  <2> QED BY <1>5, <2>2, <2>3, <2>4 DEF TypeOK, Claim, Lease
<1>6. ASSUME NEW w \in Worker, ClaimNothing(w) PROVE TypeOK'
  BY <1>6 DEF TypeOK, ClaimNothing, WorkerRow
<1>7. ASSUME NEW r \in RunId, NEW claim \in RunId, HeartbeatRun(r, claim) PROVE TypeOK'
  <2>1. [runs[r] EXCEPT !.left = LeaseDuration] \in RunRow
    <3>1. runs[r] \in RunRow /\ LeaseDuration \in -1 .. LeaseDuration
      BY DEF TypeOK
    <3> QED BY <3>1, RunLeftUpdate
  <2>2. runs' = [runs EXCEPT ![r] = [runs[r] EXCEPT !.left = LeaseDuration]]
    BY <1>7 DEF HeartbeatRun
  <2>3. [runs[r] EXCEPT !.left = LeaseDuration].state = runs[r].state
        /\ [runs[r] EXCEPT !.left = LeaseDuration].job = runs[r].job
        /\ [runs[r] EXCEPT !.left = LeaseDuration].worker = runs[r].worker
    BY DEF TypeOK, RunRow
  <2> QED BY <1>7, <2>1, <2>2, <2>3 DEF TypeOK, HeartbeatRun
<1>8. CASE ReconcileExpiredLeases
  <2>1. \A r \in RunId : /\ [runs[r] EXCEPT !.state = "STALE"] \in RunRow
                         /\ [runs[r] EXCEPT !.state = "STALE"].job = runs[r].job
                         /\ [runs[r] EXCEPT !.state = "STALE"].worker = runs[r].worker
    BY RunStateUpdate DEF TypeOK
  <2>2. ASSUME NEW j \in Job PROVE [jobs[j] EXCEPT !.state = ExpiryTarget(j), !.active = None] \in JobRow
    <3>1. jobs[j] \in JobRow /\ ExpiryTarget(j) \in JobState
      BY ExpiryTargetType DEF TypeOK
    <3> QED BY <3>1, JobStateUpdate
  <2>3. \A r \in RunId : Expired(r) => runs[r].state # "UNUSED"
    BY DEF Expired
  <2>4. runs' \in [RunId -> RunRow] /\ jobs' \in [Job -> JobRow]
    BY <1>8, <2>1, <2>2 DEF ReconcileExpiredLeases, TypeOK
  <2>5. \A r \in RunId : runs'[r].state # "UNUSED" => runs'[r].job \in Job /\ runs'[r].worker \in Worker
    BY <1>8, <2>1, <2>3 DEF ReconcileExpiredLeases, TypeOK
  <2> QED BY <1>8, <2>4, <2>5 DEF TypeOK, ReconcileExpiredLeases
<1>9. ASSUME NEW e \in Envelope, IngestResult(e) PROVE TypeOK'
  <2> DEFINE r == e.run
             stored == Normalized(runs[r].job, e.body)
             row == [runs[r] EXCEPT !.state = stored.body.status, !.result = stored]
  <2>1. r \in RunId /\ runs[r].state = "RUNNING" /\ runs[r].job \in Job
    BY <1>9 DEF Envelope, IngestResult, IngestVerdict, OwnsLease, TypeOK
  <2>2. stored \in StoredResult /\ stored.body.status \in RESULT_STATUSES
    BY <2>1, NormalizedType DEF Envelope
  <2>3. StoreResult(r, stored) /\ UNCHANGED <<workers, decisions>>
    BY <1>9 DEF IngestResult
  <2> HIDE DEF stored, r
  <2>4. row \in RunRow /\ row.job = runs[r].job /\ row.worker = runs[r].worker
    <3>1. runs[r] \in RunRow /\ stored.body.status \in RunState
      BY <2>1, <2>2 DEF TypeOK
    <3>2. PICK mid : mid = [runs[r] EXCEPT !.state = stored.body.status]
      OBVIOUS
    <3>3. mid \in RunRow /\ mid.job = runs[r].job /\ mid.worker = runs[r].worker
      BY <3>1, <3>2, RunStateUpdate
    <3>4. row = [mid EXCEPT !.result = stored]
      BY <3>2
    <3> HIDE DEF row
    <3> QED BY <2>2, <3>3, <3>4, RunOutcomeUpdate
  <2>5. runs' = [runs EXCEPT ![r] = row]
    BY <2>3 DEF StoreResult
  <2>6. jobs' \in [Job -> JobRow]
    BY <2>1, <2>2, <2>3 DEF TypeOK, StoreResult, JobRow
  <2> HIDE DEF row
  <2> QED BY <2>1, <2>3, <2>4, <2>5, <2>6 DEF TypeOK
<1>10. ASSUME NEW j \in Job, NEW g \in Gate, NEW decision \in {"APPROVED", "REJECTED"},
              NEW source \in RunId \cup {None}, ResolveGate(j, g, decision, source)
       PROVE  TypeOK'
  <2>1. Disposition(j, decision) \in JobState
    BY ExpiryTargetType DEF Disposition
  <2>2. PICK r \in RunId : decisions' = [decisions EXCEPT ![j][g] =
                        [decision |-> decision, source |-> r,
                         disposition |-> Disposition(j, decision)]]
    BY <1>10 DEF ResolveGate
  <2>3. [decision |-> decision, source |-> r, disposition |-> Disposition(j, decision)]
          \in DecisionRow
    BY <2>1 DEF DecisionRow
  <2>4. decisions' \in [Job -> [Gate -> DecisionRow \cup {None}]]
    BY <2>2, <2>3 DEF TypeOK
  <2>5. jobs' \in [Job -> JobRow]
    BY <1>10, <2>1, JobStateUpdate DEF TypeOK, ResolveGate
  <2> QED BY <1>10, <2>4, <2>5 DEF TypeOK, ResolveGate
<1>11. CASE Tick
  <2>1. \A r \in RunId : runs[r].left >= 0 =>
          /\ [runs[r] EXCEPT !.left = @ - 1] \in RunRow
          /\ [runs[r] EXCEPT !.left = @ - 1].state = runs[r].state
          /\ [runs[r] EXCEPT !.left = @ - 1].job = runs[r].job
          /\ [runs[r] EXCEPT !.left = @ - 1].worker = runs[r].worker
    <3>1. \A r \in RunId : runs[r] \in RunRow /\ runs[r].left \in -1 .. LeaseDuration
      BY DEF TypeOK, RunRow
    <3>2. \A r \in RunId : runs[r].left >= 0 => runs[r].left - 1 \in -1 .. LeaseDuration
      BY <3>1
    <3> QED BY <3>1, <3>2, RunLeftUpdate
  <2>2. \A w \in Worker : workers[w].age <= WorkerOffline =>
          [workers[w] EXCEPT !.age = @ + 1] \in WorkerRow
    BY DEF TypeOK, WorkerRow
  <2>3. runs' \in [RunId -> RunRow] /\ workers' \in [Worker -> WorkerRow]
    BY <1>11, <2>1, <2>2 DEF Tick, TypeOK
  <2>4. \A r \in RunId : runs'[r].state # "UNUSED" => runs'[r].job \in Job /\ runs'[r].worker \in Worker
    BY <1>11, <2>1 DEF Tick, TypeOK
  <2> QED BY <1>11, <2>3, <2>4 DEF TypeOK, Tick
<1> QED BY <1>1, <1>2, <1>3, <1>4, <1>5, <1>6, <1>7, <1>8, <1>9, <1>10, <1>11 DEF Next

\* The tables keep the shape of the schema.
THEOREM TypeCorrect == Spec => []TypeOK
<1>1. Init => TypeOK
  BY ConstantsAssumption DEF Init, TypeOK, NoJob, NoRunRow, JobRow, RunRow, WorkerRow
<1> QED BY <1>1, TypeStep, PTL DEF Spec

-----------------------------------------------------------------------------
(***************************************************************************)
(* What each action that writes a job or a run does, column by column.     *)
(***************************************************************************)
LEMMA EnqueueEffect ==
  ASSUME TypeOK, NEW j \in Job, NEW t \in 0 .. Cardinality(Job), Enqueue(j, t)
  PROVE  /\ jobs[j].state = "ABSENT"
         /\ jobs'[j].state = "QUEUED" /\ jobs'[j].attempt = 0 /\ jobs'[j].active = None
         /\ \A i \in Job \ {j} : jobs'[i] = jobs[i]
         /\ runs' = runs /\ decisions' = decisions
BY DEF TypeOK, JobRow, Enqueue, Enqueued, NoJob

LEMMA ClaimEffect ==
  ASSUME TypeOK, NEW w \in Worker, NEW j \in Job, NEW r \in RunId, Claim(w, j, r)
  PROVE  /\ jobs[j].state = "QUEUED" /\ runs[r].state = "UNUSED"
         /\ jobs'[j].state = "RUNNING" /\ jobs'[j].active = r
         /\ jobs'[j].attempt = jobs[j].attempt + 1
         /\ \A i \in Job \ {j} : jobs'[i] = jobs[i]
         /\ runs'[r].state = "RUNNING" /\ runs'[r].job = j /\ runs'[r].worker = w
         /\ runs'[r].attempt = jobs[j].attempt + 1
         /\ \A q \in RunId \ {r} : runs'[q] = runs[q]
         /\ decisions' = decisions
         /\ Task[j].depends_on # None => jobs[Task[j].depends_on].state = "DONE"
BY DEF TypeOK, JobRow, Claim, NextFor, Runnable, Lease

LEMMA ReconcileEffect ==
  ASSUME TypeOK, ReconcileExpiredLeases
  PROVE  /\ decisions' = decisions
         /\ \A r \in RunId :
              /\ runs'[r].job = runs[r].job /\ runs'[r].attempt = runs[r].attempt
              /\ runs'[r].result = runs[r].result /\ runs'[r].worker = runs[r].worker
              /\ IF Expired(r) THEN runs[r].state = "RUNNING" /\ runs'[r].state = "STALE"
                 ELSE runs'[r].state = runs[r].state
         /\ \A j \in Job :
              /\ jobs'[j].attempt = jobs[j].attempt
              /\ IF jobs[j].active \in RunId /\ Expired(jobs[j].active)
                 THEN jobs'[j].state = ExpiryTarget(j) /\ jobs'[j].active = None
                 ELSE jobs'[j] = jobs[j]
<1>1. \A r \in RunId : runs[r] \in RunRow
  BY DEF TypeOK
<1>2. \A j \in Job : jobs[j] \in JobRow /\ ExpiryTarget(j) \in JobState
  BY ExpiryTargetType DEF TypeOK
<1>3. ASSUME NEW r \in RunId
      PROVE  /\ runs'[r].job = runs[r].job /\ runs'[r].attempt = runs[r].attempt
             /\ runs'[r].result = runs[r].result /\ runs'[r].worker = runs[r].worker
             /\ IF Expired(r) THEN runs[r].state = "RUNNING" /\ runs'[r].state = "STALE"
                ELSE runs'[r].state = runs[r].state
  <2>1. runs'[r] = IF Expired(r) THEN [runs[r] EXCEPT !.state = "STALE"] ELSE runs[r]
    BY DEF ReconcileExpiredLeases
  <2>2. Expired(r) => runs[r].state = "RUNNING"
    BY DEF Expired
  <2> QED BY <1>1, <2>1, <2>2, RunStateUpdate
<1>4. ASSUME NEW j \in Job
      PROVE  /\ jobs'[j].attempt = jobs[j].attempt
             /\ IF jobs[j].active \in RunId /\ Expired(jobs[j].active)
                THEN jobs'[j].state = ExpiryTarget(j) /\ jobs'[j].active = None
                ELSE jobs'[j] = jobs[j]
  <2>1. jobs'[j] = IF jobs[j].active \in RunId /\ Expired(jobs[j].active)
                   THEN [jobs[j] EXCEPT !.state = ExpiryTarget(j), !.active = None]
                   ELSE jobs[j]
    BY DEF ReconcileExpiredLeases
  <2> DEFINE new == [jobs[j] EXCEPT !.state = ExpiryTarget(j), !.active = None]
  <2>2. new.state = ExpiryTarget(j) /\ new.active = None /\ new.attempt = jobs[j].attempt
    BY <1>2, JobStateUpdate
  <2> HIDE DEF new
  <2> QED BY <2>1, <2>2 DEF new
<1> QED BY <1>3, <1>4 DEF ReconcileExpiredLeases

LEMMA IngestEffect ==
  ASSUME TypeOK, NEW e \in Envelope, IngestResult(e)
  PROVE  LET r == e.run
             j == runs[r].job
             stored == Normalized(j, e.body)
         IN  /\ r \in RunId /\ j \in Job /\ runs[r].state = "RUNNING" /\ jobs[j].active = r
             /\ stored \in StoredResult /\ stored.body.status \in RESULT_STATUSES
             /\ stored.body.status = "WAIT_USER" =>
                  /\ stored.body.gate \in Task[j].human_gates
                  /\ ~GateIsApproved(j, stored.body.gate)
             /\ runs'[r].state = stored.body.status /\ runs'[r].result = stored
             /\ runs'[r].job = j /\ runs'[r].attempt = runs[r].attempt /\ runs'[r].worker = runs[r].worker
             /\ \A q \in RunId \ {r} : runs'[q] = runs[q]
             /\ jobs'[j].state = stored.body.status /\ jobs'[j].active = None
             /\ jobs'[j].attempt = jobs[j].attempt
             /\ \A i \in Job \ {j} : jobs'[i] = jobs[i]
             /\ decisions' = decisions
<1> DEFINE r == e.run
           j == runs[r].job
           stored == Normalized(j, e.body)
<1>1. r \in RunId /\ e.body \in Payload
  BY DEF Envelope
<1>2. runs[r].state = "RUNNING" /\ jobs[j].active = r /\ GateAllowed(j, e.body)
  BY DEF IngestResult, IngestVerdict, OwnsLease
<1>3. j \in Job
  BY <1>1, <1>2 DEF TypeOK
<1>4. stored \in StoredResult /\ stored.body.status \in RESULT_STATUSES
  BY <1>1, <1>3, NormalizedType
<1>5. stored.body.status = "WAIT_USER" =>
        stored.body.gate \in Task[j].human_gates /\ ~GateIsApproved(j, stored.body.gate)
  <2>1. e.body \in ResultPayload
    BY <1>1, ConstantsAssumption
  <2>2. [e.body EXCEPT !.status = "BLOCKED", !.gate = None].status = "BLOCKED"
    BY <2>1 DEF ResultPayload
  <2>3. CASE e.body.status = "WAIT_USER" /\ GateIsApproved(j, e.body.gate)
    BY <2>2, <2>3 DEF Normalized
  <2>4. CASE ~(e.body.status = "WAIT_USER" /\ GateIsApproved(j, e.body.gate))
    <3>1. stored.body = e.body
      BY <2>4 DEF Normalized
    <3> QED BY <1>2, <2>4, <3>1 DEF GateAllowed
  <2> QED BY <2>3, <2>4
<1>6. /\ runs' = [runs EXCEPT ![r] = [runs[r] EXCEPT !.state = stored.body.status, !.result = stored]]
      /\ jobs' = [jobs EXCEPT ![j] = [jobs[j] EXCEPT !.state = stored.body.status, !.active = None]]
      /\ decisions' = decisions
  BY DEF IngestResult, StoreResult
<1> HIDE DEF stored
<1>7. runs[r] \in RunRow /\ jobs[j] \in JobRow
  BY <1>1, <1>3 DEF TypeOK
<1>8. /\ runs'[r].state = stored.body.status /\ runs'[r].result = stored
      /\ runs'[r].job = j /\ runs'[r].attempt = runs[r].attempt /\ runs'[r].worker = runs[r].worker
      /\ \A q \in RunId \ {r} : runs'[q] = runs[q]
  <2> DEFINE new == [runs[r] EXCEPT !.state = stored.body.status, !.result = stored]
  <2>1. stored.body.status \in RunState
    BY <1>4
  <2>2. /\ new.state = stored.body.status /\ new.result = stored
        /\ new.job = runs[r].job /\ new.attempt = runs[r].attempt /\ new.worker = runs[r].worker
    <3>1. stored \in StoredResult
      BY <1>4
    <3>2. PICK mid : mid = [runs[r] EXCEPT !.state = stored.body.status]
      OBVIOUS
    <3>3. /\ mid \in RunRow /\ mid.state = stored.body.status
          /\ mid.job = runs[r].job /\ mid.attempt = runs[r].attempt /\ mid.worker = runs[r].worker
      BY <1>7, <2>1, <3>2, RunStateUpdate
    <3>4. new = [mid EXCEPT !.result = stored]
      BY <3>2
    <3> HIDE DEF new
    <3> QED BY <3>1, <3>3, <3>4, RunOutcomeUpdate
  <2>3. runs'[r] = new /\ \A q \in RunId \ {r} : runs'[q] = runs[q]
    BY <1>1, <1>6 DEF TypeOK
  <2> HIDE DEF new
  <2> QED BY <2>2, <2>3
<1>9. /\ jobs'[j].state = stored.body.status /\ jobs'[j].active = None
      /\ jobs'[j].attempt = jobs[j].attempt
      /\ \A i \in Job \ {j} : jobs'[i] = jobs[i]
  <2>1. PICK new : new = [jobs[j] EXCEPT !.state = stored.body.status, !.active = None]
    OBVIOUS
  <2>2. new.state = stored.body.status /\ new.active = None /\ new.attempt = jobs[j].attempt
    BY <1>4, <1>7, <2>1, JobStateUpdate
  <2>3. jobs'[j] = new /\ \A i \in Job \ {j} : jobs'[i] = jobs[i]
    BY <1>3, <1>6, <2>1 DEF TypeOK
  <2> QED BY <2>2, <2>3
<1> QED BY <1>1, <1>2, <1>3, <1>4, <1>5, <1>6, <1>8, <1>9 DEF stored

LEMMA ResolveEffect ==
  ASSUME TypeOK, NEW j \in Job, NEW g \in Gate, NEW decision \in {"APPROVED", "REJECTED"},
         NEW source \in RunId \cup {None}, ResolveGate(j, g, decision, source)
  PROVE  /\ jobs[j].state = "WAIT_USER" /\ decisions[j][g] = None /\ runs' = runs
         /\ jobs'[j].state = Disposition(j, decision) /\ jobs'[j].active = None
         /\ jobs'[j].attempt = jobs[j].attempt
         /\ \A i \in Job \ {j} : jobs'[i] = jobs[i] /\ decisions'[i] = decisions[i]
         /\ \A h \in Gate \ {g} : decisions'[j][h] = decisions[j][h]
         /\ \E r \in RunId :
              /\ IsWaitingRun(j, r) /\ WaitingGate(r) = g
              /\ decisions'[j][g] = [decision |-> decision, source |-> r,
                                     disposition |-> Disposition(j, decision)]
<1>1. jobs[j] \in JobRow /\ Disposition(j, decision) \in JobState
  BY ExpiryTargetType DEF TypeOK, Disposition
<1>2. jobs' = [jobs EXCEPT ![j] = [jobs[j] EXCEPT !.state = Disposition(j, decision), !.active = None]]
  BY DEF ResolveGate
<1>3. /\ jobs'[j].state = Disposition(j, decision) /\ jobs'[j].active = None
      /\ jobs'[j].attempt = jobs[j].attempt
      /\ \A i \in Job \ {j} : jobs'[i] = jobs[i]
  <2>1. PICK new : new = [jobs[j] EXCEPT !.state = Disposition(j, decision), !.active = None]
    OBVIOUS
  <2>2. new.state = Disposition(j, decision) /\ new.active = None /\ new.attempt = jobs[j].attempt
    BY <1>1, <2>1, JobStateUpdate
  <2>3. jobs'[j] = new /\ \A i \in Job \ {j} : jobs'[i] = jobs[i]
    BY <1>2, <2>1 DEF TypeOK
  <2> QED BY <2>2, <2>3
<1> QED BY <1>3 DEF ResolveGate, TypeOK

\* The remaining actions write no column that an invariant reads but `left'.
LEMMA OtherEffect ==
  ASSUME TypeOK,
         \/ UNCHANGED vars
         \/ \E w \in Worker, d \in Descriptor : RegisterWorker(w, d)
         \/ \E w \in Worker : HeartbeatWorker(w) \/ ClaimNothing(w)
         \/ \E r, claim \in RunId : HeartbeatRun(r, claim)
         \/ Tick
  PROVE  /\ jobs' = jobs /\ decisions' = decisions
         /\ \A r \in RunId :
              /\ runs'[r].state = runs[r].state /\ runs'[r].job = runs[r].job
              /\ runs'[r].attempt = runs[r].attempt /\ runs'[r].result = runs[r].result
              /\ runs'[r].worker = runs[r].worker
<1>1. \A r \in RunId : runs[r] \in RunRow /\ runs[r].left \in -1 .. LeaseDuration
  BY DEF TypeOK, RunRow
<1>2. CASE \E r, claim \in RunId : HeartbeatRun(r, claim)
  <2>1. LeaseDuration \in -1 .. LeaseDuration
    BY ConstantsAssumption
  <2>2. PICK r \in RunId : runs' = [runs EXCEPT ![r] = [runs[r] EXCEPT !.left = LeaseDuration]]
    BY <1>2 DEF HeartbeatRun
  <2> QED BY <1>1, <1>2, <2>1, <2>2, RunLeftUpdate DEF HeartbeatRun, TypeOK
<1>3. CASE Tick
  <2>1. \A r \in RunId : runs[r].left >= 0 => runs[r].left - 1 \in -1 .. LeaseDuration
    BY <1>1, ConstantsAssumption
  <2>2. ASSUME NEW r \in RunId
        PROVE  /\ runs'[r].state = runs[r].state /\ runs'[r].job = runs[r].job
               /\ runs'[r].attempt = runs[r].attempt /\ runs'[r].result = runs[r].result
              /\ runs'[r].worker = runs[r].worker
    <3>1. runs'[r] = IF runs[r].left >= 0 /\ runs[r].state # "UNUSED"
                     THEN [runs[r] EXCEPT !.left = runs[r].left - 1] ELSE runs[r]
      BY <1>3 DEF Tick
    <3> QED BY <1>1, <2>1, <3>1, RunLeftUpdate
  <2> QED BY <1>3, <2>2 DEF Tick
<1> QED BY <1>2, <1>3 DEF vars, RegisterWorker, HeartbeatWorker, ClaimNothing

-----------------------------------------------------------------------------
(***************************************************************************)
(* The inductive invariant.                                                *)
(***************************************************************************)
\* All that the steps below read of the types.
LEMMA Types ==
  ASSUME TypeOK
  PROVE  /\ \A j \in Job : jobs[j].attempt \in Nat /\ jobs[j].active \in RunId \cup {None}
                          /\ jobs[j].state \in JobState
         /\ \A r \in RunId : runs[r].attempt \in Nat /\ runs[r].state \in RunState
                            /\ (runs[r].state # "UNUSED" => runs[r].job \in Job)
         /\ \A j \in Job, g \in Gate : decisions[j][g] # None => decisions[j][g].source \in RunId
BY DEF TypeOK, JobRow, RunRow, DecisionRow

\* What EveryRequestAnsweredOrPending says of one run.
RequestSound(r) ==
  runs[r].state = "WAIT_USER" =>
    LET j == runs[r].job
        g == runs[r].result.body.gate
    IN  /\ runs[r].result # None /\ g \in Task[j].human_gates
        /\ IF jobs[j].state = "WAIT_USER" /\ runs[r].attempt = jobs[j].attempt
           THEN decisions[j][g] = None
           ELSE decisions[j][g] # None /\ decisions[j][g].source = r

LEMMA RequestsSound == EveryRequestAnsweredOrPending <=> \A r \in RunId : RequestSound(r)
BY DEF EveryRequestAnsweredOrPending, RequestSound, Pending, WaitingGate

LEMMA RequestsSoundNext == (\A r \in RunId : RequestSound(r)') => EveryRequestAnsweredOrPending'
BY DEF EveryRequestAnsweredOrPending, RequestSound, Pending, WaitingGate

\* A waiting run whose row stays, and whose job stays in WAIT_USER or out of it.
LEMMA RequestFrame ==
  ASSUME EveryRequestAnsweredOrPending, NEW q \in RunId, decisions' = decisions,
         runs'[q].state = "WAIT_USER" =>
           /\ runs[q].state = "WAIT_USER" /\ runs'[q].job = runs[q].job
           /\ runs'[q].attempt = runs[q].attempt /\ runs'[q].result = runs[q].result
           /\ jobs'[runs[q].job].attempt = jobs[runs[q].job].attempt
           /\ (jobs'[runs[q].job].state = "WAIT_USER") = (jobs[runs[q].job].state = "WAIT_USER")
  PROVE  RequestSound(q)'
<1>1. RequestSound(q)
  BY RequestsSound
<1> QED BY <1>1 DEF RequestSound

\* A step that writes only heartbeats, descriptors or the clock keeps the invariant.
LEMMA OtherPreserves ==
  ASSUME IInv, TypeOK', jobs' = jobs, decisions' = decisions,
         \A r \in RunId :
           /\ runs'[r].state = runs[r].state /\ runs'[r].job = runs[r].job
           /\ runs'[r].attempt = runs[r].attempt /\ runs'[r].result = runs[r].result
  PROVE  IInv'
<1>0. /\ LeaseOwnership /\ AttemptsDistinct /\ QueuedManualIsFresh /\ StatusShowsLatestResult
      /\ EveryRequestAnsweredOrPending /\ DecisionsSound /\ RunsAfterDependency
  BY DEF IInv
<1>t. /\ \A i \in Job : jobs[i].attempt \in Nat /\ jobs[i].active \in RunId \cup {None}
      /\ \A q \in RunId : runs[q].attempt \in Nat /\ (runs[q].state # "UNUSED" => runs[q].job \in Job)
      /\ \A i \in Job, h \in Gate : decisions[i][h] # None => decisions[i][h].source \in RunId
      /\ None \notin RunId
  BY Types, ConstantsAssumption DEF IInv
<1>1. LeaseOwnership'
  BY <1>0, <1>t DEF LeaseOwnership
<1>2. AttemptsDistinct'
  BY <1>0, <1>t DEF AttemptsDistinct
<1>3. QueuedManualIsFresh'
  BY <1>0 DEF QueuedManualIsFresh
<1>4. StatusShowsLatestResult'
  BY <1>0, <1>t DEF StatusShowsLatestResult, RunsOf
<1>5. EveryRequestAnsweredOrPending'
  <2>1. \A q \in RunId : RequestSound(q)'
    BY <1>0, RequestFrame
  <2> QED BY <2>1, RequestsSoundNext
<1>6. DecisionsSound'
  BY <1>0, <1>t DEF DecisionsSound, WaitingGate
<1>7. RunsAfterDependency'
  BY <1>0, <1>t DEF RunsAfterDependency
<1> QED BY <1>1, <1>2, <1>3, <1>4, <1>5, <1>6, <1>7 DEF IInv

\* enqueue keeps the invariant: no row refers to a job that is not in the table.
LEMMA EnqueuePreserves ==
  ASSUME IInv, TypeOK', NEW j \in Job, NEW t \in 0 .. Cardinality(Job), Enqueue(j, t)
  PROVE  IInv'
<1>1. /\ \A i \in Job : jobs[i].attempt \in Nat /\ jobs[i].active \in RunId \cup {None}
      /\ \A q \in RunId : runs[q].attempt \in Nat
                         /\ (runs[q].state # "UNUSED" => runs[q].job \in Job)
      /\ \A i \in Job, h \in Gate : decisions[i][h] # None => decisions[i][h].source \in RunId
      /\ \A i \in Job : Task[i].human_gates \subseteq Gate /\ Task[i].depends_on \in Job \cup {None}
      /\ None \notin RunId /\ None \notin Job
  BY Types, ConstantsAssumption DEF IInv
<1>2. /\ jobs[j].state = "ABSENT"
      /\ jobs'[j].state = "QUEUED" /\ jobs'[j].attempt = 0 /\ jobs'[j].active = None
      /\ \A i \in Job \ {j} : jobs'[i] = jobs[i]
      /\ runs' = runs /\ decisions' = decisions
  BY EnqueueEffect DEF IInv
<1>3. jobs[j].attempt = 0 /\ \A q \in RunId : runs[q].state # "UNUSED" => runs[q].job # j
  BY <1>1, <1>2 DEF IInv, QueuedManualIsFresh, AttemptsDistinct
<1>4. LeaseOwnership'
  BY <1>1, <1>2, <1>3 DEF IInv, LeaseOwnership
<1>5. AttemptsDistinct'
  BY <1>1, <1>2, <1>3 DEF IInv, AttemptsDistinct
<1>6. QueuedManualIsFresh'
  BY <1>1, <1>2 DEF IInv, QueuedManualIsFresh
<1>7. StatusShowsLatestResult'
  BY <1>1, <1>2, <1>3 DEF IInv, StatusShowsLatestResult, RunsOf
<1>8. EveryRequestAnsweredOrPending'
  <2>1. ASSUME NEW q \in RunId PROVE RequestSound(q)'
    <3>1. runs'[q].state = "WAIT_USER" => runs[q].job \in Job /\ runs[q].job # j
      BY <1>1, <1>2, <1>3
    <3>2. EveryRequestAnsweredOrPending
      BY DEF IInv
    <3> QED BY <1>2, <3>1, <3>2, RequestFrame
  <2> QED BY <2>1, RequestsSoundNext
<1>9. DecisionsSound'
  BY <1>1, <1>2, <1>3 DEF IInv, DecisionsSound, WaitingGate
<1>10. RunsAfterDependency'
  BY <1>1, <1>2, <1>3 DEF IInv, RunsAfterDependency
<1> QED BY <1>4, <1>5, <1>6, <1>7, <1>8, <1>9, <1>10 DEF IInv

\* claim keeps the invariant: the job was queued, so no run held it and no run of it
\* is pending, and the new attempt is above all earlier ones.
LEMMA ClaimPreserves ==
  ASSUME IInv, TypeOK', NEW w \in Worker, NEW j \in Job, NEW r \in RunId, Claim(w, j, r)
  PROVE  IInv'
<1>1. /\ \A i \in Job : jobs[i].attempt \in Nat /\ jobs[i].active \in RunId \cup {None}
      /\ \A q \in RunId : runs[q].attempt \in Nat
                         /\ (runs[q].state # "UNUSED" => runs[q].job \in Job)
      /\ \A i \in Job, h \in Gate : decisions[i][h] # None => decisions[i][h].source \in RunId
      /\ \A i \in Job : Task[i].human_gates \subseteq Gate /\ Task[i].depends_on \in Job \cup {None}
      /\ None \notin RunId /\ None \notin Job
  BY Types, ConstantsAssumption DEF IInv
<1>2. /\ jobs[j].state = "QUEUED" /\ runs[r].state = "UNUSED"
      /\ jobs'[j].state = "RUNNING" /\ jobs'[j].active = r
      /\ jobs'[j].attempt = jobs[j].attempt + 1
      /\ \A i \in Job \ {j} : jobs'[i] = jobs[i]
      /\ runs'[r].state = "RUNNING" /\ runs'[r].job = j
      /\ runs'[r].attempt = jobs[j].attempt + 1
      /\ \A q \in RunId \ {r} : runs'[q] = runs[q]
      /\ decisions' = decisions
      /\ Task[j].depends_on # None => jobs[Task[j].depends_on].state = "DONE"
  BY ClaimEffect DEF IInv
<1>3. jobs[j].active = None /\ \A q \in RunId : runs[q].state = "RUNNING" => runs[q].job # j
  BY <1>1, <1>2 DEF IInv, LeaseOwnership
<1>4. LeaseOwnership'
  BY <1>1, <1>2, <1>3 DEF IInv, LeaseOwnership
<1>5. AttemptsDistinct'
  BY <1>1, <1>2 DEF IInv, AttemptsDistinct
<1>6. QueuedManualIsFresh'
  BY <1>1, <1>2 DEF IInv, QueuedManualIsFresh
<1>7. StatusShowsLatestResult'
  BY <1>1, <1>2 DEF IInv, StatusShowsLatestResult, RunsOf
<1>8. EveryRequestAnsweredOrPending'
  <2>1. ASSUME NEW q \in RunId PROVE RequestSound(q)'
    <3>0. EveryRequestAnsweredOrPending
      BY DEF IInv
    <3>1. runs'[q].state = "WAIT_USER" => q # r /\ runs'[q] = runs[q] /\ runs[q].job \in Job
      BY <1>1, <1>2
    <3>2. CASE runs[q].job # j \/ runs'[q].state # "WAIT_USER"
      BY <1>2, <3>0, <3>1, <3>2, RequestFrame
    <3>3. CASE runs[q].job = j /\ runs'[q].state = "WAIT_USER"
      <4>1. RequestSound(q)
        BY <3>0, RequestsSound
      <4>2. runs'[q] = runs[q] /\ jobs[j].state # "WAIT_USER" /\ jobs'[j].state # "WAIT_USER" /\ decisions' = decisions
        BY <1>2, <3>1, <3>3
      <4> QED BY <3>3, <4>1, <4>2 DEF RequestSound
    <3> QED BY <3>2, <3>3
  <2> QED BY <2>1, RequestsSoundNext
<1>9. DecisionsSound'
  <2>1. DecisionsSound
    BY DEF IInv
  <2> QED BY <1>1, <1>2, <2>1 DEF DecisionsSound, WaitingGate
<1>10. RunsAfterDependency'
  BY <1>1, <1>2 DEF IInv, RunsAfterDependency
<1> QED BY <1>4, <1>5, <1>6, <1>7, <1>8, <1>9, <1>10 DEF IInv

\* reconcile_expired_leases keeps the invariant: an expired run is the active run of
\* its job, so both tables let go of it together.
LEMMA ReconcilePreserves ==
  ASSUME IInv, TypeOK', ReconcileExpiredLeases
  PROVE  IInv'
<1>1. /\ \A i \in Job : jobs[i].attempt \in Nat /\ jobs[i].active \in RunId \cup {None}
      /\ \A q \in RunId : runs[q].attempt \in Nat
                         /\ (runs[q].state # "UNUSED" => runs[q].job \in Job)
      /\ \A i \in Job, h \in Gate : decisions[i][h] # None => decisions[i][h].source \in RunId
      /\ \A i \in Job : Task[i].human_gates \subseteq Gate /\ Task[i].depends_on \in Job \cup {None}
      /\ None \notin RunId /\ None \notin Job
  BY Types, ConstantsAssumption DEF IInv
<1>2. /\ decisions' = decisions
      /\ \A r \in RunId :
              /\ runs'[r].job = runs[r].job /\ runs'[r].attempt = runs[r].attempt
              /\ runs'[r].result = runs[r].result
              /\ IF Expired(r) THEN runs[r].state = "RUNNING" /\ runs'[r].state = "STALE"
                 ELSE runs'[r].state = runs[r].state
      /\ \A j \in Job :
              /\ jobs'[j].attempt = jobs[j].attempt
              /\ IF jobs[j].active \in RunId /\ Expired(jobs[j].active)
                 THEN jobs'[j].state = ExpiryTarget(j) /\ jobs'[j].active = None
                 ELSE jobs'[j] = jobs[j]
  BY ReconcileEffect DEF IInv
<1>3. \A j \in Job : jobs[j].active \in RunId /\ Expired(jobs[j].active) => jobs[j].state = "RUNNING"
  BY <1>1 DEF IInv, LeaseOwnership
<1>4. \A j \in Job : ExpiryTarget(j) \in {"QUEUED", "NEEDS_RECONCILIATION"}
                    /\ (~Idempotent(j) => ExpiryTarget(j) = "NEEDS_RECONCILIATION")
  BY DEF ExpiryTarget
<1>5. LeaseOwnership'
  BY <1>1, <1>2, <1>4 DEF IInv, LeaseOwnership
<1>6. AttemptsDistinct'
  BY <1>1, <1>2 DEF IInv, AttemptsDistinct
<1>7. QueuedManualIsFresh'
  BY <1>1, <1>2, <1>3, <1>4 DEF IInv, QueuedManualIsFresh
<1>8. StatusShowsLatestResult'
  BY <1>1, <1>2, <1>3, <1>4 DEF IInv, StatusShowsLatestResult, RunsOf
<1>9. EveryRequestAnsweredOrPending'
  <2>1. ASSUME NEW q \in RunId PROVE RequestSound(q)'
    <3>0. EveryRequestAnsweredOrPending
      BY DEF IInv
    <3>1. /\ runs'[q].job = runs[q].job /\ runs'[q].attempt = runs[q].attempt /\ runs'[q].result = runs[q].result
          /\ runs'[q].state = "WAIT_USER" => runs[q].state = "WAIT_USER" /\ runs[q].job \in Job
      BY <1>1, <1>2
    <3>2. ASSUME NEW i \in Job
          PROVE  /\ jobs'[i].attempt = jobs[i].attempt
                 /\ (jobs'[i].state = "WAIT_USER") = (jobs[i].state = "WAIT_USER")
      <4>1. CASE jobs[i].active \in RunId /\ Expired(jobs[i].active)
        BY <1>2, <1>3, <1>4, <4>1
      <4>2. CASE ~(jobs[i].active \in RunId /\ Expired(jobs[i].active))
        BY <1>2, <4>2
      <4> QED BY <4>1, <4>2
    <3> QED BY <1>2, <3>0, <3>1, <3>2, RequestFrame
  <2> QED BY <2>1, RequestsSoundNext
<1>10. DecisionsSound'
  <2>1. DecisionsSound
    BY DEF IInv
  <2> QED BY <1>1, <1>2, <1>3, <1>4, <2>1 DEF DecisionsSound, WaitingGate
<1>11. RunsAfterDependency'
  BY <1>1, <1>2, <1>3, <1>4 DEF IInv, RunsAfterDependency
<1> QED BY <1>5, <1>6, <1>7, <1>8, <1>9, <1>10, <1>11 DEF IInv

\* ingest_result keeps the invariant: a job with an active run is RUNNING, hence not
\* cancelled, hence a gate it may ask for is undecided.
LEMMA IngestPreserves ==
  ASSUME IInv, TypeOK', NEW e \in Envelope, IngestResult(e)
  PROVE  IInv'
<1>1. /\ \A i \in Job : jobs[i].attempt \in Nat /\ jobs[i].active \in RunId \cup {None}
      /\ \A q \in RunId : runs[q].attempt \in Nat
                         /\ (runs[q].state # "UNUSED" => runs[q].job \in Job)
      /\ \A i \in Job, h \in Gate : decisions[i][h] # None => decisions[i][h].source \in RunId
      /\ \A i \in Job : Task[i].human_gates \subseteq Gate /\ Task[i].depends_on \in Job \cup {None}
      /\ None \notin RunId /\ None \notin Job
  BY Types, ConstantsAssumption DEF IInv
<1> DEFINE r == e.run
           j == runs[r].job
           stored == Normalized(j, e.body)
<1>2. /\ r \in RunId /\ j \in Job /\ runs[r].state = "RUNNING" /\ jobs[j].active = r
      /\ stored \in StoredResult /\ stored.body.status \in RESULT_STATUSES
      /\ stored.body.status = "WAIT_USER" =>
           stored.body.gate \in Task[j].human_gates /\ ~GateIsApproved(j, stored.body.gate)
      /\ runs'[r].state = stored.body.status /\ runs'[r].result = stored
      /\ runs'[r].job = j /\ runs'[r].attempt = runs[r].attempt
      /\ \A q \in RunId \ {r} : runs'[q] = runs[q]
      /\ jobs'[j].state = stored.body.status /\ jobs'[j].active = None
      /\ jobs'[j].attempt = jobs[j].attempt
      /\ \A i \in Job \ {j} : jobs'[i] = jobs[i]
      /\ decisions' = decisions
  BY IngestEffect DEF IInv
<1>3. runs[r].job = j
  OBVIOUS
<1> HIDE DEF r, j, stored
<1>4. jobs[j].state = "RUNNING" /\ runs[r].attempt = jobs[j].attempt /\ stored # None
  BY <1>1, <1>2, NullAssumption DEF IInv, LeaseOwnership
<1>5. LeaseOwnership'
  BY <1>1, <1>2, <1>3, <1>4 DEF IInv, LeaseOwnership
<1>6. AttemptsDistinct'
  BY <1>1, <1>2, <1>3 DEF IInv, AttemptsDistinct
<1>7. QueuedManualIsFresh'
  BY <1>1, <1>2, <1>4 DEF IInv, QueuedManualIsFresh
<1>8. StatusShowsLatestResult'
  BY <1>1, <1>2, <1>3, <1>4 DEF IInv, StatusShowsLatestResult, RunsOf
<1>9. EveryRequestAnsweredOrPending'
  <2> SUFFICES ASSUME NEW q \in RunId, runs'[q].state = "WAIT_USER"
               PROVE  LET i == runs'[q].job
                          g == runs'[q].result.body.gate
                      IN  /\ runs'[q].result # None /\ g \in Task[i].human_gates
                          /\ IF jobs'[i].state = "WAIT_USER" /\ runs'[q].attempt = jobs'[i].attempt
                             THEN decisions'[i][g] = None
                             ELSE decisions'[i][g] # None /\ decisions'[i][g].source = q
    BY DEF EveryRequestAnsweredOrPending, Pending, WaitingGate
  <2>1. CASE q = r
    <3>1. stored.body.gate \in Gate /\ stored.body.status = "WAIT_USER"
      BY <1>1, <1>2, <2>1
    <3>2. decisions[j][stored.body.gate] = None
      <4>1. decisions[j][stored.body.gate] # None =>
              decisions[j][stored.body.gate].decision \in {"APPROVED", "REJECTED"}
        BY <1>2, <3>1 DEF IInv, TypeOK, DecisionRow
      <4> QED BY <1>2, <1>4, <3>1, <4>1 DEF IInv, DecisionsSound, GateIsApproved
    <3>3. /\ runs'[q].job = j /\ runs'[q].result = stored /\ runs'[q].attempt = jobs'[j].attempt
          /\ jobs'[j].state = "WAIT_USER" /\ decisions' = decisions
          /\ stored # None /\ stored.body.gate \in Task[j].human_gates
      BY <1>2, <1>4, <2>1, <3>1
    <3> QED BY <3>2, <3>3
  <2>2. CASE q # r
    <3>1. runs'[q] = runs[q] /\ runs[q].job \in Job
      BY <1>1, <1>2, <2>2
    <3>2. runs[q].job = j => runs[q].attempt # jobs[j].attempt
      BY <1>2, <1>3, <1>4, <2>2, <3>1 DEF IInv, AttemptsDistinct
    <3>3. RequestSound(q)
      BY RequestsSound DEF IInv
    <3>4. CASE runs[q].job = j
      <4>1. /\ runs[q].attempt # jobs[j].attempt /\ jobs'[j].attempt = jobs[j].attempt
            /\ decisions' = decisions /\ runs[q].state = "WAIT_USER"
        BY <1>2, <3>1, <3>2, <3>4
      <4> QED BY <3>1, <3>3, <3>4, <4>1 DEF RequestSound
    <3>5. CASE runs[q].job # j
      <4>1. jobs'[runs[q].job] = jobs[runs[q].job] /\ decisions' = decisions
        BY <1>2, <3>1, <3>5
      <4> QED BY <3>1, <3>3, <4>1 DEF RequestSound
    <3> QED BY <3>4, <3>5
  <2> QED BY <2>1, <2>2
<1>10. DecisionsSound'
  <2>1. DecisionsSound
    BY DEF IInv
  <2>2. \A i \in Job, h \in Gate : decisions[i][h] # None => decisions[i][h].source \in RunId /\ decisions[i][h].source # r
    BY <1>1, <1>2, <2>1 DEF DecisionsSound
  <2>3. /\ decisions' = decisions /\ \A q \in RunId : q # r => runs'[q] = runs[q]
        /\ \A i \in Job : (jobs'[i].state = "CANCELLED") = (jobs[i].state = "CANCELLED")
    BY <1>2, <1>4
  <2> QED BY <2>1, <2>2, <2>3 DEF DecisionsSound, WaitingGate
<1>11. RunsAfterDependency'
  BY <1>1, <1>2, <1>3, <1>4 DEF IInv, RunsAfterDependency
<1> QED BY <1>5, <1>6, <1>7, <1>8, <1>9, <1>10, <1>11 DEF IInv

\* _resolve_gate keeps the invariant: it answers the one pending request of the job.
LEMMA ResolvePreserves ==
  ASSUME IInv, TypeOK', NEW j \in Job, NEW g \in Gate, NEW decision \in {"APPROVED", "REJECTED"},
         NEW source \in RunId \cup {None}, ResolveGate(j, g, decision, source)
  PROVE  IInv'
<1>1. /\ \A i \in Job : jobs[i].attempt \in Nat /\ jobs[i].active \in RunId \cup {None}
      /\ \A q \in RunId : runs[q].attempt \in Nat
                         /\ (runs[q].state # "UNUSED" => runs[q].job \in Job)
      /\ \A i \in Job, h \in Gate : decisions[i][h] # None => decisions[i][h].source \in RunId
      /\ \A i \in Job : Task[i].human_gates \subseteq Gate /\ Task[i].depends_on \in Job \cup {None}
      /\ None \notin RunId /\ None \notin Job
  BY Types, ConstantsAssumption DEF IInv
<1>2. /\ jobs[j].state = "WAIT_USER" /\ decisions[j][g] = None /\ runs' = runs
      /\ jobs'[j].state = Disposition(j, decision) /\ jobs'[j].active = None
      /\ jobs'[j].attempt = jobs[j].attempt
      /\ \A i \in Job \ {j} : jobs'[i] = jobs[i] /\ decisions'[i] = decisions[i]
      /\ \A h \in Gate \ {g} : decisions'[j][h] = decisions[j][h]
  BY ResolveEffect DEF IInv
<1>3. PICK r \in RunId :
        /\ IsWaitingRun(j, r) /\ WaitingGate(r) = g
        /\ decisions'[j][g] = [decision |-> decision, source |-> r,
                               disposition |-> Disposition(j, decision)]
  BY ResolveEffect DEF IInv
<1>4. /\ decisions'[j][g] # None /\ decisions'[j][g].source = r
      /\ decisions'[j][g].decision = decision
  <2>1. Disposition(j, decision) \in JobState
    BY ExpiryTargetType DEF Disposition
  <2> QED BY <1>3, <2>1, NullAssumption DEF DecisionRow
<1>5. /\ Disposition(j, decision) \in {"QUEUED", "NEEDS_RECONCILIATION", "CANCELLED"}
      /\ Disposition(j, decision) = "CANCELLED" <=> decision = "REJECTED"
      /\ ~Idempotent(j) => Disposition(j, decision) # "QUEUED"
  BY DEF Disposition, ExpiryTarget
<1>6. runs[r].state = "WAIT_USER" /\ runs[r].job = j /\ Pending(r)
  <2>1. runs[r].state = "WAIT_USER" /\ runs[r].job = j
    BY <1>3 DEF IsWaitingRun, RunsOf
  <2> QED BY <1>1, <1>2, <1>3, <2>1 DEF IInv, EveryRequestAnsweredOrPending
<1>7. LeaseOwnership'
  BY <1>1, <1>2, <1>5 DEF IInv, LeaseOwnership
<1>8. AttemptsDistinct'
  BY <1>1, <1>2 DEF IInv, AttemptsDistinct
<1>9. QueuedManualIsFresh'
  BY <1>1, <1>2, <1>5 DEF IInv, QueuedManualIsFresh
<1>10. StatusShowsLatestResult'
  BY <1>1, <1>2, <1>5 DEF IInv, StatusShowsLatestResult, RunsOf
<1>11. EveryRequestAnsweredOrPending'
  <2> SUFFICES ASSUME NEW q \in RunId, runs[q].state = "WAIT_USER"
               PROVE  LET i == runs[q].job
                          h == WaitingGate(q)
                      IN  /\ runs[q].result # None /\ h \in Task[i].human_gates
                          /\ IF jobs'[i].state = "WAIT_USER" /\ runs[q].attempt = jobs'[i].attempt
                             THEN decisions'[i][h] = None
                             ELSE decisions'[i][h] # None /\ decisions'[i][h].source = q
    BY <1>2 DEF EveryRequestAnsweredOrPending, Pending, WaitingGate
  <2>1. CASE q = r
    BY <1>2, <1>3, <1>4, <1>5, <1>6, <2>1 DEF IInv, EveryRequestAnsweredOrPending
  <2>2. CASE q # r /\ runs[q].job = j
    <3>1. ~Pending(q)
      BY <1>6, <2>2 DEF IInv, AttemptsDistinct, Pending
    <3>2. decisions[j][WaitingGate(q)] # None /\ WaitingGate(q) \in Gate
      BY <1>1, <2>2, <3>1 DEF IInv, EveryRequestAnsweredOrPending
    <3>3. WaitingGate(q) # g
      BY <1>2, <3>2
    <3> QED BY <1>2, <1>5, <2>2, <3>1, <3>2, <3>3 DEF IInv, EveryRequestAnsweredOrPending
  <2>3. CASE runs[q].job # j
    BY <1>1, <1>2, <2>3 DEF IInv, EveryRequestAnsweredOrPending, Pending
  <2> QED BY <2>1, <2>2, <2>3
<1>12. DecisionsSound'
  <2>0. DecisionsSound
    BY DEF IInv
  <2>1. ASSUME NEW i \in Job, NEW h \in Gate, decisions'[i][h] # None
        PROVE  LET q == decisions'[i][h].source
               IN  runs[q].state = "WAIT_USER" /\ runs[q].job = i /\ WaitingGate(q) = h
    <3>1. CASE i = j /\ h = g
      BY <1>3, <1>4, <1>6, <3>1
    <3>2. CASE ~(i = j /\ h = g)
      BY <1>2, <2>0, <2>1, <3>2 DEF DecisionsSound
    <3> QED BY <3>1, <3>2
  <2>2. ASSUME NEW i \in Job
        PROVE  jobs'[i].state = "CANCELLED" <=>
                 \E h \in Gate : decisions'[i][h] # None /\ decisions'[i][h].decision = "REJECTED"
    <3>1. CASE i = j
      <4>1. ~ \E h \in Gate : decisions[j][h] # None /\ decisions[j][h].decision = "REJECTED"
        BY <1>2, <2>0 DEF DecisionsSound
      <4> QED BY <1>2, <1>4, <1>5, <3>1, <4>1
    <3>2. CASE i # j
      BY <1>2, <2>0, <3>2 DEF DecisionsSound
    <3> QED BY <3>1, <3>2
  <2>3. runs' = runs
    BY <1>2
  <2> QED BY <2>1, <2>2, <2>3 DEF DecisionsSound, WaitingGate
<1>13. RunsAfterDependency'
  BY <1>1, <1>2 DEF IInv, RunsAfterDependency
<1> QED BY <1>7, <1>8, <1>9, <1>10, <1>11, <1>12, <1>13 DEF IInv

-----------------------------------------------------------------------------
LEMMA InitIInv == Init => IInv
<1> SUFFICES ASSUME Init PROVE IInv
  OBVIOUS
<1>1. TypeOK
  BY ConstantsAssumption DEF Init, TypeOK, NoJob, NoRunRow, JobRow, RunRow, WorkerRow
<1>2. /\ \A j \in Job : jobs[j].state = "ABSENT" /\ jobs[j].attempt = 0 /\ jobs[j].active = None
      /\ \A r \in RunId : runs[r].state = "UNUSED"
      /\ \A j \in Job, g \in Gate : decisions[j][g] = None
  BY DEF Init, NoJob, NoRunRow
<1> QED
  BY <1>1, <1>2 DEF IInv, LeaseOwnership, AttemptsDistinct, QueuedManualIsFresh, RunsOf,
     StatusShowsLatestResult, EveryRequestAnsweredOrPending, DecisionsSound, RunsAfterDependency

LEMMA StepIInv == IInv /\ [Next]_vars => IInv'
<1> SUFFICES ASSUME IInv, [Next]_vars PROVE IInv'
  OBVIOUS
<1>1. TypeOK /\ TypeOK'
  BY TypeStep DEF IInv
<1>2. CASE \/ UNCHANGED vars
           \/ \E w \in Worker, d \in Descriptor : RegisterWorker(w, d)
           \/ \E w \in Worker : HeartbeatWorker(w) \/ ClaimNothing(w)
           \/ \E r, claim \in RunId : HeartbeatRun(r, claim)
           \/ Tick
  <2>1. /\ jobs' = jobs /\ decisions' = decisions
        /\ \A r \in RunId :
             /\ runs'[r].state = runs[r].state /\ runs'[r].job = runs[r].job
             /\ runs'[r].attempt = runs[r].attempt /\ runs'[r].result = runs[r].result
    BY <1>1, <1>2, OtherEffect
  <2> QED BY <1>1, <2>1, OtherPreserves
<1>3. CASE \E j \in Job, t \in 0 .. Cardinality(Job) : Enqueue(j, t)
  BY <1>1, <1>3, EnqueuePreserves
<1>4. CASE \E w \in Worker, j \in Job, r \in RunId : Claim(w, j, r)
  BY <1>1, <1>4, ClaimPreserves
<1>5. CASE ReconcileExpiredLeases
  BY <1>1, <1>5, ReconcilePreserves
<1>6. CASE \E e \in Envelope : IngestResult(e)
  BY <1>1, <1>6, IngestPreserves
<1>7. CASE \E j \in Job, g \in Gate, decision \in {"APPROVED", "REJECTED"},
              source \in RunId \cup {None} : ResolveGate(j, g, decision, source)
  BY <1>1, <1>7, ResolvePreserves
<1> QED BY <1>2, <1>3, <1>4, <1>5, <1>6, <1>7 DEF Next

LEMMA AlwaysIInv == Spec => []IInv
BY InitIInv, StepIInv, PTL DEF Spec

\* At every moment at most one run holds a job, and the job's row and the run's row
\* agree on it (claim, reconcile_expired_leases and ingest_result).
THEOREM LeaseOwnershipHolds == Spec => []LeaseOwnership
<1>1. IInv => LeaseOwnership
  BY DEF IInv
<1> QED BY <1>1, AlwaysIInv, PTL

\* The unique index one_attempt_per_job is never violated by claim.
THEOREM AttemptsAreDistinct == Spec => []AttemptsDistinct
<1>1. IInv => AttemptsDistinct
  BY DEF IInv
<1> QED BY <1>1, AlwaysIInv, PTL

\* The only attempt of a manual_reconcile job is its first.
LEMMA FreshManualRunsOnce == TypeOK /\ AttemptsDistinct /\ QueuedManualIsFresh => ManualRunsOnce
<1> SUFFICES ASSUME TypeOK, AttemptsDistinct, QueuedManualIsFresh,
                    NEW j \in Job, ~Idempotent(j), NEW r \in RunsOf(j), NEW q \in RunsOf(j)
             PROVE  r = q
  BY DEF ManualRunsOnce
<1>1. /\ r \in RunId /\ runs[r].state # "UNUSED" /\ runs[r].job = j
      /\ q \in RunId /\ runs[q].state # "UNUSED" /\ runs[q].job = j
  BY DEF RunsOf
<1>2. runs[r].attempt \in Nat /\ runs[q].attempt \in Nat /\ jobs[j].attempt \in Nat
  BY <1>1, Types
<1>3. jobs[j].attempt <= 1
  BY DEF QueuedManualIsFresh
<1>4. runs[r].attempt = 1 /\ runs[q].attempt = 1
  BY <1>1, <1>2, <1>3 DEF AttemptsDistinct
<1> QED BY <1>1, <1>4 DEF AttemptsDistinct

LEMMA OneRunOfManual == IInv => ManualRunsOnce
BY FreshManualRunsOnce DEF IInv

\* A manual_reconcile job is handed out at most once in its life.
THEOREM ManualJobsRunOnce == Spec => []ManualRunsOnce
BY OneRunOfManual, AlwaysIInv, PTL

\* A job that waits for a human always has exactly the pending request that
\* _resolve_gate will accept: its latest attempt, a declared gate, no decision yet.
THEOREM WaitingJobsAreResolvable == Spec => []WaitingJobResolvable
<1>1. IInv => WaitingJobResolvable
  <2> SUFFICES ASSUME IInv, NEW j \in Job, jobs[j].state = "WAIT_USER"
               PROVE  \E r \in RunId :
                        /\ IsWaitingRun(j, r) /\ runs[r].attempt = jobs[j].attempt
                        /\ WaitingGate(r) \in Task[j].human_gates
                        /\ decisions[j][WaitingGate(r)] = None
    BY DEF WaitingJobResolvable
  <2>1. PICK r \in RunsOf(j) : runs[r].attempt = jobs[j].attempt /\ runs[r].state = "WAIT_USER"
    BY DEF IInv, StatusShowsLatestResult
  <2>2. r \in RunId /\ runs[r].job = j
    BY DEF RunsOf
  <2>3. \A q \in RunsOf(j) : runs[q].attempt <= runs[r].attempt
    <3>1. \A q \in RunsOf(j) : q \in RunId /\ runs[q].state # "UNUSED" /\ runs[q].job = j
      BY DEF RunsOf
    <3>2. \A q \in RunId : runs[q].attempt \in Nat
      BY Types DEF IInv
    <3> QED BY <2>1, <3>1, <3>2, Types DEF IInv, AttemptsDistinct
  <2>4. IsWaitingRun(j, r)
    BY <2>1, <2>3 DEF IsWaitingRun
  <2> QED BY <2>1, <2>2, <2>4 DEF IInv, EveryRequestAnsweredOrPending, Pending
<1> QED BY <1>1, AlwaysIInv, PTL

\* No gate stops a job twice.
THEOREM GatesAreAskedOnce == Spec => []GateAskedOnce
<1>1. IInv => GateAskedOnce
  <2> SUFFICES ASSUME IInv, NEW r \in RunId, NEW q \in RunId,
                      runs[r].state = "WAIT_USER", runs[q].state = "WAIT_USER",
                      runs[r].job = runs[q].job, WaitingGate(r) = WaitingGate(q)
               PROVE  r = q
    BY DEF GateAskedOnce
  <2>1. CASE Pending(r) /\ Pending(q)
    BY <2>1 DEF IInv, AttemptsDistinct, Pending
  <2>2. CASE ~(Pending(r) /\ Pending(q))
    BY <2>2 DEF IInv, EveryRequestAnsweredOrPending
  <2> QED BY <2>1, <2>2
<1> QED BY <1>1, AlwaysIInv, PTL

\* Decisions point at the request they answer, and CANCELLED means rejected.
THEOREM DecisionsAreSound == Spec => []DecisionsSound
<1>1. IInv => DecisionsSound
  BY DEF IInv
<1> QED BY <1>1, AlwaysIInv, PTL

\* The human gates of a job over all its attempts: who waits can be decided, nobody is
\* asked twice, every decision answers the run that asked (resolve_gate).
THEOREM GatesAreSound == Spec => []GatesSound
<1>1. WaitingJobResolvable /\ GateAskedOnce /\ DecisionsSound => GatesSound
  BY DEF GatesSound
<1> QED BY <1>1, WaitingJobsAreResolvable, GatesAreAskedOnce, DecisionsAreSound, PTL

\* Handing out a job again is a new attempt, and a manual_reconcile job has only one.
THEOREM AttemptsAreSound == Spec => []AttemptsSound
<1>1. AttemptsDistinct /\ ManualRunsOnce => AttemptsSound
  BY DEF AttemptsSound
<1> QED BY <1>1, AttemptsAreDistinct, ManualJobsRunOnce, PTL

\* A job with a dependency runs only while its parent is DONE.
THEOREM DependenciesAreRespected == Spec => []RunsAfterDependency
<1>1. IInv => RunsAfterDependency
  BY DEF IInv
<1> QED BY <1>1, AlwaysIInv, PTL

\* Late messages rewrite nothing: final jobs, finished or stale runs and gate
\* decisions never change.
THEOREM HistoryIsImmutable == Spec => HistoryStands
<1>1. IInv /\ [Next]_vars => [HistoryStep]_vars
  <2> SUFFICES ASSUME IInv, Next PROVE HistoryStep
    BY DEF HistoryStep, vars
  <2>1. TypeOK
    BY DEF IInv
  <2> USE DEF FinalJobState
  <2>2. CASE \/ UNCHANGED vars
             \/ \E w \in Worker, d \in Descriptor : RegisterWorker(w, d)
             \/ \E w \in Worker : HeartbeatWorker(w) \/ ClaimNothing(w)
             \/ \E r, claim \in RunId : HeartbeatRun(r, claim)
             \/ Tick
    BY <2>1, <2>2, OtherEffect DEF HistoryStep
  <2>3. ASSUME NEW j \in Job, NEW t \in 0 .. Cardinality(Job), Enqueue(j, t) PROVE HistoryStep
    BY <2>1, <2>3, EnqueueEffect DEF HistoryStep
  <2>4. ASSUME NEW w \in Worker, NEW j \in Job, NEW r \in RunId, Claim(w, j, r) PROVE HistoryStep
    BY <2>1, <2>4, ClaimEffect DEF HistoryStep
  <2>5. CASE ReconcileExpiredLeases
    <3>1. \A j \in Job : jobs[j].active \in RunId => jobs[j].state = "RUNNING"
      BY ConstantsAssumption DEF IInv, LeaseOwnership
    <3> QED BY <2>1, <2>5, <3>1, ReconcileEffect DEF HistoryStep
  <2>6. ASSUME NEW e \in Envelope, IngestResult(e) PROVE HistoryStep
    <3> DEFINE r == e.run
               j == runs[r].job
    <3>1. /\ r \in RunId /\ j \in Job /\ runs[r].state = "RUNNING" /\ jobs[j].active = r
          /\ \A q \in RunId \ {r} : runs'[q] = runs[q]
          /\ \A i \in Job \ {j} : jobs'[i] = jobs[i]
          /\ decisions' = decisions
      BY <2>1, <2>6, IngestEffect
    <3> HIDE DEF r, j
    <3>2. jobs[j].state = "RUNNING"
      BY <3>1, ConstantsAssumption DEF IInv, LeaseOwnership
    <3> QED BY <3>1, <3>2 DEF HistoryStep
  <2>7. ASSUME NEW j \in Job, NEW g \in Gate, NEW decision \in {"APPROVED", "REJECTED"},
               NEW source \in RunId \cup {None}, ResolveGate(j, g, decision, source)
        PROVE  HistoryStep
    BY <2>1, <2>7, ResolveEffect DEF HistoryStep
  <2> QED BY <2>2, <2>3, <2>4, <2>5, <2>6, <2>7 DEF Next
<1> QED BY <1>1, AlwaysIInv, PTL DEF HistoryStands, Spec

\* status() shows the result of the latest attempt, under the job's own state.
THEOREM StatusIsLatestResult == Spec => []StatusShowsLatestResult
<1>1. IInv => StatusShowsLatestResult
  BY DEF IInv
<1> QED BY <1>1, AlwaysIInv, PTL

\* No step moves the expiry of an expired lease forward.
LEMMA ExpiryIsFinal ==
  ASSUME TypeOK, [Next]_vars, NEW r \in RunId, Expired(r)
  PROVE  ~Live(r)'
<1>1. runs[r].state = "RUNNING" /\ runs[r].left < 0 /\ runs[r].left \in -1 .. LeaseDuration
  BY DEF Expired, TypeOK, RunRow
<1>2. runs'[r] = runs[r] => ~Live(r)'
  BY <1>1, ConstantsAssumption DEF Live
<1>3. ASSUME NEW w \in Worker, NEW d \in Descriptor, RegisterWorker(w, d) PROVE ~Live(r)'
  BY <1>2, <1>3 DEF RegisterWorker
<1>4. ASSUME NEW w \in Worker, HeartbeatWorker(w) \/ ClaimNothing(w) PROVE ~Live(r)'
  BY <1>2, <1>4 DEF HeartbeatWorker, ClaimNothing
<1>5. ASSUME NEW q \in RunId, NEW claim \in RunId, HeartbeatRun(q, claim) PROVE ~Live(r)'
  <2>1. q # r
    BY <1>1, <1>5, ConstantsAssumption DEF HeartbeatRun, Live
  <2>2. runs'[r] = runs[r]
    BY <1>5, <2>1 DEF HeartbeatRun, TypeOK
  <2> QED BY <1>2, <2>2
<1>6. CASE Tick
  <2>1. ~(runs[r].left >= 0)
    BY <1>1, ConstantsAssumption
  <2>2. runs'[r] = runs[r]
    BY <1>6, <2>1 DEF Tick
  <2> QED BY <1>2, <2>2
<1>7. ASSUME NEW j \in Job, NEW t \in 0 .. Cardinality(Job), Enqueue(j, t) PROVE ~Live(r)'
  BY <1>2, <1>7 DEF Enqueue
<1>8. ASSUME NEW w \in Worker, NEW j \in Job, NEW q \in RunId, Claim(w, j, q) PROVE ~Live(r)'
  BY <1>1, <1>2, <1>8, ClaimEffect
<1>9. CASE ReconcileExpiredLeases
  BY <1>1, <1>9, ReconcileEffect DEF Live
<1>10. ASSUME NEW e \in Envelope, IngestResult(e) PROVE ~Live(r)'
  <2>1. CASE e.run = r
    BY <1>10, <2>1, IngestEffect DEF Live, RESULT_STATUSES
  <2>2. CASE e.run # r
    BY <1>2, <1>10, <2>2, IngestEffect
  <2> QED BY <2>1, <2>2
<1>11. ASSUME NEW j \in Job, NEW g \in Gate, NEW decision \in {"APPROVED", "REJECTED"},
              NEW source \in RunId \cup {None}, ResolveGate(j, g, decision, source)
       PROVE  ~Live(r)'
  BY <1>2, <1>11 DEF ResolveGate
<1>12. CASE UNCHANGED vars
  BY <1>2, <1>12 DEF vars
<1> QED BY <1>3, <1>4, <1>5, <1>6, <1>7, <1>8, <1>9, <1>10, <1>11, <1>12 DEF Next

\* A lease that ran out stays out: heartbeat_run requires lease_expires_at >= now, and
\* no other method moves the expiry of a RUNNING run forward.
THEOREM LeasesStayExpired == Spec => ExpiredLeaseStaysExpired
<1>1. TypeOK /\ [Next]_vars => [\A r \in RunId : Expired(r) => ~Live(r)']_vars
  BY ExpiryIsFinal
<1> QED BY <1>1, TypeCorrect, PTL DEF ExpiredLeaseStaysExpired, Spec

\* Only claim takes an unused run or gives a worker a live lease.
LEMMA OnlyClaimLeases ==
  ASSUME TypeOK, [Next]_vars, ~(\E w \in Worker, j \in Job, r \in RunId : Claim(w, j, r))
  PROVE  /\ \A r \in RunId : runs'[r].state # "UNUSED" => runs[r].state # "UNUSED"
         /\ \A w \in Worker : LiveRuns(w)' \subseteq LiveRuns(w)
<1>1. ASSUME NEW r \in RunId
      PROVE  /\ runs'[r].state # "UNUSED" => runs[r].state # "UNUSED"
             /\ runs'[r].state = "RUNNING" => runs[r].state = "RUNNING" /\ runs'[r].worker = runs[r].worker
  <2>1. CASE \/ UNCHANGED vars
             \/ \E w \in Worker, d \in Descriptor : RegisterWorker(w, d)
             \/ \E w \in Worker : HeartbeatWorker(w) \/ ClaimNothing(w)
             \/ \E q, claim \in RunId : HeartbeatRun(q, claim)
             \/ Tick
    BY <2>1, OtherEffect
  <2>2. ASSUME NEW j \in Job, NEW t \in 0 .. Cardinality(Job), Enqueue(j, t) PROVE runs' = runs
    BY <2>2 DEF Enqueue
  <2>3. CASE ReconcileExpiredLeases
    BY <2>3, ReconcileEffect
  <2>4. ASSUME NEW e \in Envelope, IngestResult(e)
        PROVE  /\ runs'[r].state # "UNUSED" => runs[r].state # "UNUSED"
               /\ runs'[r].state = "RUNNING" => runs[r].state = "RUNNING" /\ runs'[r].worker = runs[r].worker
    <3>1. CASE e.run = r
      BY <2>4, <3>1, IngestEffect
    <3>2. CASE e.run # r
      BY <2>4, <3>2, IngestEffect
    <3> QED BY <3>1, <3>2
  <2>5. ASSUME NEW j \in Job, NEW g \in Gate, NEW decision \in {"APPROVED", "REJECTED"},
               NEW source \in RunId \cup {None}, ResolveGate(j, g, decision, source)
        PROVE  runs' = runs
    BY <2>5 DEF ResolveGate
  <2>6. CASE runs' = runs
    BY <2>6
  <2> QED BY <2>1, <2>2, <2>3, <2>4, <2>5, <2>6 DEF Next
<1>2. ASSUME NEW w \in Worker, NEW r \in RunId, Live(r)', runs'[r].worker = w
      PROVE  Live(r) /\ runs[r].worker = w
  <2>1. runs[r].state = "RUNNING" /\ runs[r].worker = w
    BY <1>1, <1>2 DEF Live
  <2>2. ~Expired(r)
    BY <1>2, ExpiryIsFinal
  <2>3. runs[r].left \in -1 .. LeaseDuration
    BY DEF TypeOK, RunRow
  <2> QED BY <2>1, <2>2, <2>3, ConstantsAssumption DEF Live, Expired
<1> QED BY <1>1, <1>2 DEF LiveRuns

\* Runs are handed out one by one, so that those of a worker can be counted.
RunsFinite == IsFiniteSet({r \in RunId : runs[r].state # "UNUSED"})

LEMMA RunsFiniteStep == ASSUME TypeOK, RunsFinite, [Next]_vars PROVE RunsFinite'
<1>1. PICK used : used = {r \in RunId : runs[r].state # "UNUSED"}
  OBVIOUS
<1>2. IsFiniteSet(used)
  BY <1>1 DEF RunsFinite
<1>3. \E r : {q \in RunId : runs'[q].state # "UNUSED"} \subseteq used \cup {r}
  <2>1. ASSUME NEW w \in Worker, NEW j \in Job, NEW r \in RunId, Claim(w, j, r)
        PROVE  {q \in RunId : runs'[q].state # "UNUSED"} \subseteq used \cup {r}
    BY <1>1, <2>1, ClaimEffect
  <2>2. CASE ~(\E w \in Worker, j \in Job, r \in RunId : Claim(w, j, r))
    BY <1>1, <2>2, OnlyClaimLeases
  <2> QED BY <2>1, <2>2
<1>4. PICK r : {q \in RunId : runs'[q].state # "UNUSED"} \subseteq used \cup {r}
  BY <1>3
<1>5. IsFiniteSet(used \cup {r})
  BY <1>2, FS_AddElement
<1>6. IsFiniteSet({q \in RunId : runs'[q].state # "UNUSED"})
  BY <1>4, <1>5, FS_Subset
<1> QED BY <1>6 DEF RunsFinite

\* claim hands a worker one more run only below its max_concurrent_jobs, and no other
\* method gives it a live lease: for any number of runs, renewals and expired leases.
THEOREM CapacityIsRespected == Spec => CapacityRespected
<1>1. TypeOK /\ RunsFinite /\ [Next]_vars =>
        [\A w \in Worker : Cardinality(LiveRuns(w)') > Cardinality(LiveRuns(w)) =>
           Cardinality(LiveRuns(w)') <= workers[w].descriptor.max_concurrent_jobs]_vars
  <2> SUFFICES ASSUME TypeOK, RunsFinite, Next, NEW w \in Worker,
                      Cardinality(LiveRuns(w)') > Cardinality(LiveRuns(w))
               PROVE  Cardinality(LiveRuns(w)') <= workers[w].descriptor.max_concurrent_jobs
    OBVIOUS
  <2>1. IsFiniteSet(LiveRuns(w)) /\ Cardinality(LiveRuns(w)) \in Nat
    <3>1. LiveRuns(w) \subseteq {r \in RunId : runs[r].state # "UNUSED"}
      BY DEF LiveRuns, Live
    <3>2. IsFiniteSet(LiveRuns(w))
      BY <3>1, FS_Subset DEF RunsFinite
    <3> QED BY <3>2, FS_CardinalityType
  <2>2. PICK old, new : old = LiveRuns(w) /\ new = LiveRuns(w)'
    OBVIOUS
  <2>3. ~(new \subseteq old)
    <3> SUFFICES ASSUME new \subseteq old PROVE FALSE
      OBVIOUS
    <3>1. IsFiniteSet(new) /\ Cardinality(new) <= Cardinality(old)
      BY <2>1, <2>2, FS_Subset
    <3>2. Cardinality(new) \in Nat /\ Cardinality(old) \in Nat /\ Cardinality(new) > Cardinality(old)
      BY <2>1, <2>2, <3>1, FS_CardinalityType
    <3>3. PICK a, b : a = Cardinality(new) /\ b = Cardinality(old)
      OBVIOUS
    <3>4. a \in Nat /\ b \in Nat /\ a <= b /\ a > b
      BY <3>1, <3>2, <3>3
    <3> QED BY <3>4
  <2>4. PICK v \in Worker, j \in Job, r \in RunId : Claim(v, j, r)
    BY <2>2, <2>3, OnlyClaimLeases
  <2>5. /\ runs'[r].worker = v /\ (\A q \in RunId \ {r} : runs'[q] = runs[q])
    BY <2>4, ClaimEffect
  <2>6. v = w /\ new \subseteq old \cup {r}
    BY <2>2, <2>3, <2>5 DEF LiveRuns, Live
  <2>7. Cardinality(old) < workers[w].descriptor.max_concurrent_jobs
    BY <2>2, <2>4, <2>6 DEF Claim, HasCapacity
  <2>8. workers[w].descriptor.max_concurrent_jobs \in Nat
    <3>1. workers[w].descriptor # None /\ workers[w].descriptor \in Descriptor \cup {None}
      BY <2>4, <2>6 DEF Claim, TypeOK, WorkerRow
    <3> QED BY <3>1, ConstantsAssumption
  <2>9. IsFiniteSet(old \cup {r}) /\ Cardinality(old \cup {r}) <= Cardinality(old) + 1
    <3>1. /\ IsFiniteSet(old \cup {r})
          /\ Cardinality(old \cup {r}) = IF r \in old THEN Cardinality(old) ELSE Cardinality(old) + 1
      BY <2>1, <2>2, FS_AddElement
    <3>2. PICK a, b : a = Cardinality(old) /\ b = Cardinality(old \cup {r})
      OBVIOUS
    <3>3. a \in Nat /\ (b = a \/ b = a + 1)
      BY <2>1, <2>2, <3>1, <3>2
    <3>4. b <= a + 1
      BY <3>3
    <3> QED BY <3>1, <3>2, <3>4
  <2>10. IsFiniteSet(new) /\ Cardinality(new) <= Cardinality(old \cup {r})
    BY <2>6, <2>9, FS_Subset
  <2>11. PICK a, b, c, m : /\ a = Cardinality(old) /\ b = Cardinality(old \cup {r}) /\ c = Cardinality(new)
                           /\ m = workers[w].descriptor.max_concurrent_jobs
    OBVIOUS
  <2>12. a \in Nat /\ b \in Nat /\ c \in Nat /\ m \in Nat
    BY <2>1, <2>2, <2>8, <2>9, <2>10, <2>11, FS_CardinalityType
  <2>13. c <= b /\ b <= a + 1 /\ a < m
    BY <2>7, <2>9, <2>10, <2>11
  <2>14. c <= m
    BY <2>12, <2>13
  <2> QED BY <2>2, <2>11, <2>14
<1>2. Init => RunsFinite
  <2> SUFFICES ASSUME Init PROVE RunsFinite
    OBVIOUS
  <2>1. {r \in RunId : runs[r].state # "UNUSED"} = {}
    BY DEF Init, NoRunRow
  <2> QED BY <2>1, FS_EmptySet DEF RunsFinite
<1>3. TypeOK /\ RunsFinite /\ [Next]_vars => RunsFinite'
  BY RunsFiniteStep
<1> QED BY <1>1, <1>2, <1>3, TypeCorrect, PTL DEF CapacityRespected, Spec

-----------------------------------------------------------------------------
(***************************************************************************)
(* The controller implements the job lifecycle.                            *)
(***************************************************************************)
\* A job's holders are the worker of its active run, or nobody.
LEMMA HoldersAreActive ==
  ASSUME IInv, NEW j \in Job
  PROVE  HoldersOf(j) = IF jobs[j].active = None THEN {} ELSE {runs[jobs[j].active].worker}
<1>1. \A r \in RunId : runs[r].state = "RUNNING" /\ runs[r].job = j <=> jobs[j].active = r
  BY Types, ConstantsAssumption DEF IInv, LeaseOwnership
<1>2. jobs[j].active \in RunId \cup {None} /\ None \notin RunId
  BY Types, ConstantsAssumption DEF IInv
<1> QED BY <1>1, <1>2 DEF HoldersOf

\* A job that waits asks for the gate of its one pending request.
AsksForPendingGate ==
  \A j \in Job, r \in RunId :
    /\ jobs[j].state = "WAIT_USER" /\ runs[r].state = "WAIT_USER"
    /\ runs[r].job = j /\ runs[r].attempt = jobs[j].attempt
    => AskingOf(j) = {WaitingGate(r)}

LEMMA AskingIsPending == IInv => AsksForPendingGate
<1> SUFFICES ASSUME IInv, NEW j \in Job, jobs[j].state = "WAIT_USER",
                    NEW r \in RunId, runs[r].state = "WAIT_USER", runs[r].job = j,
                    runs[r].attempt = jobs[j].attempt
             PROVE  AskingOf(j) = {WaitingGate(r)}
  BY DEF AsksForPendingGate
<1>1. \A q \in RunId : runs[q].attempt \in Nat /\ jobs[j].attempt \in Nat
  BY Types DEF IInv
<1>2. \A q \in RunsOf(j) : q \in RunId /\ runs[q].state # "UNUSED" /\ runs[q].job = j
                         /\ runs[q].attempt \in 1 .. jobs[j].attempt
  BY DEF RunsOf, IInv, AttemptsDistinct
<1>3. IsWaitingRun(j, r)
  BY <1>1, <1>2 DEF IsWaitingRun, RunsOf
<1>4. ASSUME NEW q \in RunId, IsWaitingRun(j, q) PROVE q = r
  <2>1. runs[q].attempt = runs[r].attempt
    BY <1>1, <1>2, <1>3, <1>4 DEF IsWaitingRun
  <2> QED BY <1>2, <1>4, <2>1 DEF IsWaitingRun, IInv, AttemptsDistinct
<1> QED BY <1>3, <1>4 DEF AskingOf

\* A step that leaves a job's row, its decisions and its runs alone is invisible
\* in the lifecycle of that job.
LEMMA JobFrame ==
  ASSUME NEW i \in Job, jobs'[i] = jobs[i], decisions'[i] = decisions[i],
         \A q \in RunId :
           \/ /\ runs'[q].state = runs[q].state /\ runs'[q].job = runs[q].job
              /\ runs'[q].attempt = runs[q].attempt /\ runs'[q].result = runs[q].result
              /\ runs'[q].worker = runs[q].worker
           \/ q \notin RunsOf(i) /\ q \notin RunsOf(i)'
  PROVE  /\ PhaseOf(i)' = PhaseOf(i) /\ HoldersOf(i)' = HoldersOf(i)
         /\ AskingOf(i)' = AskingOf(i) /\ ApprovedGates(i)' = ApprovedGates(i)
<1>1. PhaseOf(i)' = PhaseOf(i)
  BY DEF PhaseOf
<1>2. HoldersOf(i)' = HoldersOf(i)
  BY DEF HoldersOf, RunsOf
<1>3. RunsOf(i)' = RunsOf(i)
  BY DEF RunsOf
<1>4. \A q \in RunsOf(i) : /\ q \in RunId /\ runs'[q].state = runs[q].state
                          /\ runs'[q].attempt = runs[q].attempt /\ runs'[q].result = runs[q].result
  BY DEF RunsOf
<1>5. \A q \in RunId : IsWaitingRun(i, q)' <=> IsWaitingRun(i, q)
  BY <1>3, <1>4 DEF IsWaitingRun
<1>6. AskingOf(i)' = AskingOf(i)
  <2>1. \A q \in RunId : IsWaitingRun(i, q) => WaitingGate(q)' = WaitingGate(q)
    BY <1>4 DEF IsWaitingRun, WaitingGate
  <2> QED BY <1>5, <2>1 DEF AskingOf
<1>7. ApprovedGates(i)' = ApprovedGates(i)
  BY DEF ApprovedGates, GateIsApproved
<1> QED BY <1>1, <1>2, <1>6, <1>7

\* How the state column shows in the lifecycle.
LEMMA Phases ==
  ASSUME NEW j \in Job, jobs[j].state \in JobState
  PROVE  /\ jobs[j].state = "ABSENT" => PhaseOf(j) = "new"
         /\ jobs[j].state = "QUEUED" => PhaseOf(j) = "ready"
         /\ jobs[j].state = "RUNNING" => PhaseOf(j) = "held"
         /\ jobs[j].state = "WAIT_USER" => PhaseOf(j) = "asking"
         /\ jobs[j].state \in FinalJobState => PhaseOf(j) = jobs[j].state
BY DEF PhaseOf, FinalJobState

\* enqueue submits.
LEMMA EnqueueRefines ==
  ASSUME IInv, IInv', NEW j \in Job, NEW t \in 0 .. Cardinality(Job), Enqueue(j, t)
  PROVE  Lifecycle!Submit(j)
<1>1. /\ jobs[j].state = "ABSENT" /\ jobs'[j].state = "QUEUED"
      /\ jobs'[j].attempt = 0 /\ jobs'[j].active = None
      /\ \A i \in Job \ {j} : jobs'[i] = jobs[i]
      /\ runs' = runs /\ decisions' = decisions
  BY EnqueueEffect DEF IInv
<1>2. jobs[j].attempt = 0 /\ jobs[j].active = None
  BY <1>1 DEF IInv, QueuedManualIsFresh, LeaseOwnership
<1>3. PhaseOf(j) = "new" /\ PhaseOf(j)' = "ready"
  BY <1>1 DEF PhaseOf
<1>4. HoldersOf(j)' = HoldersOf(j) /\ AskingOf(j)' = AskingOf(j) /\ ApprovedGates(j)' = ApprovedGates(j)
  BY <1>1 DEF HoldersOf, AskingOf, ApprovedGates, GateIsApproved
<1>5. \A i \in Job \ {j} : /\ PhaseOf(i)' = PhaseOf(i) /\ HoldersOf(i)' = HoldersOf(i)
                          /\ AskingOf(i)' = AskingOf(i) /\ ApprovedGates(i)' = ApprovedGates(i)
  BY <1>1, JobFrame
<1> QED BY <1>1, <1>2, <1>3, <1>4, <1>5 DEF Lifecycle!Submit

\* claim grants the job to one worker.
LEMMA ClaimRefines ==
  ASSUME IInv, IInv', NEW w \in Worker, NEW j \in Job, NEW r \in RunId, Claim(w, j, r)
  PROVE  Lifecycle!Grant(j, w)
<1>1. /\ jobs[j].state = "QUEUED" /\ runs[r].state = "UNUSED"
      /\ jobs'[j].state = "RUNNING" /\ jobs'[j].active = r
      /\ jobs'[j].attempt = jobs[j].attempt + 1
      /\ \A i \in Job \ {j} : jobs'[i] = jobs[i]
      /\ runs'[r].state = "RUNNING" /\ runs'[r].job = j /\ runs'[r].worker = w
      /\ \A q \in RunId \ {r} : runs'[q] = runs[q]
      /\ decisions' = decisions
      /\ Task[j].depends_on # None => jobs[Task[j].depends_on].state = "DONE"
  BY ClaimEffect DEF IInv
<1>2. jobs[j].active = None /\ r # None
  BY <1>1, ConstantsAssumption DEF IInv, LeaseOwnership
<1>3. HoldersOf(j) = {} /\ HoldersOf(j)' = {w}
  <2>1. HoldersOf(j) = {}
    BY <1>2, HoldersAreActive
  <2>2. \A q \in RunId : runs'[q].state = "RUNNING" /\ runs'[q].job = j <=> q = r
    BY <1>1, ConstantsAssumption DEF IInv, LeaseOwnership
  <2>3. HoldersOf(j)' = {runs'[q].worker : q \in {p \in RunId : runs'[p].state = "RUNNING" /\ runs'[p].job = j}}
    BY DEF HoldersOf
  <2> QED BY <1>1, <2>1, <2>2, <2>3
<1>4. PhaseOf(j) = "ready" /\ PhaseOf(j)' = "held"
  BY <1>1 DEF PhaseOf
<1>5. AskingOf(j)' = AskingOf(j) /\ ApprovedGates(j)' = ApprovedGates(j)
  BY <1>1 DEF AskingOf, ApprovedGates, GateIsApproved
<1>6. \A i \in Job \ {j} : /\ PhaseOf(i)' = PhaseOf(i) /\ HoldersOf(i)' = HoldersOf(i)
                          /\ AskingOf(i)' = AskingOf(i) /\ ApprovedGates(i)' = ApprovedGates(i)
  <2> SUFFICES ASSUME NEW i \in Job \ {j}
               PROVE  r \notin RunsOf(i) /\ r \notin RunsOf(i)'
    BY <1>1, JobFrame
  <2> QED BY <1>1 DEF RunsOf
<1>7. jobs[j].attempt = 0 \/ j \in {i \in Job : Idempotent(i)}
  BY <1>1 DEF IInv, QueuedManualIsFresh
<1>8. \A p \in {Task[j].depends_on} \ {None} : p \in Job /\ PhaseOf(p) = "DONE"
  BY <1>1, ConstantsAssumption DEF PhaseOf
<1> QED BY <1>1, <1>3, <1>4, <1>5, <1>6, <1>7, <1>8 DEF Lifecycle!Grant

\* reconcile_expired_leases revokes the jobs whose active lease ran out.
LEMMA ReconcileRefines ==
  ASSUME IInv, IInv', ReconcileExpiredLeases
  PROVE  \E S \in SUBSET Job : Lifecycle!Revoke(S)
<1> DEFINE S == {j \in Job : jobs[j].active \in RunId /\ Expired(jobs[j].active)}
<1>1. /\ decisions' = decisions
      /\ \A r \in RunId :
              /\ runs'[r].job = runs[r].job /\ runs'[r].attempt = runs[r].attempt
              /\ runs'[r].result = runs[r].result /\ runs'[r].worker = runs[r].worker
              /\ IF Expired(r) THEN runs[r].state = "RUNNING" /\ runs'[r].state = "STALE"
                 ELSE runs'[r].state = runs[r].state
      /\ \A j \in Job :
              /\ jobs'[j].attempt = jobs[j].attempt
              /\ IF j \in S THEN jobs'[j].state = ExpiryTarget(j) /\ jobs'[j].active = None
                 ELSE jobs'[j] = jobs[j]
  BY ReconcileEffect DEF IInv
<1>2. \A r \in RunId : runs[r].state = "RUNNING" => runs[r].job \in Job /\ jobs[runs[r].job].active = r
  BY Types DEF IInv, LeaseOwnership
<1>3. \A r \in RunId : Expired(r) => runs[r].job \in S
  BY <1>1, <1>2
<1>4. S # {}
  BY <1>3 DEF ReconcileExpiredLeases
<1>5. ASSUME NEW j \in S
      PROVE  /\ PhaseOf(j) = "held" /\ PhaseOf(j)' = Lifecycle!Again(j)
             /\ HoldersOf(j)' = {}
             /\ AskingOf(j)' = AskingOf(j) /\ ApprovedGates(j)' = ApprovedGates(j)
  <2>1. jobs[j].state = "RUNNING" /\ j \in Job
    BY ConstantsAssumption DEF IInv, LeaseOwnership
  <2>2. jobs'[j].state = ExpiryTarget(j) /\ jobs'[j].active = None
    BY <1>1
  <2>3. PhaseOf(j) = "held" /\ PhaseOf(j)' = Lifecycle!Again(j)
    BY <2>1, <2>2 DEF PhaseOf, ExpiryTarget, Lifecycle!Again
  <2>4. HoldersOf(j)' = {}
    <3>1. \A r \in RunId : ~(runs'[r].state = "RUNNING" /\ runs'[r].job = j)
      BY <2>2, ConstantsAssumption DEF IInv, LeaseOwnership
    <3> QED BY <3>1 DEF HoldersOf
  <2>5. AskingOf(j)' = AskingOf(j) /\ ApprovedGates(j)' = ApprovedGates(j)
    BY <1>1, <2>1, <2>2 DEF AskingOf, ApprovedGates, GateIsApproved, ExpiryTarget
  <2> QED BY <2>3, <2>4, <2>5
<1>6. ASSUME NEW i \in Job, i \notin S
      PROVE  /\ PhaseOf(i)' = PhaseOf(i) /\ HoldersOf(i)' = HoldersOf(i)
             /\ AskingOf(i)' = AskingOf(i) /\ ApprovedGates(i)' = ApprovedGates(i)
  <2>1. \A q \in RunId : Expired(q) => q \notin RunsOf(i) /\ q \notin RunsOf(i)'
    BY <1>1, <1>3, <1>6 DEF RunsOf
  <2> QED BY <1>1, <1>6, <2>1, JobFrame
<1> HIDE DEF S
<1>7. Lifecycle!Revoke(S)
  <2>1. S \subseteq Job
    BY DEF S
  <2> QED BY <1>1, <1>4, <1>5, <1>6, <2>1 DEF Lifecycle!Revoke
<1> QED BY <1>7 DEF S

\* ingest_result finishes the job or stops it at a gate not passed yet.
LEMMA IngestRefines ==
  ASSUME IInv, IInv', NEW e \in Envelope, IngestResult(e)
  PROVE  \E j \in Job :
            \/ \E outcome \in {"DONE", "BLOCKED", "FAILED"} : Lifecycle!Finish(j, outcome)
            \/ \E g \in Gate : Lifecycle!Ask(j, g)
<1> DEFINE r == e.run
           stored == Normalized(runs[r].job, e.body)
<1>0. PICK j \in Job : j = runs[r].job
  BY IngestEffect DEF IInv
<1>1. /\ r \in RunId /\ j \in Job /\ runs[r].state = "RUNNING" /\ jobs[j].active = r
      /\ stored.body.status \in RESULT_STATUSES
      /\ stored.body.status = "WAIT_USER" =>
           stored.body.gate \in Task[j].human_gates /\ ~GateIsApproved(j, stored.body.gate)
      /\ runs'[r].state = stored.body.status /\ runs'[r].result = stored
      /\ runs'[r].job = j /\ runs'[r].attempt = runs[r].attempt
      /\ \A q \in RunId \ {r} : runs'[q] = runs[q]
      /\ jobs'[j].state = stored.body.status /\ jobs'[j].active = None
      /\ jobs'[j].attempt = jobs[j].attempt
      /\ \A i \in Job \ {j} : jobs'[i] = jobs[i]
      /\ decisions' = decisions
  BY <1>0, IngestEffect DEF IInv
<1>2. runs[r].job = j
  BY <1>0
<1> HIDE DEF stored
<1>3. jobs[j].state = "RUNNING" /\ runs[r].attempt = jobs[j].attempt
  BY <1>1, ConstantsAssumption DEF IInv, LeaseOwnership
<1>4. PhaseOf(j) = "held" /\ AskingOf(j) = {}
  BY <1>3 DEF PhaseOf, AskingOf
<1>5. HoldersOf(j)' = {}
  <2>1. \A q \in RunId : ~(runs'[q].state = "RUNNING" /\ runs'[q].job = j)
    BY <1>1, ConstantsAssumption DEF IInv, LeaseOwnership
  <2> QED BY <2>1 DEF HoldersOf
<1>6. ApprovedGates(j)' = ApprovedGates(j)
  BY <1>1 DEF ApprovedGates, GateIsApproved
<1>7. \A i \in Job \ {j} : /\ PhaseOf(i)' = PhaseOf(i) /\ HoldersOf(i)' = HoldersOf(i)
                          /\ AskingOf(i)' = AskingOf(i) /\ ApprovedGates(i)' = ApprovedGates(i)
  <2> SUFFICES ASSUME NEW i \in Job \ {j}
               PROVE  r \notin RunsOf(i) /\ r \notin RunsOf(i)'
    BY <1>1, JobFrame
  <2> QED BY <1>1, <1>2 DEF RunsOf
<1>8. CASE stored.body.status = "WAIT_USER"
  <2>1. PhaseOf(j)' = "asking"
    BY <1>1, <1>8 DEF PhaseOf
  <2>2. AskingOf(j)' = {stored.body.gate}
    <3>1. AsksForPendingGate'
      BY AskingIsPending, PTL
    <3> QED BY <1>1, <1>3, <1>8, <3>1 DEF AsksForPendingGate, WaitingGate
  <2>3. stored.body.gate \in Gate
    BY <1>1, <1>8, ConstantsAssumption
  <2>4. stored.body.gate \in Task[j].human_gates \ ApprovedGates(j)
    BY <1>1, <1>8 DEF ApprovedGates
  <2>5. Lifecycle!Ask(j, stored.body.gate)
    <3>1. PICK g : g = stored.body.gate
      OBVIOUS
    <3>2. g \in Task[j].human_gates \ ApprovedGates(j) /\ AskingOf(j)' = {g}
      BY <2>2, <2>4, <3>1
    <3>a. j \in Job /\ \A i \in Job : jobs'[i].attempt = jobs[i].attempt
      BY <1>1
    <3>3. Lifecycle!Ask(j, g)
      BY <3>a, <1>4, <1>5, <1>6, <1>7, <2>1, <3>2 DEF Lifecycle!Ask
    <3> QED BY <3>1, <3>3
  <2> QED BY <1>1, <2>3, <2>5
<1>9. CASE stored.body.status \in {"DONE", "BLOCKED", "FAILED"}
  <2>1. PhaseOf(j)' = stored.body.status /\ AskingOf(j)' = {}
    BY <1>1, <1>9 DEF PhaseOf, AskingOf
  <2>2. Lifecycle!Finish(j, stored.body.status)
    BY <1>1, <1>4, <1>5, <1>6, <1>7, <2>1 DEF Lifecycle!Finish
  <2> QED BY <1>1, <1>9, <2>2
<1> QED BY <1>1, <1>8, <1>9

\* _resolve_gate approves or rejects the gate the job waits at.
LEMMA ResolveRefines ==
  ASSUME IInv, IInv', NEW j \in Job, NEW g \in Gate, NEW decision \in {"APPROVED", "REJECTED"},
         NEW source \in RunId \cup {None}, ResolveGate(j, g, decision, source)
  PROVE  Lifecycle!Approve(j, g) \/ Lifecycle!Reject(j, g)
<1>1. /\ jobs[j].state = "WAIT_USER" /\ decisions[j][g] = None /\ runs' = runs
      /\ jobs'[j].state = Disposition(j, decision) /\ jobs'[j].active = None
      /\ jobs'[j].attempt = jobs[j].attempt
      /\ \A i \in Job \ {j} : jobs'[i] = jobs[i] /\ decisions'[i] = decisions[i]
      /\ \A h \in Gate \ {g} : decisions'[j][h] = decisions[j][h]
  BY ResolveEffect DEF IInv
<1>2. PICK r \in RunId :
        /\ IsWaitingRun(j, r) /\ WaitingGate(r) = g
        /\ decisions'[j][g] = [decision |-> decision, source |-> r,
                               disposition |-> Disposition(j, decision)]
  BY ResolveEffect DEF IInv
<1>3. AskingOf(j) = {g}
  <2>1. runs[r].state = "WAIT_USER" /\ runs[r].job = j
    BY <1>2 DEF IsWaitingRun, RunsOf
  <2>2. runs[r].attempt = jobs[j].attempt
    BY <1>1, <1>2, <2>1 DEF IInv, EveryRequestAnsweredOrPending, Pending
  <2> QED BY <1>1, <1>2, <2>1, <2>2, AskingIsPending DEF AsksForPendingGate
<1>4. decisions'[j][g] # None /\ decisions'[j][g].decision = decision
  <2>1. Disposition(j, decision) \in JobState
    BY ExpiryTargetType DEF Disposition
  <2> QED BY <1>2, <2>1, NullAssumption DEF DecisionRow
<1>5. ApprovedGates(j)' = ApprovedGates(j) \cup (IF decision = "APPROVED" THEN {g} ELSE {})
  BY <1>1, <1>4 DEF ApprovedGates, GateIsApproved
<1>6. HoldersOf(j)' = HoldersOf(j)
  BY <1>1 DEF HoldersOf
<1>7. AskingOf(j)' = {}
  BY <1>1 DEF AskingOf, Disposition, ExpiryTarget
<1>8. PhaseOf(j)' = IF decision = "REJECTED" THEN "CANCELLED" ELSE Lifecycle!Again(j)
  BY <1>1 DEF PhaseOf, Disposition, ExpiryTarget, Lifecycle!Again
<1>9. \A i \in Job \ {j} : /\ PhaseOf(i)' = PhaseOf(i) /\ HoldersOf(i)' = HoldersOf(i)
                          /\ AskingOf(i)' = AskingOf(i) /\ ApprovedGates(i)' = ApprovedGates(i)
  BY <1>1, JobFrame
<1>10. CASE decision = "APPROVED"
  BY <1>1, <1>3, <1>5, <1>6, <1>7, <1>8, <1>9, <1>10 DEF Lifecycle!Approve
<1>11. CASE decision = "REJECTED"
  BY <1>1, <1>3, <1>5, <1>6, <1>7, <1>8, <1>9, <1>11 DEF Lifecycle!Reject
<1> QED BY <1>10, <1>11

\* Every step of the controller is a step of the job lifecycle or invisible to it.
THEOREM ControllerImplementsLifecycle == Spec => ImplementsLifecycle
<1>1. Init => Lifecycle!LInit
  <2> SUFFICES ASSUME Init PROVE Lifecycle!LInit
    OBVIOUS
  <2>1. \A j \in Job : jobs[j].state = "ABSENT" /\ jobs[j].attempt = 0
    BY DEF Init, NoJob
  <2>2. \A r \in RunId : runs[r].state = "UNUSED"
    BY DEF Init, NoRunRow
  <2>3. \A j \in Job, g \in Gate : decisions[j][g] = None
    BY DEF Init
  <2>4. \A j \in Job : /\ PhaseOf(j) = "new" /\ HoldersOf(j) = {} /\ AskingOf(j) = {}
                      /\ ApprovedGates(j) = {}
    BY <2>1, <2>2, <2>3 DEF PhaseOf, HoldersOf, AskingOf, ApprovedGates, GateIsApproved
  <2> QED BY <2>1, <2>4 DEF Lifecycle!LInit
<1>2. IInv /\ IInv' /\ [Next]_vars => [Lifecycle!LNext]_(Lifecycle!lvars)
  <2> SUFFICES ASSUME IInv, IInv', [Next]_vars PROVE [Lifecycle!LNext]_(Lifecycle!lvars)
    OBVIOUS
  <2>1. CASE \/ UNCHANGED vars
             \/ \E w \in Worker, d \in Descriptor : RegisterWorker(w, d)
             \/ \E w \in Worker : HeartbeatWorker(w) \/ ClaimNothing(w)
             \/ \E r, claim \in RunId : HeartbeatRun(r, claim)
             \/ Tick
    <3>1. /\ jobs' = jobs /\ decisions' = decisions
          /\ \A r \in RunId :
               /\ runs'[r].state = runs[r].state /\ runs'[r].job = runs[r].job
               /\ runs'[r].attempt = runs[r].attempt /\ runs'[r].result = runs[r].result
               /\ runs'[r].worker = runs[r].worker
      BY <2>1, OtherEffect DEF IInv
    <3>2. \A i \in Job : /\ PhaseOf(i)' = PhaseOf(i) /\ HoldersOf(i)' = HoldersOf(i)
                        /\ AskingOf(i)' = AskingOf(i) /\ ApprovedGates(i)' = ApprovedGates(i)
      BY <3>1, JobFrame
    <3> QED BY <3>1, <3>2 DEF Lifecycle!lvars
  <2>2. CASE \E j \in Job, t \in 0 .. Cardinality(Job) : Enqueue(j, t)
    BY <2>2, EnqueueRefines DEF Lifecycle!LNext
  <2>3. CASE \E w \in Worker, j \in Job, r \in RunId : Claim(w, j, r)
    BY <2>3, ClaimRefines DEF Lifecycle!LNext
  <2>4. CASE ReconcileExpiredLeases
    BY <2>4, ReconcileRefines DEF Lifecycle!LNext
  <2>5. CASE \E e \in Envelope : IngestResult(e)
    BY <2>5, IngestRefines DEF Lifecycle!LNext
  <2>6. CASE \E j \in Job, g \in Gate, decision \in {"APPROVED", "REJECTED"},
                source \in RunId \cup {None} : ResolveGate(j, g, decision, source)
    BY <2>6, ResolveRefines DEF Lifecycle!LNext
  <2> QED BY <2>1, <2>2, <2>3, <2>4, <2>5, <2>6 DEF Next
<1> QED BY <1>1, <1>2, AlwaysIInv, PTL DEF ImplementsLifecycle, Lifecycle!LSpec, Spec

=============================================================================
