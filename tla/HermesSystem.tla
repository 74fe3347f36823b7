----------------------------- MODULE HermesSystem -----------------------------
(***************************************************************************)
(* The controller composed with its worker daemons (worker.py): polling,   *)
(* execution in a thread with lease heartbeats, the state file that        *)
(* survives a crash, and an HTTP transport that may lose any request or    *)
(* any reply.  A request and the handler that serves it are one step; a    *)
(* lost request is a step not taken.                                       *)
(***************************************************************************)
EXTENDS HermesController

CONSTANTS
  WorkerDescriptor,  \* WorkerDescriptor[w]: the descriptor in w's configuration
  AdapterResult,     \* what an adapter may return: [status, gate, artifacts_ok]
  MaxCrash           \* BOUND: how often the daemons may be killed

VARIABLES
  daemon,            \* memory of the daemon process of each worker
  disk,              \* its state file
  executions,        \* executions[r]: how often an adapter was started for run r
  crashes            \* how often a daemon was killed

hvars == <<jobs, runs, workers, decisions, daemon, disk, executions, crashes>>
dvars == <<daemon, disk, executions, crashes>>

\* What a worker may put into an envelope: engine_result, never the legacy
\* codex_result, with artifacts that validate.
ReportedPayload == [status: RESULT_STATUSES, gate: Gate \cup {None}, engine: Engine,
                    legacy: {FALSE}, artifacts_ok: {TRUE}]

\* enqueue validates execution_engine against ENGINE_CAPABILITIES (_validate_task), whose
\* keys are the worker's KNOWN_ENGINES.
ASSUME SystemAssumption ==
  /\ WorkerDescriptor \in [Worker -> Descriptor]
  /\ MaxCrash \in Nat
  /\ AdapterResult \subseteq [status: RESULT_STATUSES, gate: Gate \cup {None}, artifacts_ok: BOOLEAN]
  /\ ReportedPayload \subseteq Payload
  /\ None \notin Engine /\ None \notin ResultPayload
  /\ \A j \in Job : Task[j].execution_engine \in (Engine \ {"github_api"}) \cup {None}

\* What the state file holds: the claim, the gates approved when it was made, and
\* the envelope that waits to be ingested.
NoState == [claim |-> None, approved |-> {}, envelope |-> None]

HInit ==
  /\ Init
  /\ daemon = [w \in Worker |-> [at |-> "down", state |-> NoState]]
  /\ disk = [w \in Worker |-> NoState]
  /\ executions = [r \in RunId |-> 0]
  /\ crashes = 0

-----------------------------------------------------------------------------
\* _normalize_gate_result and _normalize_artifacts: what the worker reports for an
\* adapter result.  Only a declared gate that is not approved may be asked for.
WorkerResult(j, approved, result) ==
  LET gated == IF result.status # "WAIT_USER" THEN [result EXCEPT !.gate = None]
               ELSE IF result.gate \in Task[j].human_gates \ approved THEN result
               ELSE [result EXCEPT !.status = "BLOCKED", !.gate = None]
  IN  IF result.artifacts_ok THEN gated
      ELSE [status |-> "FAILED", gate |-> None, artifacts_ok |-> TRUE]

\* _execution_engine_for_task, and the label of integrations in once().
WorkerEngine(t) ==
  IF "github_api" \in t.integrations THEN "github_api"
  ELSE IF t.execution_engine \in Engine \ {"github_api"} THEN t.execution_engine
  ELSE IF "codex" \in t.required_capabilities THEN "codex" ELSE "native"

EnvelopeOf(s) == [run |-> s.claim, claim |-> s.claim, body |-> s.envelope]

\* _save_state together with the assignments to active_claim and pending_envelope.
Save(w, at, s) ==
  /\ daemon' = [daemon EXCEPT ![w] = [at |-> at, state |-> s]]
  /\ disk' = [disk EXCEPT ![w] = s]

-----------------------------------------------------------------------------
\* __init__ (_load_state) and register(): the daemon resumes what the file says.
Start(w) ==
  /\ daemon[w].at = "down"
  /\ RegisterWorker(w, WorkerDescriptor[w])
  /\ daemon' = [daemon EXCEPT ![w] = [at |-> "idle", state |-> disk[w]]]
  /\ UNCHANGED <<disk, executions, crashes>>

\* run() calls once() again, whose first request is heartbeat_worker.
Poll(w) ==
  /\ daemon[w].at = "idle"
  /\ HeartbeatWorker(w)
  /\ daemon' = [daemon EXCEPT ![w].at = "once"]
  /\ UNCHANGED <<disk, executions, crashes>>

\* A request of once() fails before the controller sees it: run() backs off.
RequestLost(w) ==
  /\ daemon[w].at = "once"
  /\ daemon[w].state.claim # None => daemon[w].state.envelope # None
  /\ daemon' = [daemon EXCEPT ![w].at = "idle"]
  /\ UNCHANGED <<vars, disk, executions, crashes>>

\* once() without an active claim.
AskForWork(w) == daemon[w].at = "once" /\ daemon[w].state.claim = None

ClaimReceived(w, j, r) ==
  /\ AskForWork(w)
  /\ Claim(w, j, r)
  /\ Save(w, "once", [claim |-> r, approved |-> ApprovedGates(j), envelope |-> None])
  /\ UNCHANGED <<executions, crashes>>

ClaimReplyLost(w, j, r) ==
  /\ AskForWork(w)
  /\ Claim(w, j, r)
  /\ daemon' = [daemon EXCEPT ![w].at = "idle"]
  /\ UNCHANGED <<disk, executions, crashes>>

NoWork(w) ==
  /\ AskForWork(w)
  /\ ClaimNothing(w)
  /\ daemon' = [daemon EXCEPT ![w].at = "idle"]
  /\ UNCHANGED <<disk, executions, crashes>>

\* once() with an active claim and no pending envelope starts the adapter thread,
\* also when the claim comes from the state file of an earlier process.
Execute(w) ==
  /\ daemon[w].at = "once"
  /\ daemon[w].state.claim # None /\ daemon[w].state.envelope = None
  /\ daemon' = [daemon EXCEPT ![w].at = "executing"]
  /\ executions' = [executions EXCEPT ![daemon[w].state.claim] = @ + 1]
  /\ UNCHANGED <<vars, disk, crashes>>

\* The heartbeat loop: both requests are answered, and the lease is renewed or known
\* (409) to be lost.
Renew(w) ==
  /\ daemon[w].at = "executing"
  /\ LET r == daemon[w].state.claim
     IN  IF Live(r)
         THEN /\ runs' = [runs EXCEPT ![r].left = LeaseDuration]
              /\ UNCHANGED daemon
         ELSE /\ daemon' = [daemon EXCEPT ![w].at = "lease lost"]
              /\ UNCHANGED runs
  /\ workers' = [workers EXCEPT ![w].age = 0]
  /\ UNCHANGED <<jobs, decisions, disk, executions, crashes>>

\* heartbeat_worker arrives, heartbeat_run does not: the loop goes on.
RenewLost(w) ==
  /\ daemon[w].at = "executing"
  /\ HeartbeatWorker(w)
  /\ UNCHANGED dvars

\* Mutant: the envelope is sent before it is saved.
AdapterReturnsUnsaved(w, result) ==
  /\ daemon[w].at = "executing"
  /\ LET s == daemon[w].state
         j == runs[s.claim].job
         reported == WorkerResult(j, s.approved, result)
     IN  daemon' = [daemon EXCEPT ![w] =
           [at |-> "once",
            state |-> [s EXCEPT !.envelope =
                         [status |-> reported.status, gate |-> reported.gate,
                          engine |-> WorkerEngine(Task[j]), legacy |-> FALSE,
                          artifacts_ok |-> reported.artifacts_ok]]]]
  /\ UNCHANGED <<vars, disk, executions, crashes>>

\* The adapter thread ends; the envelope is saved before it is sent.
AdapterReturns(w, result) ==
  /\ daemon[w].at = "executing"
  /\ LET s == daemon[w].state
         j == runs[s.claim].job
         reported == WorkerResult(j, s.approved, result)
     IN  Save(w, "once", [s EXCEPT !.envelope =
                            [status |-> reported.status, gate |-> reported.gate,
                             engine |-> WorkerEngine(Task[j]), legacy |-> FALSE,
                             artifacts_ok |-> reported.artifacts_ok]])
  /\ UNCHANGED <<vars, executions, crashes>>

\* thread.join() after the 409: the result is thrown away.
DiscardAfterLeaseLost(w) ==
  /\ daemon[w].at = "lease lost"
  /\ Save(w, "idle", NoState)
  /\ UNCHANGED <<vars, executions, crashes>>

\* ingest of the pending envelope: what the handler does to the tables.
Ingested(e) ==
  IF IngestVerdict(e) = "accepted" THEN IngestResult(e) ELSE UNCHANGED vars

CanSend(w) == daemon[w].at = "once" /\ daemon[w].state.envelope # None

\* Mutant: a 409 is retried like any transport error.
SendAnsweredRetriesStale(w) ==
  /\ CanSend(w)
  /\ LET e == EnvelopeOf(daemon[w].state)
     IN  /\ Ingested(e)
         /\ Save(w, "idle", IF IngestVerdict(e) \in {"refused", "stale"}
                            THEN daemon[w].state ELSE NoState)
  /\ UNCHANGED <<executions, crashes>>

\* 200 or 409 reaches the daemon: it forgets the claim.  A 400 is retried for ever.
SendAnswered(w) ==
  /\ CanSend(w)
  /\ LET e == EnvelopeOf(daemon[w].state)
     IN  /\ Ingested(e)
         /\ Save(w, "idle", IF IngestVerdict(e) = "refused" THEN daemon[w].state ELSE NoState)
  /\ UNCHANGED <<executions, crashes>>

\* The handler ran but its reply is lost: the daemon keeps the envelope.
SendReplyLost(w) ==
  /\ CanSend(w)
  /\ Ingested(EnvelopeOf(daemon[w].state))
  /\ daemon' = [daemon EXCEPT ![w].at = "idle"]
  /\ UNCHANGED <<disk, executions, crashes>>

\* The process is killed, or an adapter that returns nothing ends it.
Crash(w) ==
  /\ daemon[w].at # "down" /\ crashes < MaxCrash
  /\ daemon' = [daemon EXCEPT ![w] = [at |-> "down", state |-> NoState]]
  /\ crashes' = crashes + 1
  /\ UNCHANGED <<vars, disk, executions>>

\* The operator's side and the clock: the CLI, the gate API, time.
Operator ==
  /\ \/ \E j \in Job, t \in 0 .. Cardinality(Job) : Enqueue(j, t)
     \/ \E j \in Job, g \in Gate, decision \in {"APPROVED", "REJECTED"}, source \in RunId :
          ResolveGate(j, g, decision, source)
  /\ UNCHANGED dvars

Sweep == ReconcileExpiredLeases /\ UNCHANGED dvars

Clock == Tick /\ UNCHANGED dvars

WorkerStep(w) ==
  \/ Start(w) \/ Poll(w) \/ RequestLost(w)
  \/ \E j \in Job, r \in RunId : ClaimReceived(w, j, r) \/ ClaimReplyLost(w, j, r)
  \/ NoWork(w)
  \/ Execute(w) \/ Renew(w) \/ RenewLost(w)
  \/ \E result \in AdapterResult : AdapterReturns(w, result)
  \/ DiscardAfterLeaseLost(w)
  \/ SendAnswered(w) \/ SendReplyLost(w)
  \/ Crash(w)

HNext == Operator \/ Sweep \/ Clock \/ \E w \in Worker : WorkerStep(w)

HSpec == HInit /\ [][HNext]_hvars

(***************************************************************************)
(* Fairness: time passes, somebody runs reconcile-leases again and again,  *)
(* and an adapter that was started returns (its runner has a timeout).     *)
(* Nothing is assumed of the network or of the daemons staying up.         *)
(***************************************************************************)
HFairSpec ==
  /\ HSpec
  /\ WF_hvars(Clock) /\ WF_hvars(Sweep)
  /\ \A w \in Worker : WF_hvars(\E result \in AdapterResult : AdapterReturns(w, result))

(***************************************************************************)
(* For delivery: a killed daemon is started again (systemd), it keeps      *)
(* calling once(), and a request that is repeated for ever is answered at  *)
(* last.                                                                   *)
(***************************************************************************)
HDeliverySpec ==
  /\ HFairSpec
  /\ \A w \in Worker : /\ WF_hvars(Start(w)) /\ WF_hvars(Poll(w)) /\ WF_hvars(Execute(w))
                       /\ WF_hvars(DiscardAfterLeaseLost(w)) /\ SF_hvars(SendAnswered(w))

-----------------------------------------------------------------------------
\* The shape of a daemon's memory and of its state file.
StateRow == [claim: RunId \cup {None}, approved: SUBSET Gate, envelope: ResultPayload \cup {None}]

DaemonRow == [at: {"down", "idle", "once", "executing", "lease lost"}, state: StateRow]

\* Memory and state file agree on the claim and refer to a run of that worker.
SystemTypeOK ==
  /\ TypeOK
  /\ \A w \in Worker :
       /\ daemon[w].at \in {"down", "idle", "once", "executing", "lease lost"}
       /\ daemon[w].at # "down" => daemon[w].state = disk[w]
       /\ disk[w].claim # None => runs[disk[w].claim].worker = w
       /\ disk[w].envelope # None => disk[w].claim # None

\* The worker's own checks make the controller's refusals unreachable: an envelope it
\* retries for ever on HTTP 400 never exists, and the controller never has to rewrite
\* a repeated gate request, since the approved gates of the claim are still current.
NoPoisonEnvelope ==
  /\ \A w \in Worker : disk[w].envelope # None => IngestVerdict(EnvelopeOf(disk[w])) # "refused"
  /\ \A r \in RunId : runs[r].result # None => ~runs[r].result.policy

\* The stored outcome of a run is the one its worker saved: retries, lost replies and
\* restarts never store another result than the envelope still on disk.
StoredIsWhatWasSent ==
  \A w \in Worker :
    LET r == disk[w].claim
    IN  r # None /\ runs[r].state \in RESULT_STATUSES =>
          disk[w].envelope # None /\ runs[r].result.body = disk[w].envelope

\* What a daemon owes the controller survives kills and lost replies: memory and file
\* agree, no saved envelope is one the controller refuses for ever, and what is stored
\* is what was sent.
EnvelopesSound == SystemTypeOK /\ NoPoisonEnvelope /\ StoredIsWhatWasSent

\* An adapter is started twice for one run only by a daemon that was killed in
\* between; a manual_reconcile task is started again in no other way.
RestartedOnlyAfterCrash ==
  /\ \A r \in RunId : executions[r] <= 1 + crashes
  /\ \A j \in Job : ~Idempotent(j) => \A r, q \in RunsOf(j) : executions[r] > 0 /\ executions[q] > 0 => r = q

\* Two daemons may execute the same job at once, but at most one of them can still
\* get its result accepted: the other run is not RUNNING any more.
OneExecutionCounts ==
  \A v, w \in Worker :
    /\ v # w /\ daemon[v].at = "executing" /\ daemon[w].at = "executing"
    /\ runs[daemon[v].state.claim].job = runs[daemon[w].state.claim].job
    => ~(runs[daemon[v].state.claim].state = "RUNNING" /\ runs[daemon[w].state.claim].state = "RUNNING")

\* A task is executed again only after a kill or a lost lease, and never so that two
\* results count.
ExecutionsSound == RestartedOnlyAfterCrash /\ OneExecutionCounts

-----------------------------------------------------------------------------
(***************************************************************************)
(* What makes the two invariants inductive.                                *)
(***************************************************************************)
\* What a saved state s of worker w owes to the tables: the claim names a run of w, the
\* approved gates are current while it is RUNNING, it has no outcome before there is an
\* envelope and no other outcome afterwards, and ingest_result would take the envelope.
SavedSound(w, s) ==
  /\ s.claim # None =>
       /\ runs[s.claim].state # "UNUSED" /\ runs[s.claim].worker = w
       /\ runs[s.claim].state = "RUNNING" => s.approved = ApprovedGates(runs[s.claim].job)
       /\ runs[s.claim].state \in RESULT_STATUSES =>
            s.envelope # None /\ runs[s.claim].result = [body |-> s.envelope, policy |-> FALSE]
  /\ s.envelope # None =>
       /\ s.claim # None /\ s.envelope \in ReportedPayload
       /\ EngineMatches(runs[s.claim].job, s.envelope) /\ GateAllowed(runs[s.claim].job, s.envelope)
       /\ s.envelope.status = "WAIT_USER" => s.envelope.gate \notin s.approved

\* The adapter thread of worker w runs, or its result will be thrown away.
AtWork(w) == daemon[w].at \in {"executing", "lease lost"}

\* The daemon works from what is on disk, and executes a claim without an envelope.
MemorySound(w) ==
  /\ daemon[w].at # "down" => daemon[w].state = disk[w]
  /\ AtWork(w) => disk[w].claim # None /\ disk[w].envelope = None

\* Every start of an adapter but the first was preceded by a kill of its own.
StartsCounted ==
  /\ \A r \in RunId : executions[r] <= 1 + crashes
  /\ \A r \in RunId : executions[r] > 0 => runs[r].state # "UNUSED"
  /\ \A w \in Worker : disk[w].claim # None /\ disk[w].envelope = None /\ ~AtWork(w) =>
       executions[disk[w].claim] <= crashes

NoPolicyRewrite == \A r \in RunId : runs[r].result # None => ~runs[r].result.policy

SystemInv ==
  /\ IInv
  /\ daemon \in [Worker -> DaemonRow] /\ disk \in [Worker -> StateRow]
  /\ executions \in [RunId -> Nat] /\ crashes \in Nat
  /\ \A w \in Worker : SavedSound(w, disk[w]) /\ MemorySound(w)
  /\ StartsCounted
  /\ NoPolicyRewrite

-----------------------------------------------------------------------------
\* No job stays RUNNING for ever, whatever replies are lost and daemons are killed:
\* it gets a result or its lease runs out and reconcile_expired_leases takes it back.
RunningJobsMoveOn ==
  \A j \in Job : jobs[j].state = "RUNNING" ~> jobs[j].state # "RUNNING"

\* A saved envelope is delivered or discarded: the daemon is free for new work again.
EnvelopesAreSettled ==
  \A w \in Worker : disk[w].envelope # None ~> disk[w].envelope = None

=============================================================================
