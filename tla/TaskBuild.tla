---------------------------- MODULE TaskBuild ----------------------------
(***************************************************************************)
(* From a project manifest to an accepted result: the project registry,    *)
(* build_project_task, the engine policy, the checks of enqueue            *)
(* (controller.py, engine_policy.py), the engines a worker's configuration *)
(* gives it and what it makes of a claimed task and of the adapter's       *)
(* result (worker.py).  Leases, retries and crashes are HermesController's *)
(* and HermesSystem's subject; here a job is executed in one step.         *)
(*                                                                         *)
(* An optional value is {} or {value}.  The shape of a document (types,    *)
(* required keys, name patterns, integer ranges) is the field `shape`.     *)
(***************************************************************************)
EXTENDS BrainstormCore

CONSTANTS Manifests,        \* documents an operator may register
          ProjectRequests,  \* arguments of build_project_task
          HandTasks,        \* tasks enqueued without build_project_task
          WorkerConfigs,    \* worker configuration files
          AdapterAnswers,   \* [status, gate, artifacts]: what an adapter may return
          GithubRepos,      \* what parse_github_repository accepts
          MaxJobs

\* An adapter answers with a status of the result contract, and a request
\* names at most one engine.
ASSUME BuildAssumption ==
    /\ \A a \in AdapterAnswers : /\ DOMAIN a = {"status", "gate", "artifacts"}
                                 /\ a.status \in {"DONE", "WAIT_USER", "BLOCKED", "FAILED"}
    /\ \A q \in ProjectRequests : q.engine = {} \/ \E e \in q.engine : q.engine = {e}

VARIABLES pProjects, pBuilt, pJobs, pWorker

pVars == <<pProjects, pBuilt, pJobs, pWorker>>

EngineCapabilities ==
    [codex |-> {"codex"}, claude |-> {"claude"}, hybrid |-> {"codex", "claude"}, native |-> {},
     brainstorm |-> {"codex", "claude"}]
KnownEngines == DOMAIN EngineCapabilities
ExplicitOnlyEngines == {"brainstorm"}
KnownIntegrations == {"github_api"}

The(option) == CHOOSE v \in option : TRUE

-----------------------------------------------------------------------------
(* Projects.                                                               *)

\* _validate_project
ValidProject(m) ==
    /\ m.shape = "ok"
    /\ m.runtime = "outside"
    /\ m.engines # {} /\ m.engines \subseteq KnownEngines
    /\ m.default \notin ExplicitOnlyEngines
    /\ IF m.default = "auto" THEN m.engines \ ExplicitOnlyEngines # {} ELSE m.default \in m.engines
    /\ m.capabilities \cap KnownIntegrations = {}
    /\ m.integrations \subseteq KnownIntegrations

\* project: {} when it raises.
ProjectOf(id) == IF id \in DOMAIN pProjects THEN pProjects[id] ELSE {}

RegisterProject(m) ==
    /\ ValidProject(m)
    /\ pProjects' = [pProjects EXCEPT ![m.id] = {m}]
    /\ UNCHANGED <<pBuilt, pJobs, pWorker>>

RemoveProject(p) ==
    /\ pProjects[p] # {}
    /\ pProjects' = [pProjects EXCEPT ![p] = {}]
    /\ UNCHANGED <<pBuilt, pJobs, pWorker>>

-----------------------------------------------------------------------------
(* The engine policy: the phrases an instruction holds, by family.         *)

FirstOf(order, allowed) ==
    order[CHOOSE i \in DOMAIN order : order[i] \in allowed /\ \A j \in 1..(i - 1) : order[j] \notin allowed]

Preference(phrases) ==
    IF "hybrid" \in phrases THEN <<"hybrid", "claude", "codex", "native">>
    ELSE IF "claude" \in phrases THEN <<"claude", "codex", "hybrid", "native">>
    ELSE <<"codex", "claude", "hybrid", "native">>

MutantSelectEngine(phrases, allowed) == FirstOf(Preference(phrases), KnownEngines)

SelectEngine(phrases, allowed) == FirstOf(Preference(phrases), allowed \ ExplicitOnlyEngines)

-----------------------------------------------------------------------------
(* Building and enqueueing a task.                                         *)

\* _validate_brainstorm_task
ValidBrainstormTask(t) ==
    IF t.engine = {"brainstorm"}
    THEN /\ t.type = "brainstorm" /\ t.profile = "brainstorm"
         /\ t.brainstorm # {} /\ ValidConfig(The(t.brainstorm))
    ELSE t.type # "brainstorm" /\ t.brainstorm = {}

\* _validate_task
ValidTask(t) ==
    /\ t.shape = "ok"
    /\ t.policy \in {"safe_retry", "manual_reconcile"}
    /\ t.inline => t.commit = t.text
    /\ t.engine \subseteq KnownEngines
    /\ \A e \in t.engine : EngineCapabilities[e] \subseteq t.capabilities
    /\ t.integrations \subseteq KnownIntegrations
    /\ IF "github_api" \in t.integrations
       THEN /\ t.request = {"valid"} /\ t.repository \in GithubRepos
            /\ t.github \subseteq {t.repository}
       ELSE t.request = {}
    /\ ("github_api" \in t.capabilities) <=> ("github_api" \in t.integrations)
    /\ ValidBrainstormTask(t)

\* The fields a brainstorm overrides: it never crosses a gate of the project.
ForBrainstorm(t, config) ==
    [t EXCEPT !.type = "brainstorm", !.profile = "brainstorm", !.brainstorm = {config},
              !.gates = {}, !.policy = "safe_retry"]

\* build_project_task: {} when it raises.
BuildTask(q, m) ==
    LET asked == IF q.engine = {} THEN m.default ELSE The(q.engine)
        only == q.integrations = {"github_api"}
        chosen == IF only THEN {}
                  ELSE IF asked = "auto" THEN {SelectEngine(q.phrases, m.engines)} ELSE {asked}
        brainstorm == chosen = {"brainstorm"}
        config == BuildConfig(IF q.candidates = {} THEN DefaultCandidateCount ELSE The(q.candidates), <<>>)
        base == [shape |-> "ok", project |-> m.id, repository |-> m.repository,
                 github |-> IF only THEN {m.repository} ELSE {}, inline |-> TRUE, text |-> q.text,
                 commit |-> q.text, type |-> m.type, profile |-> "hermes", engine |-> chosen,
                 capabilities |-> m.capabilities \cup q.integrations
                                    \cup UNION {EngineCapabilities[e] : e \in chosen},
                 integrations |-> q.integrations,
                 request |-> IF q.integrations = {} THEN {} ELSE q.request,
                 gates |-> m.gates, policy |-> m.policy, output |-> "runtime", brainstorm |-> {},
                 key |-> q.key]
        task == IF brainstorm THEN ForBrainstorm(base, config) ELSE base
    IN  IF /\ q.text # ""
           /\ only \/ asked = "auto" \/ asked \in m.engines
           /\ ~brainstorm => q.candidates = {}
           /\ brainstorm => ValidConfig(config)
           /\ q.integrations \subseteq m.integrations
           /\ q.request # {} => q.integrations # {}
           /\ q.workspaces \subseteq m.workspaces
           /\ only => m.repository \in GithubRepos
           /\ ValidTask(task)
        THEN {task} ELSE {}

\* The task and, beside it, what it was made from.
Built(q, m) == {[task |-> t, request |-> q, manifest |-> m] : t \in BuildTask(q, m)}

BuildProjectTask(q) ==
    /\ ProjectOf(q.project) # {}
    /\ BuildTask(q, The(ProjectOf(q.project))) # {}
    /\ pBuilt' = Built(q, The(ProjectOf(q.project)))
    /\ UNCHANGED <<pProjects, pJobs, pWorker>>

\* enqueue checks an integration against the manifest of this moment: the
\* task may have been built from an older one, or by hand.
IntegrationAllowed(t) ==
    t.integrations = {"github_api"} =>
        \E m \in ProjectOf(t.project) :
            /\ "github_api" \in m.integrations
            /\ m.repository \in GithubRepos /\ t.repository = m.repository

\* A repeated idempotency key returns the first job and changes nothing.
\* under and from record the project of this moment and what the task was
\* built from, {} when it was written by hand.
Enqueue(t, from) ==
    /\ ValidTask(t) /\ IntegrationAllowed(t)
    /\ \A j \in DOMAIN pJobs : t.key = {} \/ pJobs[j].task.key # t.key
    /\ Len(pJobs) < MaxJobs
    /\ pJobs' = Append(pJobs, [task |-> t, under |-> ProjectOf(t.project), from |-> from, state |-> "QUEUED",
                               asked |-> {}, approved |-> {}, ran |-> "none", refused |-> FALSE])
    /\ UNCHANGED <<pProjects, pBuilt, pWorker>>

-----------------------------------------------------------------------------
(* The worker's engines: [adapters: name |-> [kind, refs], default].  The  *)
(* older configuration with one adapter for every task is left out.        *)

\* _adapter_from_config: the kinds an engine of its own may have.
BaseKinds == {"mock", "cxh-run", "codex-run", "claude-agent"}

BaseEngines(c) == {e \in DOMAIN c.adapters : c.adapters[e].kind \in BaseKinds}

\* _adapter_from_worker_config, _brainstorm_adapter and the constructor of
\* EngineRoutingAdapter: the daemon starts only with such a configuration.
ValidWorkerConfig(c) ==
    /\ DOMAIN c.adapters # {} /\ DOMAIN c.adapters \subseteq KnownEngines
    /\ c.default \notin ExplicitOnlyEngines /\ c.default \in DOMAIN c.adapters
    /\ \A e \in DOMAIN c.adapters :
          LET a == c.adapters[e]
          IN  /\ a.kind \in BaseKinds \cup {"hybrid", "brainstorm"}
              /\ (e = "brainstorm") <=> (a.kind = "brainstorm")
              /\ a.kind \in {"hybrid", "brainstorm"} => {a.refs[1], a.refs[2]} \subseteq BaseEngines(c)
              /\ a.kind = "brainstorm" => /\ c.adapters[a.refs[1]].kind = "claude-agent"
                                          /\ c.adapters[a.refs[2]].kind = "codex-run"

StartWorker(c) ==
    /\ ValidWorkerConfig(c)
    /\ pWorker' = {c}
    /\ UNCHANGED <<pProjects, pBuilt, pJobs>>

-----------------------------------------------------------------------------
(* One execution: prepare, run, normalise, send, ingest.                   *)

\* _task_engine: what the controller expects of the envelope.
TaskEngine(t) ==
    IF "github_api" \in t.integrations THEN "github_api"
    ELSE IF t.engine # {} THEN The(t.engine)
    ELSE IF "codex" \in t.capabilities THEN "codex" ELSE "native"

MutantEnvelopeEngine(t) ==
    IF t.engine # {} THEN The(t.engine)
    ELSE IF "github_api" \in t.integrations THEN "github_api"
    ELSE IF "codex" \in t.capabilities THEN "codex" ELSE "native"

\* once and _execution_engine_for_task: what the daemon writes into it.
EnvelopeEngine(t) ==
    IF "github_api" \in t.integrations THEN "github_api"
    ELSE IF t.engine \cap KnownEngines # {} THEN The(t.engine)
    ELSE IF "codex" \in t.capabilities THEN "codex" ELSE "native"

\* _materialize_inline_task: where the task file may be written.
InlineTask(t) == t.inline => t.output = "runtime" /\ t.commit = t.text

\* _materialize_gate_context: a gate-aware copy of the task file goes there too.
GateContext(t, approved) == approved # {} => approved \subseteq t.gates /\ t.output = "runtime"

\* _prepare_task
Prepared(t, approved) == InlineTask(t) /\ GateContext(t, approved)

\* EngineRoutingAdapter.execute
Routed(t) == IF t.engine # {} THEN The(t.engine)
             ELSE IF "codex" \in t.capabilities THEN "codex" ELSE "native"

Blocked == [status |-> "BLOCKED", gate |-> {}, artifacts |-> "ok"]

\* execute_claim: the handler, or the routed adapter on the prepared task.
Ran(t, approved) ==
    IF "github_api" \in t.integrations THEN "github_api"
    ELSE IF Prepared(t, approved) /\ Routed(t) \in DOMAIN The(pWorker).adapters THEN Routed(t)
    ELSE "none"

NormalizeGate(a, t, approved) ==
    IF a.status # "WAIT_USER" THEN [a EXCEPT !.gate = {}]
    ELSE IF a.gate # {} /\ a.gate \subseteq t.gates \ approved THEN a
    ELSE [a EXCEPT !.status = "BLOCKED", !.gate = {}]

NormalizeArtifacts(a) ==
    IF a.artifacts = "ok" THEN a ELSE [status |-> "FAILED", gate |-> {}, artifacts |-> "ok"]

\* ingest_result of an envelope of the running attempt: its new state.
Ingest(t, approved, engine, a) ==
    IF \/ engine # TaskEngine(t) \/ a.artifacts # "ok"
       \/ (a.status = "WAIT_USER") # (a.gate # {} /\ a.gate \subseteq t.gates)
    THEN "RUNNING"
    ELSE IF a.gate \subseteq approved /\ a.gate # {} THEN "BLOCKED" ELSE a.status

ExecuteJob(j, answer) ==
    LET t == pJobs[j].task
        approved == pJobs[j].approved
        ran == Ran(t, approved)
        raw == IF ran = "none" THEN Blocked ELSE answer
        a == NormalizeArtifacts(NormalizeGate(raw, t, approved))
        state == Ingest(t, approved, EnvelopeEngine(t), a)
    IN  /\ pWorker # {} /\ pJobs[j].state = "QUEUED"
        /\ pJobs' = [pJobs EXCEPT ![j].state = state, ![j].ran = ran, ![j].asked = a.gate,
                                  ![j].refused = (state = "RUNNING")]
        /\ UNCHANGED <<pProjects, pBuilt, pWorker>>

\* approve_gate; a rejection ends the job (HermesController).
ApproveGate(j, g) ==
    /\ pJobs[j].state = "WAIT_USER" /\ g \in pJobs[j].asked
    /\ pJobs' = [pJobs EXCEPT ![j].state = IF pJobs[j].task.policy = "safe_retry" THEN "QUEUED"
                                           ELSE "NEEDS_RECONCILIATION",
                              ![j].approved = @ \cup {g}]
    /\ UNCHANGED <<pProjects, pBuilt, pWorker>>

-----------------------------------------------------------------------------

PInit ==
    /\ pProjects = [p \in {m.id : m \in Manifests} |-> {}]
    /\ pBuilt = {} /\ pJobs = <<>> /\ pWorker = {}

PNext ==
    \/ \E m \in Manifests : RegisterProject(m)
    \/ \E p \in DOMAIN pProjects : RemoveProject(p)
    \/ \E q \in ProjectRequests : BuildProjectTask(q)
    \/ \E b \in pBuilt : Enqueue(b.task, {b})
    \/ \E t \in HandTasks : Enqueue(t, {})
    \/ \E c \in WorkerConfigs : StartWorker(c)
    \/ \E j \in DOMAIN pJobs : \/ \E a \in AdapterAnswers : ExecuteJob(j, a)
                               \/ \E g \in pJobs[j].asked : ApproveGate(j, g)

PSpec == PInit /\ [][PNext]_pVars

-----------------------------------------------------------------------------
(* Properties.                                                             *)

\* The controller, the daemon and the router each work out by themselves
\* which engine a task runs on (_task_engine, _execution_engine_for_task,
\* EngineRoutingAdapter).  They agree on every task enqueue lets in, whoever
\* built it: no result is refused, and the one accepted came from the engine
\* it is labelled with.
EnginesAgree ==
    \A j \in DOMAIN pJobs :
        /\ ~pJobs[j].refused
        /\ pJobs[j].ran # "none" => pJobs[j].ran = TaskEngine(pJobs[j].task)

\* A job runs and waits as the manifest it was built from allowed and its
\* request asked: on an engine of allowed_engines or by the integration asked
\* for, on the engine the request names if it names one, at the manifest's
\* human gates only; a brainstorm only for a request that names it, and never
\* at a gate.  A GitHub job, also one written by hand, works on the repository
\* that its project had, and was allowed, when it was enqueued.  Of what a
\* project changes after the task is built, enqueue looks at the integration
\* and the repository only: engines and gates stay those of the building
\* (build_project_task, select_engine, enqueue, ingest_result).
JobsFitManifest ==
    \A j \in DOMAIN pJobs :
        LET job == pJobs[j]
        IN  /\ job.ran = "github_api" =>
                 \E u \in job.under : "github_api" \in u.integrations /\ job.task.repository = u.repository
            /\ \A b \in job.from :
                 LET m == b.manifest
                     q == b.request
                 IN  /\ job.ran \in {"none"} \cup m.engines \cup q.integrations
                     /\ q.engine \notin {{}, {"auto"}} /\ q.integrations = {} => job.ran \in {"none", The(q.engine)}
                     /\ job.asked \cup job.approved \subseteq m.gates
                     /\ job.ran = "brainstorm" =>
                          /\ q.engine = {"brainstorm"}
                          /\ job.state \notin {"WAIT_USER", "NEEDS_RECONCILIATION"}

-----------------------------------------------------------------------------
(***************************************************************************)
(* What makes these inductive: projects are valid, a built task keeps to   *)
(* its manifest and request, a job's task passed the checks of enqueue.    *)
(***************************************************************************)
AnyBuilt == UNION {Built(q, m) : q \in ProjectRequests, m \in Manifests}
AnyTask == HandTasks \cup {b.task : b \in AnyBuilt}
AnyGate == UNION {a.gate : a \in AdapterAnswers}

JobRow ==
    [task: AnyTask, under: SUBSET Manifests, from: SUBSET AnyBuilt,
     state: {"QUEUED", "RUNNING", "DONE", "WAIT_USER", "BLOCKED", "FAILED", "NEEDS_RECONCILIATION"},
     asked: SUBSET AnyGate, approved: SUBSET AnyGate,
     ran: KnownEngines \cup {"github_api", "none"}, refused: BOOLEAN]

BuiltFits(b) ==
    LET t == b.task
        m == b.manifest
        q == b.request
    IN  /\ t.engine \subseteq m.engines /\ t.gates \subseteq m.gates
        /\ \A e \in t.engine : t.engine = {e}
        /\ t.integrations = q.integrations
        /\ t.engine = {} => "github_api" \in q.integrations
        /\ q.engine \notin {{}, {"auto"}} /\ q.integrations = {} => t.engine = {The(q.engine)}
        /\ t.engine = {"brainstorm"} => q.engine = {"brainstorm"} /\ t.gates = {}

ProjectsValid ==
    /\ pProjects \in [{m.id : m \in Manifests} -> SUBSET Manifests]
    /\ \A p \in DOMAIN pProjects : \A m \in pProjects[p] : ValidProject(m)
    /\ pBuilt \subseteq AnyBuilt /\ \A b \in pBuilt : BuiltFits(b)

IntegrationAtEnqueue(job) ==
    job.task.integrations # {} =>
        \E u \in job.under : "github_api" \in u.integrations /\ job.task.repository = u.repository

JobsAdmitted ==
    /\ pJobs \in Seq(JobRow)
    /\ \A j \in DOMAIN pJobs :
          LET job == pJobs[j]
          IN  /\ ValidTask(job.task) /\ IntegrationAtEnqueue(job)
              /\ \A b \in job.from : b.task = job.task /\ BuiltFits(b)
              /\ job.asked \cup job.approved \subseteq job.task.gates
              /\ job.state \in {"WAIT_USER", "NEEDS_RECONCILIATION"} => job.task.gates # {}

BuildInv == ProjectsValid /\ JobsAdmitted /\ EnginesAgree
=============================================================================
