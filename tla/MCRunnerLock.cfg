SPECIFICATION RunnerSpec
CONSTANTS
    BTasks <- MCBTasks
    ProposalReplies <- MCProposals
    EvaluationReplies <- MCEvaluations
    Verdicts = {"PASS", "MAYBE"}
    LongIdeas <- MCLongIdeas
    HashKey <- MCHash
    StageCap = 1
    MaxAttempts = 2
    MaxFaults = 2
    Runners = {r1, r2, r3}
    ATasks <- MCATasks
    AdapterKind <- MCAdapterKind
    MaxReviewRounds = 1
    MaxExecutions = 2
    Manifests <- MCManifests
    ProjectRequests <- MCRequests
    HandTasks <- MCHandTasks
    WorkerConfigs <- MCWorkerConfigs
    AdapterAnswers <- MCAnswers
    GithubRepos = {"gh1", "gh2"}
    MaxJobs = 1
    GTasks <- MCGTasks
    MaxPulls = 3
    MaxHandlerRuns = 3
    Operators = {o1, o2}
    GateJobs = {"j1", "j2"}
    DeclaredGates <- MCDeclaredGates
    JobPrefixes <- MCPrefixes
    MaxGateRuns = 2
CHECK_DEADLOCK FALSE
INVARIANT OrphanLockOnly
