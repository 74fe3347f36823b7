SPECIFICATION XSpec
CONSTANTS
    Requests = {q1, q2, q3}
    RateLimit = 2
    RateWindow = 3
    MaxConcurrency = 2
    MaxRetries = 1
    BaseDelay = 1
    MaxDelay = 2
    MapDelay = 3
    MaxTime = 4
    MaxInput = 8
    MaxChunk = 2
    Calls = {0, 1}
    CallPlans <- MCCallPlans
    MaxPieces = 1
    Upstream = {0, 1, 2}
    BlockKinds <- MCBlockKinds
    MaxDeltas = 3
    AssistantKinds <- MCAssistantKinds
    MaxMessages = 3
    Roots = {1}
    TreeNodes = {1, 2}
    MessageIds = {11, 12}
    LogCap = 1
    MaxStoreOps = 3
    MaxStoreFaults = 1
    Callers = {1, 2, 3, 4}
    KeyOf <- MCKeyOf
    Forgetful = {1, 2}
    MaxTries = 3
    CliTasks = {1, 2, 3}
    ParentOf <- MCParentOf
    MaxStopAlls = 1
    Indices = {0, 1}
    Layouts <- MCLayouts
SYMMETRY Symmetry
CHECK_DEADLOCK FALSE
INVARIANTS
    WindowKept
    SlotsAccounted
    ChunkingInvisible
    StreamContract
    ArgumentsDelivered
    NativeContract
    UnsavedIsRemembered
    NoFutureLost
    SentMeansShown
    ReleasedWhenIdle
    ProcessSupervised
    ConversationReplayed
    TranscriptFaithful
    ScreenRight
