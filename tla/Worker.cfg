SPECIFICATION WorkerSpec
CONSTANTS
    Callers = {"a", "b"}
    KindOf <- CreateAndRead
    MaxAttempts = 3
    Budget = 2
    DefaultWait = 2
    Waits = {0}
    NoWait = NoWait
    MaxTokens = 2
    Reviews = {1, 2, 3}
    Places = {1}
    Overlap = 2
    Found = {1, 2}
    Critical = 2
    NoLine = NoLine
    TroubleKinds <- AllTroubles
    Troubles = 1
    Pushes = {1, 2}
    Ignored = {}
    Passers = {"p", "q"}
    MaxRedeliveries = 2
    Backoff = 1
    PassLimit = 1
    Window = 3
    Slots = {1, 2}
    Faults = 3
    Horizon = 4
    Retries = 1
    TokenLimit = 1
    Refusals = 1
    NoTokens = NoTokens
    Publishers = {"x", "y"}
    LockTimeout = 3
    BlockedTimeout = 3
    HookLimit = 10
    Upsets = 2
    FeedRuns = {1, 2}
    Recheck = 2
    BatchLimit = 1
    Skew = 1
    LastInstant = 4
    Connections = 2
    WriteLimit <- WritesOfTwo
    Losses = 1
INVARIANTS
    WorkerTypeOK
    PatienceIsBounded
    CompletedKnowsAll
    AttemptsAreBounded
    PushIsMadeUp
    StepTellsTheTruth
    NoStepIsLeft
    EnqueueFailsForCause
    QuietClientIsCurrent
PROPERTIES
    KeepsRequestPromise
    OrphanIsNotRepeated
    ReviewedOnce
CHECK_DEADLOCK FALSE
