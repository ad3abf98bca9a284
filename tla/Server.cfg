SPECIFICATION ServerSpec
CONSTANTS
    Calls = {"a", "b", "c"}
    Sessions = {1, 2}
    Life = 3
    RefreshMargin = 1
    UsableMargin = 0
    RequestTime = 1
    MaxTime = 3
    MaxGeneration = 3
    Users = {"u"}
    Repos = {"p"}
    Asks = {1, 2, 3}
    Plans <- PlansOfThree
    SavedSettings = {"strict"}
    Ttl = 2
    Limit = 1
    Patience = 0
    Until = 2
    Changes = 1
    Guests = {"g", "h"}
    Components = {"api", "worker"}
    AlertRules <- SomeRules
    StatusTtl = 2
    QueryTime = 1
    LastMoment = 5
    ModelCalls = {"m", "n"}
    Providers <- LocalThenHosted
    SchemaAttempts = 2
    Keys = 2
    Scripts <- ShortScripts
    HunkContexts = {0, 1}
    Radii = {1, 5}
    ChangedPlaces = {1, 2}
    OtherPlaces = {}
    Categories = {"security", "style"}
    Applicable <- RuleAtOne
    References = {"none", "check"}
    NoCheck = "none"
    MaxFindings = 3
    Requests <- PullRequests
    PacketLimit = 30
    ReserveMax = 2
    PrMax = 5
    RulesMax = 6
    SourceLimit = 2
    OmissionCost = 1
    ShortestCut = 2
    Readers = {1, 2}
    Errands <- TwoErrands
    Commits = {1, 2}
    Trees <- TwoTrees
    OldRuns = {1, 2}
    Sizes <- TwoSizes
    KeepFor = 1
    Room = 1
    LastDay = 1
    Turns = 1
    Names = {"plain", "quoted", "spaced", "lock"}
    Quoted = {"quoted"}
    Ambiguous = {"spaced"}
    Noise = {"lock"}
    Bodies <- TwoBodies
    Diffs <- SomeDiffs
    MaxFileBytes = 12
    Accepts <- SegmentPatterns
    Branches <- ShortBranches
    Filters <- SomeFilters
INVARIANTS
    ServerTypeOK
    RefreshTokenServesOnce
    OnlyDeadSessionIsClosed
    LogoutLeavesNoToken
    ListIsRecent
    FilterIsFullMatch
    SourceIsSpared
    EveryAttemptIsAccounted
    ViewIsGitDiff
    SavedFindingsStand
    PacketIsSound
    ReadAsWritten
PROPERTIES
    AnswerWasTrue
    SwitchedOffStaysOff
    ReplyWasRight
CHECK_DEADLOCK FALSE
