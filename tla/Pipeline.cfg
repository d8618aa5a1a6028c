SPECIFICATION PipelineSpec
CONSTANTS
    r1 = r1
    r2 = r2
    a = a
    b = b
    Pollers = {p}
    Refreshers = {"listener"}
    Pairs = {a, b}
    Rules = {r1, r2}
    PairOf <- MCPairOf
    Cooldown <- MCCooldown
    Prices = {x}
    MinuteLength = 2
    MaxTime = 2
    CallerLocksPair = TRUE
    RefreshOverlaps = FALSE
    Faults = {"crash"}
    Events <- MCEvents
    Broken = {}
    Stamps = {1}
    BatchSize = 2
    TickInterval = 0
    BackoffBase = 1
    BackoffMax = 1
    AttemptCap = 1
    MaxSpent = 0
    PublisherFaults = {"crash"}
    MaxFaults = 1
INVARIANTS
    PipelineTypeOK
    OneAlertPerState
    OnlyRecordedIsSent
    SentAlertsApart
    CooldownRespected
    LastFiredIsLatest
PROPERTIES
    WholeSpec
