SPECIFICATION Spec
CONSTANTS
    r1 = r1
    r2 = r2
    a = a
    b = b
    Pollers = {p, q}
    Refreshers = {}
    Pairs = {a}
    Rules = {r1}
    PairOf <- MCPairOf
    Cooldown <- MCCooldown
    Prices = {x}
    MinuteLength = 2
    MaxTime = 3
    CallerLocksPair = FALSE
    RefreshOverlaps = TRUE
    Faults = {"rollback", "crash"}
INVARIANTS
    TypeOK
    UniqueDetectedState
    OutboxMatchesNotifications
    LastFiredIsRecorded
PROPERTIES
    MatchedIsRecorded
    LedgerSpec
