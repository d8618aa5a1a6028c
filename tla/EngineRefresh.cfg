SPECIFICATION Spec
CONSTANTS
    r1 = r1
    r2 = r2
    a = a
    b = b
    Pollers = {p}
    Refreshers = {"listener"}
    Pairs = {a}
    Rules = {r1}
    PairOf <- MCPairOf
    Cooldown <- MCCooldown
    Prices = {x}
    MinuteLength = 2
    MaxTime = 3
    CallerLocksPair = TRUE
    RefreshOverlaps = TRUE
    Faults = {}
INVARIANTS
    CooldownRespected
