SPECIFICATION FairSpec
CONSTANTS
    Names = {a, b}
    Volatile = {a}
    Callers = {c, d}
    MinInterval = 1
    Notionals = {1, 2, 3}
    Activate = 3
    Deactivate = 2
    MaxFaults = 1
INVARIANTS
    TypeOK
    AnswersHold
    ActiveFitsVolume
PROPERTIES
    Converges
    FollowsMarket
    EveryPostAnswered
