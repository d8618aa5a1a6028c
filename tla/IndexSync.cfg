SPECIFICATION FairSpec
CONSTANTS
    Rules = {r1}
    Columns = {"percent"}
    Values = {"5"}
    Required <- MCRequired
    Requests = {q1, q2}
    Workers = {p}
    RefreshEvery = 2
    MaxRebuild = 0
    MaxEval = 1
    MaxBuffered = 1
    MaxFailures = 1
    StaleCap = 6
    Faults = {"publish", "drop", "crash"}
INVARIANTS
    TypeOK
    Freshness
PROPERTIES
    NothingTakenBack
    EditsStand
