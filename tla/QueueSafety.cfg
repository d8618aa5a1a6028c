SPECIFICATION Spec
CONSTANTS
    Pairs = {a}
    Unlisted = {}
    Ids = {m1, m2}
    Pollers = {p, q}
    Interval <- MCInterval
    Window = 2
    MaxDelay = 9
    TickInterval = 1
    Visibility = 1
    MaxReceives = 2
    BatchMax = 2
    MaxLag = 1
    Registry = {"track", "remove"}
    Faults = {"send", "quotes", "raise", "delete", "crash"}
    MaxFaults = 2
SYMMETRY MCSymmetry
INVARIANTS
    TypeOK
PROPERTIES
    NothingLost
    ClaimKept
