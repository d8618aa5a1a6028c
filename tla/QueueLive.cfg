SPECIFICATION FairSpec
CONSTANTS
    Pairs = {a, b}
    Unlisted = {b}
    Ids = {m1, m2}
    Pollers = {p}
    Interval <- MCInterval
    Window = 2
    MaxDelay = 9
    TickInterval = 1
    Visibility = 1
    MaxReceives = 2
    BatchMax = 2
    MaxLag = 0
    Registry = {"track", "switch"}
    Faults = {"quotes", "raise", "crash"}
    MaxFaults = 1
PROPERTIES
    NoneWaiting
    PolledForever
    MessagesLeave
