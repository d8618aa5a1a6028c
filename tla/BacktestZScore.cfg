SPECIFICATION Spec
CONSTANTS
    Grain = 10
    Window = 2
    MinObservations = 1
    FlatPercent = 50
    Definitions <- MCZScores
    Quotes <- MCExactQuotes
    Gaps = {1, 2}
    MinuteLength = 2
    MaxRows = 4
    MaxRules = 1
    MaxReplays = 1
INVARIANTS
    ReplayIsAlwaysLive
