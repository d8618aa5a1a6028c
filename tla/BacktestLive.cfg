SPECIFICATION Spec
CONSTANTS
    Grain = 10
    Window = 1
    MinObservations = 1
    FlatPercent = 50
    Definitions <- MCDefinitions
    Quotes <- MCQuotes
    Gaps = {2}
    MinuteLength = 4
    MaxRows = 4
    MaxRules = 2
    MaxReplays = 1
INVARIANTS
    TypeOK
    ReplayIsLive
    WindowSuffices
