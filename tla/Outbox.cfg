SPECIFICATION FairPublisherSpec
CONSTANTS
    Events = {e, f, g}
    Broken = {e, f}
    Stamps = {1, 2}
    BatchSize = 2
    TickInterval = 1
    BackoffBase = 1
    BackoffMax = 4
    AttemptCap = 3
    MaxSpent = 1
    PublisherFaults = {"refuse", "lose_ack", "fail", "crash"}
    MaxFaults = 2
INVARIANTS
    PublisherTypeOK
    SentWasAccepted
    DuplicatesNeedFault
PROPERTIES
    NoPublishAfterRecorded
    EventuallySent
