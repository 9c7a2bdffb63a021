\* Time and liveness: a prompt pusher, four plain events.
SPECIFICATION FairSpec
CONSTANTS
    PerEventHeaderBytes = 1
    MaxEventPayloadBytes = 6
    MaxRequestEventCount = 3
    MaxRequestPayloadBytes = 9
    Day = 24
    MaxAge = 20
    MaxAhead = 1
    ForceFlushInterval = 2
    LogEventChanSize = 2
    PushChanSize = 1
    StartTime = 21
    MaxNow = 30
    MaxEvents = 4
    LastArrival = 25
    EventKinds <- PlainKinds
INVARIANTS
    FlushedWithinTwoIntervals
PROPERTIES
    AcceptedIsHanded
    ShutdownEndsOrWedges
CHECK_DEADLOCK FALSE
