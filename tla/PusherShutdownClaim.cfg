\* Shutdown with the pushChan of the code (2 batches) and one event per batch.
SPECIFICATION FairSpec
CONSTANTS
    PerEventHeaderBytes = 1
    MaxEventPayloadBytes = 6
    MaxRequestEventCount = 1
    MaxRequestPayloadBytes = 8
    Day = 24
    MaxAge = 20
    MaxAhead = 1
    ForceFlushInterval = 2
    LogEventChanSize = 2
    PushChanSize = 2
    StartTime = 21
    MaxNow = 21
    MaxEvents = 4
    LastArrival = 21
    EventKinds <- PlainKinds
PROPERTIES
    ShutdownCompletes
CHECK_DEADLOCK FALSE
