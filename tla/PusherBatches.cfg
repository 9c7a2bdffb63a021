\* Lines, truncation, timestamps, batches and their limits: three events of
\* twelve kinds.  The code's limits are 26 bytes, 256 KB, 10000 events, 1 MB,
\* 24 hours, 14 days and 2 hours; its channels hold 10000 events and 2 batches.
SPECIFICATION Spec
CONSTANTS
    PerEventHeaderBytes = 1
    MaxEventPayloadBytes = 6
    MaxRequestEventCount = 2
    MaxRequestPayloadBytes = 8
    Day = 2
    MaxAge = 4
    MaxAhead = 1
    ForceFlushInterval = 1
    LogEventChanSize = 1
    PushChanSize = 1
    StartTime = 7
    MaxNow = 9
    MaxEvents = 3
    LastArrival = 8
    EventKinds <- MixedKinds
INVARIANTS
    TypeOK
    TruncatedLineEnds
    TimestampsFilledIn
    RequestsWithinLimits
    ByteTotalIsSum
    AcceptedInOrder
PROPERTIES
    ImplementsPusherPort
CHECK_DEADLOCK FALSE
