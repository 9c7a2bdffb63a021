\* Every call may fail, or succeed unnoticed or late; the stream or its group
\* may be deleted once.  Five attempts are the fewest in which a batch comes to
\* be stored twice in a stream that was created anew.
SPECIFICATION FairSpec
CONSTANTS
    RetryCnt = 4
    DefaultRetryCount = 1
    MaxBatches = 3
    MaxFaults = 4
    MaxDeletes = 1
INVARIANTS
    TypeOK
    StoredInOrder
    SentWasStored
    AbandonedOnlyAfterFaults
    TokenIsCurrent
PROPERTIES
    EveryPushEnds
CHECK_DEADLOCK FALSE
