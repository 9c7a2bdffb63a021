\* NewPusher's instance: one permit; a queue of 2 instead of 20; publishFn may
\* hang for ever.
SPECIFICATION FairSpec
CONSTANTS
    Concurrency = 1
    MaxSize = 2
    MaxRequests = 5
INVARIANTS
    TypeOK
    PermitsAccountedFor
    PublishedInOrder
    EveryRequestAccountedFor
    NewestNeverDropped
PROPERTIES
    QuietAfterClose
    ImplementsLossyFifo
    CloseReturns
    RequestsServed
CHECK_DEADLOCK FALSE
