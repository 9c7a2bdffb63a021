\* Two callers, three requests of up to two log events, a channel of one
\* instead of 10000.
SPECIFICATION FairSpec
CONSTANTS
    Callers = {c1, c2}
    Requests <- SomeRequests
    Names = {"", "a", "b", "configured"}
    Empty = ""
    NoName = NoName
    LogGroupNames = {NoName, "configured"}
    LogEventChanSize = 1
    MaxRequests = 3
INVARIANTS
    TypeOK
    OnePusherPerStream
    EventsInTheirGroup
    ShutdownWaits
PROPERTIES
    CallersServed
    ShutdownEnds
CHECK_DEADLOCK FALSE
