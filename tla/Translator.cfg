\* Two callers, five metrics, three points over five units of time.
SPECIFICATION Spec
CONSTANTS
    Callers = {c1, c2}
    Metrics <- SomeMetrics
    OTLib = "OTLib"
    SortedNames <- SomeNames
    MinTimeDiff = 1
    MaxNow = 4
    MaxValue = 1
    MaxPoints = 3
INVARIANTS
    TypeOK
    RatesAreSlopes
    NoIncreaseReportedTwice
    RollupsListed
CHECK_DEADLOCK FALSE
