\* Two double metrics with the same dimensions.
SPECIFICATION Spec
CONSTANTS
    Callers = {c1}
    Metrics <- TwoOfDoubles
    OTLib = "OTLib"
    SortedNames <- SomeNames
    MinTimeDiff = 1
    MaxNow = 3
    MaxValue = 2
    MaxPoints = 2
INVARIANTS
    RatesStayInMetric
CHECK_DEADLOCK FALSE
