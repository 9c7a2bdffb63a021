\* stop while the unit waits for its automatic restart.
SPECIFICATION Spec
CONSTANTS
    Regions = {"us-west-2", "us-east-1", "cn-northwest-1", "cn-north-1", "us-gov-east-1", "us-gov-west-1", "us-iso-east-1"}
    NoRegion = ""
    PartitionOf <- MCPartitionOf
    PrimaryRegion <- MCPrimaryRegion
    Files <- SomeFiles
    Machines <- SomeMachines
    Torn = Torn
    NoFile = NoFile
    MaxFaults = 1
    MaxCalls = 2
INVARIANTS
    StopStops
CHECK_DEADLOCK FALSE
