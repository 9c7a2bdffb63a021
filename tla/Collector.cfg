\* Three calls of the script and two failures of process, host or script.
SPECIFICATION FairSpec
CONSTANTS
    Regions = {"us-west-2", "us-east-1", "cn-northwest-1", "cn-north-1", "us-gov-east-1", "us-gov-west-1", "us-iso-east-1"}
    NoRegion = ""
    PartitionOf <- MCPartitionOf
    PrimaryRegion <- MCPrimaryRegion
    Files <- SomeFiles
    Machines <- SomeMachines
    Torn = Torn
    NoFile = NoFile
    MaxFaults = 2
    MaxCalls = 3
INVARIANTS
    TypeOK
    RunsCurrentConfig
    StopHolds
    RoleIsUsed
PROPERTIES
    ComesUp
CHECK_DEADLOCK FALSE
