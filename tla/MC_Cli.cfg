SPECIFICATION CliSpec
CONSTANTS
    MaxScans = 2
    QueueCap = 1
    MaxFrames = 3
    MaxBlocks = 1
    Configs <- MCConfigs
    two = two
    own = own
    lease = lease
    seen = seen
    Frames <- MCFrames
    Events <- MCEvents
    Parse <- MCParse
INVARIANTS
    WarningCoversReport
    ExitLeavesNothing
PROPERTIES
    StreamSpec
    CliTerminates
CHECK_DEADLOCK FALSE
