SPECIFICATION CliSafetySpec
CONSTANTS
    MaxScans = 2
    QueueCap = 1
    MaxFrames = 1
    MaxBlocks = 1
    Configs <- MCConfigs
    two = two
    own = own
    lease = lease
    seen = seen
    Frames <- MCFrames
    Events <- MCEvents
    Parse <- MCParse
INVARIANTS
    WatchRepeats
CHECK_DEADLOCK FALSE
