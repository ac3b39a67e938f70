SPECIFICATION Spec
CONSTANTS
    MaxScans = 1
    QueueCap = 1
    MaxFrames = 1
    MaxBlocks = 2
    Configs <- AllConfigs
    two = two
    own = own
    lease = lease
    seen = seen
    Frames <- MCFrames
    Events <- MCEvents
    Parse <- MCParse
INVARIANTS
    AtMostOneLateUnit
PROPERTIES
    DropReturns
    DriverEnds
