SPECIFICATION SafetySpec
CONSTANTS
    MaxScans = 2
    QueueCap = 1
    MaxFrames = 2
    MaxBlocks = 1
    Configs <- FewConfigs
    two = two
    own = own
    lease = lease
    seen = seen
    Frames <- MCFrames
    Events <- MCEvents
    Parse <- MCParse
INVARIANTS
    TypeOK
    NoZombie
    StreamConserved
    DropsAccounted
PROPERTIES
    StopSticky
