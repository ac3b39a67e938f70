SPECIFICATION TuiSpec
CONSTANTS
    MaxScans = 2
    QueueCap = 1
    MaxFrames = 1
    MaxBlocks = 0
    Configs <- MCConfigs
    arp = arp
    seen = seen
    Frames <- MCFrames
    Events <- MCEvents
    Parse <- MCParse
    Forms <- MCForms
INVARIANTS
    NoZombie
    LaunchNeverWaits
    FormIsRunning
    TuiLeavesNothing
PROPERTIES
    TableGrows
    TuiResponds
CHECK_DEADLOCK FALSE
