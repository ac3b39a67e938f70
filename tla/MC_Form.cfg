SPECIFICATION Spec
CONSTANTS
    Width = 5
    BlockLen = 3
    MaxRows = 2
    NoNet = NoNet
    Blank = Blank
    Garbage = Garbage
    ClassA <- MCClassA
    ApipaNet <- MCApipaNet
    ClassC <- MCClassC
    ClassB <- MCClassB
    FactoryDefaults <- MCFactory
    Ifaces <- MCIfaces
    CliRows <- MCCliRows
    Typed <- MCTyped
    Heard <- MCHeard
INVARIANTS
    FocusValid
    IgnoredRowsSilent
    SingleIsAlone
