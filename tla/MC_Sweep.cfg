SPECIFICATION Spec
CONSTANTS
    Width = 6
    BlockLen = 3
    ClassA <- MCClassA
    ApipaNet <- MCApipaNet
    ClassC <- MCClassC
    ClassB <- MCClassB
    FactoryDefaults <- MCFactory
    Requests <- MCRequests
    PassCounts <- MCPassCounts
INVARIANTS
    NoOverProbing
    ProgressHonest
    Coverage
PROPERTIES
    ImplementsDriver
