SPECIFICATION FairSpec
CONSTANTS
    Node <- PairOfNodes
    Peer <- OtherNode
    FailoverTicks = 2
    MaxHookTicks = 1
    MaxEpoch = 4
    MaxLife = 2
    MaxLost = 1
    MaxHookFailures = 1
CHECK_DEADLOCK FALSE
INVARIANTS
    TypeOK
    NoMutualStepDown
    FailoverMeansSilence
PROPERTIES
    DemotionLeavesActive
    EventuallyOneActive
