SPECIFICATION FairSpec
CONSTANTS
    Contact = {c1}
    Affinity = {}
    Writer = {w1}
    RequiredModes <- OnlyBackground
    BatchLimit = 2
    MaxWrites = 2
    MaxFaults = 0
    MaxActiveFaults = 0
    MaxActiveRestarts = 0
    MaxStandbyRestarts = 0
    MayPromote = FALSE
CHECK_DEADLOCK FALSE
PROPERTIES
    CatchesUp
