SPECIFICATION FairSpec
CONSTANTS
    Contact = {c1}
    Affinity = {a1}
    Writer = {w1, w2}
    RequiredModes <- EitherMode
    BatchLimit = 2
    MaxWrites = 2
    MaxFaults = 1
    MaxActiveFaults = 1
    MaxActiveRestarts = 1
    MaxStandbyRestarts = 1
    MayPromote = TRUE
CHECK_DEADLOCK FALSE
INVARIANTS
    HonestWhileUp
    MemoryHonest
    CheckpointBounded
    MemoryLeadsLog
    RequiredIsDurable
PROPERTIES
    Converges
