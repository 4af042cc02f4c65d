SPECIFICATION Spec
CONSTANTS
    Bits = 2
    Source <- Countries
    Feed <- SomeFeeds
    Configs <- SomeConfigs
    DefaultEntries = 2
    MaxEntries = 4
    MaxRefresh = 2
    MaxFaults = 1
CHECK_DEADLOCK FALSE
INVARIANTS
    LookupIsTrue
    InUseIsCached
    KernelAgrees
    KernelCovers
