SPECIFICATION Spec
CONSTANTS
    Invite = {i1}
    Other = {o1}
    FollowUp = {"CANCEL", "ACK"}
    Sessions <- SomeSessions
    Upstream = {u1}
    Worker = {w1, w2}
    CacheLimit = 1
    MaxBranch = 2
    MaxFaults = 1
SYMMETRY AnyWorker
CHECK_DEADLOCK FALSE
INVARIANTS
    ResponsesGoHome
    CachedFinalIsOwn
    NoBlackHole
    UnfollowedHasRoute
PROPERTIES
    SameUpstream
