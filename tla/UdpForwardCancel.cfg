SPECIFICATION Spec
CONSTANTS
    Invite = {i1}
    Other = {o1}
    FollowUp = {"CANCEL", "ACK"}
    Sessions <- SomeSessions
    Upstream = {u1}
    Worker = {w1}
    CacheLimit = 4
    MaxBranch = 2
    MaxFaults = 0
CHECK_DEADLOCK FALSE
INVARIANT FinalHasRoute
