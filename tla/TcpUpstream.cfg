SPECIFICATION FairSpec
CONSTANTS
    Worker <- OneWorker
    UdpInvite = {}
    UdpOther = {o1}
    TcpInvite = {i1}
    TcpOther = {}
    FollowUp = {"ACK"}
    QueueSize = 1
    MaxConn = 2
    MaxBranch = 4
    MaxSends = 2
    MaxFaults = 1
CHECK_DEADLOCK FALSE
INVARIANTS
    UnfollowedWaiterHasRoute
PROPERTIES
    
    EveryTaskReturns
    RelaysAnswers
