SPECIFICATION FairSpec
CONSTANTS
    Listener = {"l1", "l2"}
    Ip = {"a"}
    Trusted <- TrustedOnSecond
    Upstream = {}
    Denied = {}
    Listed = {}
    Prefiltered = {"l1"}
    SipLimited = {"REGISTER", "INVITE"}
    Policed = {"l1"}
    Task = {t1, t2}
    Rate = 1
    Burst = 2
    IdleTtl = 0
    BanTicks = {1, 2}
    MaxTime = 2
    MaxBans = 2
    MaxFaults = 1
CHECK_DEADLOCK FALSE
INVARIANTS
    RateHonoured
    KernelBlockHasKeeper
PROPERTIES
    BansOnlyGrow
    KernelBlockEnds
