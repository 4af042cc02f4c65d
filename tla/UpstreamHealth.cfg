SPECIFICATION HealthFairSpec
CONSTANTS
    Layouts <- TwiceOrShared
    Task = {"t1"}
    FailureThreshold = 2
    SuccessThreshold = 1
INVARIANTS
    FallbackMeansAllDown
PROPERTIES
    UpServerRecovers
    DownServerLeaves
