SPECIFICATION Spec
CONSTANTS
    Device = {d1, d2}
    Upstream = {u1, u2}
    Task = {t1, t2}
    Reader = {r1}
    Grant = 1
    MaxTime = 1
    MaxRegister = 2
    MaxGiveUps = 1
SYMMETRY AnyName
CHECK_DEADLOCK FALSE
INVARIANTS
    AnsweredIsStored
    ContactAndAffinityAgree
    LenIsSize
