SPECIFICATION Spec
CONSTANTS
    Phone = {"p1", "p2"}
    Server = {"s1", "s2"}
    Aor = {"user"}
    AorOf <- Users
    Natted = {"p2"}
    Group <- Groups
    Routes <- SomeRoutes
    Concrete <- Keys
    Configs <- SomeConfigs
    MaxHops = 1
    MaxSent = 3
    MaxChanges = 2
    MaxFaults = 1
CHECK_DEADLOCK FALSE
INVARIANT
    CallKeepsItsServer
