SPECIFICATION Spec
CONSTANTS
    Clients = {c1}
    Stoppers = {"daemon"}
    Drivers = {d1, d2, d3}
    NoDriver = NoDriver
    NoReq = NoReq
    MaxTarget = 2
    MaxFaults = 0
    MaxParseKills = 1
SYMMETRY Symmetric
INVARIANTS
    ExitedClean
    DrainedWhenStopped
    Accounted
    RunningCount
    InstanceLimit
CHECK_DEADLOCK FALSE
