SPECIFICATION Spec
CONSTANTS
    Clients = {c1, c2}
    Stoppers = {}
    Drivers = {d1, d2, d3}
    NoDriver = NoDriver
    NoReq = NoReq
    MaxTarget = 2
    MaxFaults = 1
    MaxParseKills = 0
SYMMETRY Symmetric
INVARIANTS
    TypeOK
    Exclusive
    NoForgottenRequest
CHECK_DEADLOCK FALSE
