SPECIFICATION FairSpec
CONSTANTS
    Clients = {c1}
    Stoppers = {"daemon"}
    Drivers = {d1, d2}
    NoDriver = NoDriver
    NoReq = NoReq
    MaxTarget = 1
    MaxFaults = 0
    MaxParseKills = 0
PROPERTIES
    StopCompletes
CHECK_DEADLOCK FALSE
