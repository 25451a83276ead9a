SPECIFICATION FairSpec
CONSTANTS
    Clients = {c1}
    Stoppers = {"giveUp"}
    Drivers = {d1, d2}
    NoDriver = NoDriver
    NoReq = NoReq
    MaxTarget = 1
    MaxFaults = 0
    MaxParseKills = 1
INVARIANTS
    IndInv
PROPERTIES
    
    LeasePromise
CHECK_DEADLOCK FALSE
