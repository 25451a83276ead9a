SPECIFICATION Spec
CONSTANTS
    p1 = p1
    p2 = p2
    u1 = u1
    u2 = u2
    a1 = a1
    Pools = {p1, p2}
    Users = {u1, u2}
    Admins = {a1}
    Versions <- MCVersions
    Names <- MCNames
    Language <- MCLanguage
    Aliases <- MCAliases
CHECK_DEADLOCK FALSE
SYMMETRY Symmetry
INVARIANTS
    TypeOK
    
    
PROPERTIES
    RemoveLeavesNoPool
    
