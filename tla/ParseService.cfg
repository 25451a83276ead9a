SPECIFICATION Spec
CONSTANTS
    u1 = u1
    u2 = u2
    d1 = d1
    Users = {u1, u2}
    Drivers = {d1}
    Languages <- MCLanguages
    Normal <- MCNormal
INVARIANTS
    TypeOK
    Truthful
    FreshDriver
PROPERTIES
    DeadlineKept
