SPECIFICATION Spec
CONSTANTS
    WindowIn = 10
    WindowTarget = 5
    MinInstances = 1
    MaxInstances = 4
    Add = 1
    MulNum = 1
    MulDen = 4
    MaxDemand = 5
    MaxChanges = 2
INVARIANTS
    TypeOK
    WindowAverage
    TargetWithinLimits
    Monotone
PROPERTIES
    Settles
