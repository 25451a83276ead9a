SPECIFICATION MCSpec
CONSTANTS
    w1 = w1
    w2 = w2
    d1 = d1
    Callers = {w1, w2}
    Images <- MCImages
    Digests = {d1}
    Languages = {"go", "js", "py"}
    Lang <- MCLang
    Overlap = FALSE
    Refs <- MCRefs
    Update = TRUE
    ForceFlag = FALSE
CHECK_DEADLOCK FALSE
INVARIANTS
    OnePlace
    ReportTrue
    IndInv
PROPERTIES
    CommandEnds
