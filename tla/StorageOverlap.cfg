SPECIFICATION Spec
CONSTANTS
    c1 = c1
    c2 = c2
    d1 = d1
    d2 = d2
    Callers = {c1, c2}
    Images <- MCImages
    Digests = {d1, d2}
    Languages = {"go", "js"}
    Lang <- MCLang
    Overlap = TRUE
INVARIANTS
    OneVersion
