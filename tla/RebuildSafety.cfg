SPECIFICATION Spec
CONSTANTS
    c1 = c1
    c2 = c2
    o1 = o1
    o2 = o2
    o3 = o3
    b1 = b1
    b2 = b2
    None = None
    Commands = {c1, c2}
    Objects = {o1, o2, o3}
    Bases = {b1, b2}
SYMMETRY Symmetry
INVARIANTS
    RebuildInv
    OldNeverRuns
    SystemKept
    BindingsFollow
PROPERTIES
    PreparedExact
CHECK_DEADLOCK FALSE
