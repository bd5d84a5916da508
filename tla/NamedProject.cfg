SPECIFICATION Spec
CONSTANTS
    Objects = {o1, o2, o3}
    Bases = {b1, b2}
    None = None
    MaxSetups = 2
    MaxFaults = 1
SYMMETRY MCSymmetry
INVARIANTS
    ProjectInv
    ReceiptBeforeBookmark
PROPERTY DurableForward
CHECK_DEADLOCK FALSE
