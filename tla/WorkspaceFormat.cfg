SPECIFICATION Spec
CONSTANTS
    Proc = {p1, p2}
    None = None
    MaxFault = 4
INVARIANTS
    FormatInv
    AvailableQualified
PROPERTY VerifiedKept
CHECK_DEADLOCK FALSE
