SPECIFICATION Spec
CONSTANTS
    Attempt = {a1, a2}
    Key = {k1, k2}
    None = None
    MaxFault = 2
    MaxActs = 1
SYMMETRY MCSymmetry
INVARIANTS
    PreparedInv
    ReturnedIntact
CHECK_DEADLOCK FALSE
