SPECIFICATION Spec
CONSTANTS
    Proc = {p1, p2}
    Export = {e1, e2}
    Dir = {i1}
    Parent = {d1}
    None = None
    MaxGen = 1
    MaxFault = 1
SYMMETRY MCSymmetry
INVARIANTS
    TransferInv
    PublishedExact
    IntentBeforeEffect
    VerifiedEvidence
PROPERTIES
    PendingReleaseExact
CHECK_DEADLOCK FALSE
