SPECIFICATION Spec
CONSTANTS
    Client = {c1, c2}
    Attempt = {a1, a2}
    Helper = {h1, h2}
    Once = 1
    Startup = 1
    Reconfigure = 1
    None = None
    MaxGen = 2
    MaxObj = 2
    MaxFault = 1
SYMMETRY MCSymmetry
INVARIANTS
    ActionInv
    SuccessHasReceipt
    PlanExplained
PROPERTIES
    RunsOnce
CHECK_DEADLOCK FALSE
