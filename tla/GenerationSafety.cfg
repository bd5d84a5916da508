SPECIFICATION LiveSpec
CONSTANTS
    Kids = {k1, k2}
    Inodes = {i1, i2, i3}
    Cli = Cli
    None = None
INVARIANTS
    
    OneRuntime
    
PROPERTIES
    OwnedIntact
    ResidueFinished
CHECK_DEADLOCK FALSE
