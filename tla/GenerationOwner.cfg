SPECIFICATION Spec
CONSTANTS
    Kids = {k1, k2}
    Inodes = {i1, i2}
    Cli = Cli
    None = None
INVARIANT OneOwner
CHECK_DEADLOCK FALSE
