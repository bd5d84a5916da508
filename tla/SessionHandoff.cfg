SPECIFICATION Spec
CONSTANTS
    s1 = s1
    s2 = s2
    v1 = v1
    c1 = c1
    i1 = i1
    i2 = i2
    g1 = g1
    g2 = g2
    k1 = k1
    k2 = k2
    None = None
    Sessions = {s1, s2}
    Volumes = {v1}
    Commands = {c1}
    Ids = {i1, i2}
    Gens = {g1, g2}
    Supervisors = {k1, k2}
    MaxAttach = 1
SYMMETRY Symmetry
INVARIANTS
    
    
    
    NothingOrphaned
CHECK_DEADLOCK FALSE
