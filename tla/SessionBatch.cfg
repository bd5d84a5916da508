SPECIFICATION Spec
CONSTANTS
    s1 = s1
    v1 = v1
    v2 = v2
    c1 = c1
    c2 = c2
    i1 = i1
    g1 = g1
    g2 = g2
    g3 = g3
    k1 = k1
    k2 = k2
    None = None
    Sessions = {s1}
    Volumes = {v1, v2}
    Commands = {c1, c2}
    Ids = {i1}
    Gens = {g1, g2, g3}
    Supervisors = {k1, k2}
    MaxAttach = 2
SYMMETRY Symmetry
INVARIANTS
    
    StartedUsesComplete
PROPERTIES
    
    GenerationStable
CHECK_DEADLOCK FALSE
