SPECIFICATION LiveSpec
CONSTANTS
    s1 = s1
    v1 = v1
    c1 = c1
    i1 = i1
    g1 = g1
    k1 = k1
    k2 = k2
    None = None
    Sessions = {s1}
    Volumes = {v1}
    Commands = {c1}
    Ids = {i1}
    Gens = {g1}
    Supervisors = {k1, k2}
    MaxAttach = 1
PROPERTIES
    RetryCompletes
    StopConverges
CHECK_DEADLOCK FALSE
