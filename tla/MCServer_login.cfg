SPECIFICATION Spec
CONSTANTS
    Sessions = {s1, s2}
    Users = {u1, u2}
    Names = {n1, n2}
    NULL = NULL
    MaxFaults = 0
SYMMETRY Symmetry
PROPERTY LoginDeniedWhenOnline
