SPECIFICATION FairSpec
CONSTANTS
    Sessions = {s1, s2}
    Users = {u1}
    Names = {n1}
    NULL = NULL
    MaxFaults = 1
PROPERTIES
    RequestAnswered
    AccountReleased
