SPECIFICATION Spec
CONSTANTS
    Sessions = {s1, s2}
    Users = {u1, u2}
    Names = {n1, n2}
    NULL = NULL
    MaxFaults = 1
SYMMETRY Symmetry
INVARIANTS
    TypeOK
    Ownership
    OneGamePerAccount
    PlaysStoredCharacter
    NoStaleLogin
PROPERTIES
    LockoutsExplained
    EntryStays
    ImplementsPresence
