SPECIFICATION Spec
CONSTANTS
    MagicIds = {m1, m2, m3}
    Passive = {m3}
    MaxVersion = 1
    MaxActive = 2
    MaxFaults = 1
    AnyFuse = FALSE
SYMMETRY Symmetry
INVARIANTS
    TypeOK
    MemoryMatchesDb
    ClientMatchesServer
    EquippedAreOwned
    NoDuplicates
