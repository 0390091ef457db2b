SPECIFICATION Spec
CONSTANTS
    MagicIds = {1, 2}
    Passive = {}
    MaxVersion = 1
    MaxActive = 1
    MaxFaults = 0
    AnyFuse = TRUE
INVARIANT MemoryMatchesDb
