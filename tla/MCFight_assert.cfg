SPECIFICATION Spec
CONSTANTS
    PlayerAttrs <- Mobile
    Loadouts <- Books
    Foes <- Enemies1
    Rolls = {0, 99}
    MaxDraws = 10
CHECK_DEADLOCK FALSE
INVARIANT AttackerHasTarget
