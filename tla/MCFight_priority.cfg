SPECIFICATION Spec
CONSTANTS
    PlayerAttrs <- Fit
    Loadouts <- Books
    Foes <- Enemies1
    Rolls = {0, 99}
    MaxDraws = 10
CHECK_DEADLOCK FALSE
PROPERTY PriorityRespected
