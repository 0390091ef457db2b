SPECIFICATION FitSpec
CONSTANTS
    PlayerAttrs <- Fit
    Loadouts <- Books
    Foes <- SomeFoes
    Rolls = {0, 99}
    MaxDraws = 10
CHECK_DEADLOCK FALSE
INVARIANTS
    AliveCounted
    AttackerHasTarget
    WinnerStands
    NoOvershoot
    ReplayInBounds
    ReplayAgrees
    DelayWithinBounds
PROPERTY
    CooldownRespected
