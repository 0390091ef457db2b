SPECIFICATION NoticedSpec
CONSTANTS
    Delays <- FightDelays
    MaxEchoes = 1
    NULL = NULL
CHECK_DEADLOCK FALSE
PROPERTY WaitEnds
