SPECIFICATION FairSpec
CONSTANTS
    Delays <- FightDelays
    MaxEchoes = 2
    NULL = NULL
CHECK_DEADLOCK FALSE
INVARIANTS
    TypeOK
    OneOutstanding
    ResponseMatchesRequest
    PromiseKept
    ReaderSurvives
    StatesAgree
    StaticDataReady
    NotTooEarly
PROPERTIES
    Responsive
    ExitCompletes
