SPECIFICATION FairSpec
CONSTANTS
    Responses = {r1, r2}
    Echoes = {e1, e2, e3}
CHECK_DEADLOCK FALSE
INVARIANTS
    TypeOK
    OneWriteFromFront
    WriterWhileOpen
    EchoesInOrder
PROPERTIES
    ImplementsOutbox
    AllWritten
