SPECIFICATION Spec
CONSTANTS
    Responses = {r1}
    Echoes = {e1}
CHECK_DEADLOCK FALSE
INVARIANT SomeoneWillHandleIt
