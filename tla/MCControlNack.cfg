SPECIFICATION Spec
CONSTANTS
    Caller = {g1, g2}
    MaxRef = 4
    MaxMsg = 4
INVARIANTS NackAnswersOwnRequest
CHECK_DEADLOCK FALSE
