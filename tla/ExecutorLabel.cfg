SPECIFICATION Spec
CONSTANTS
    c1 = c1
    c2 = c2
    Calls <- TwoCalls
    NoRun = NoRun
CHECK_DEADLOCK FALSE
INVARIANT
    KilledIsTimeout
