SPECIFICATION Spec
CONSTANTS
    p1 = p1
    p2 = p2
    m1 = m1
    m2 = m2
    m3 = m3
    Processors <- MCProcessors
    Messages <- MCMessages
    Malformed = {m3}
    Prefetch = 2
    MaxFaults = 2
    NoDelivery = NoDelivery
SYMMETRY Symmetry
CHECK_DEADLOCK FALSE
INVARIANTS
    TypeOK
    OnePlace
    UnackedIsHeld
    SettledForAReason
    AttemptsBounded
PROPERTY
    QueueSpec
