SPECIFICATION Spec
CONSTANTS
    p1 = p1
    p2 = p2
    m1 = m1
    m2 = m2
    m3 = m3
    Processors <- OneProcessor
    Messages <- TwoMessages
    Malformed = {}
    Prefetch = 1
    MaxFaults = 1
    NoDelivery = NoDelivery
CHECK_DEADLOCK FALSE
INVARIANT
    DroppedAfterSecondFailure
