SPECIFICATION FairSpec
CONSTANTS
    p1 = p1
    p2 = p2
    m1 = m1
    m2 = m2
    m3 = m3
    Processors <- MCProcessors
    Messages <- TwoMessages
    Malformed = {m2}
    Prefetch = 1
    MaxFaults = 2
    NoDelivery = NoDelivery
CHECK_DEADLOCK FALSE
PROPERTIES
    EventuallySettled
    ShutdownCompletes
