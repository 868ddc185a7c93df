SPECIFICATION ServiceFairSpec
CONSTANTS
    p1 = p1
    p2 = p2
    t1 = t1
    a1 = a1
    a2 = a2
    bad = bad
    Processors <- TwoProcessors
    Messages <- TwoCopies
    Malformed = {}
    Ids = {t1}
    TaskOf <- OneTask
    Prefetch = 1
    MaxFaults = 1
    NoDelivery = NoDelivery

CHECK_DEADLOCK FALSE
PROPERTY
    EventuallyReady
