SPECIFICATION ServiceSpec
CONSTANTS
    p1 = p1
    p2 = p2
    t1 = t1
    a1 = a1
    a2 = a2
    bad = bad
    Processors <- TwoProcessors
    Messages <- CopiesAndBad
    Malformed = {bad}
    Ids = {t1}
    TaskOf <- OneTask
    Prefetch = 1
    MaxFaults = 1
    NoDelivery = NoDelivery
SYMMETRY Symmetry
CHECK_DEADLOCK FALSE
INVARIANTS
    ServiceTypeOK
    RowBeforeMessage
    AckedIsReady
    TogetherForAReason
PROPERTIES
    LifecycleSpec
    WrittenOnce
    SeenAdvances
