SPECIFICATION FairSpec
CONSTANTS
    c1 = c1
    c2 = c2
    c3 = c3
    Calls <- ThreeCalls
    NoCall = NoCall
    MaxFaults = 3
CHECK_DEADLOCK FALSE
INVARIANTS
    TypeOK
    FailsOnlyWhenHit
    SentOnceUnlessHit
PROPERTIES
    PublishesForService
    PublishReturns
