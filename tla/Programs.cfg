SPECIFICATION FairSpec
CONSTANTS
    w1 = w1
    j1 = j1
    j2 = j2
    Server = Server
    Processors <- OneProcessor
    Jobs <- TwoJobs
    MaxFaults = 2
INVARIANTS
    TypeOK
    ServedOnSchema
    ServedWithClients
PROPERTIES
    CutForAReason
    SignalStops
    EventuallyUp
