SPECIFICATION Spec
CONSTANTS
    TaskTimeouts <- MCTaskTimeouts
    PollIntervals <- MCPollIntervals
    PollTimeouts <- MCPollTimeouts
    Answers <- MCAnswers
    Lateness <- MCLateness
    Ends <- MCEnds
    HTTPTimeout = 10000
    MaxLate = 500
CHECK_DEADLOCK FALSE
INVARIANTS
    TypeOK
    ReturnsInTime
    FinishedRunIsSeen
    PollsBounded
    DefaultOutlastsKill
