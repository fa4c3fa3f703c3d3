CONSTANTS
    p = p
    q = q
    Requests <- MCRequests
    NoCallback = NoCallback
    MaxTimers = 3
    Width = 5
    MaxCalls = 4
SPECIFICATION ListSpec
INVARIANTS
    TypeOK
    PoolExact
    MatchNotMissed
    Linked
PROPERTIES
    NeverEarly
    DueTimerRuns
