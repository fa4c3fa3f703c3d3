CONSTANTS
    p = p
    q = q
    Requests <- MCRequests
    NoCallback = NoCallback
    MaxTimers = 3
    Width = 5
    MaxCalls = 2
SPECIFICATION ListSpec
PROPERTIES
    InterruptAfterTicks
