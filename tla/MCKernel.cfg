CONSTANTS
    NULL = NULL
    Values <- MCValues
    Size = 4
    StackSize = 2
    Depths = {1}
    Mixtures = {2}
    IsrCells = 1
    Junk = Junk
    MaxEntries = 1
SPECIFICATION KernelSpec
INVARIANTS
    TypeOK
    OwnContext
    TokensKept
PROPERTIES
    ImplementsFifo
    AcceptedTaskRuns
    ThreadGoesOn
