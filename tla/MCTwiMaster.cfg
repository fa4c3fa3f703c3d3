CONSTANTS
    MaxRetries = 3
    Transfers <- MCTransfers
SPECIFICATION Spec
INVARIANTS
    TypeOK
    OneResume
    ReplyFits
PROPERTIES
    ImplementsTransfer
