CONSTANTS
    MaxRetries = 1
    WaitTimeout = 1
SPECIFICATION Spec
PROPERTIES
    FetchReturnsReadData
