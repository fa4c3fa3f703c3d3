CONSTANTS
    NoKey = NoKey
    Minute = 2
    MaxMinutes = 3
    Byte = 2
    Cycles <- MCCycles
    QueueSize = 4
    MaxKeys = 4
SPECIFICATION Spec
PROPERTIES
    RelayOffOnError
CHECK_DEADLOCK FALSE
