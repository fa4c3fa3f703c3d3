CONSTANTS
    NoKey = NoKey
    Minute = 2
    MaxMinutes = 3
    Byte = 2
    Cycles <- MCCycles
    QueueSize = 4
    MaxKeys = 4
SPECIFICATION Spec
PROPERTIES
    AttainedIsMaintained
CHECK_DEADLOCK FALSE
