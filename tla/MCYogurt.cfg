CONSTANTS
    NoKey = NoKey
    Minute = 2
    MaxMinutes = 3
    Byte = 2
    Cycles <- MCCycles
    QueueSize = 4
    MaxKeys = 6
SPECIFICATION Spec
INVARIANTS
    TypeOK
    DriverAlive
    OneExtrasTimer
PROPERTIES
    CountersRestart
    EndsNotEarly
    CycleEnds
    LeftoverTimersGo
CHECK_DEADLOCK FALSE
