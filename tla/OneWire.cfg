CONSTANTS
    MaxRetries = 1
    WaitTimeout = 1
SPECIFICATION Spec
INVARIANTS
    TypeOK
    OneWakeUp
PROPERTIES
    FreshTemperature
    ReadingsGoOn
    AbsenceReported
