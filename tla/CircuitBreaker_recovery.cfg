SPECIFICATION Spec
CONSTANTS
    c1 = c1
    c2 = c2
    c3 = c3
    Callers <- ThreeCallers
    FailureThreshold = 2
    RecoveryTimeout = 2
    MaxRetries = 1
    MaxCalls = 4
    MaxGone = 2
PROPERTIES
    RecoveryTimeRespected
CHECK_DEADLOCK FALSE
