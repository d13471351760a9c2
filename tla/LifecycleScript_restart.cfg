SPECIFICATION Spec
CONSTANTS
    u1 = u1
    u2 = u2
    Users <- TwoUsers
    MaxInvocations = 4
INVARIANTS
    RestartStarts
CHECK_DEADLOCK FALSE
