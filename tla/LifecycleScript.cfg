SPECIFICATION FairSpec
CONSTANTS
    u1 = u1
    u2 = u2
    Users <- TwoUsers
    MaxInvocations = 4
INVARIANTS
    TypeOK
    NoStrayGateway
    StopMeansStopped
PROPERTIES
    InvocationEnds
CHECK_DEADLOCK FALSE
