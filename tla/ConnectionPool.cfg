SPECIFICATION FairSpec
CONSTANTS
    r1 = r1
    r2 = r2
    r3 = r3
    Requests <- ThreeRequests
    Chars <- SomeChars
    Credentials <- SomeCredentials
    MaxTries = 2
    MaxOpened = 2
INVARIANTS
    TypeOK
    OwnCredentials
    SingleFlight
    NobodyStranded
PROPERTIES
    ImplementsPooledConnections
    GetReturns
