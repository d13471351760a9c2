SPECIFICATION FairSpec
CONSTANTS
    h1 = h1
    h2 = h2
    Main = main
    Handlers <- TwoHandlers
    Chars <- SomeChars
    Credentials <- SomeCredentials
    Setups <- SomeSetups
    Headers <- SomeHeaders
    MaxTries = 2
    MaxOpened = 2
    MaxBackendCalls = 2
    MaxAccepted = 2
INVARIANTS
    TypeOK
    ClosedPoolIsEmpty
    IdentityRespected
    ServesAfterWarmUp
    RequestsAccounted
PROPERTIES
    ShutdownCompletes
CHECK_DEADLOCK FALSE
