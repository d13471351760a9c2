SPECIFICATION Spec
CONSTANTS
    s1 = s1
    s2 = s2
    s3 = s3
    Slots <- ThreeSlots
    Requests <- SomeRequests
    Names <- SomeNames
    Underscored <- SomeUnderscored
    Texts <- SomeTexts
    Values <- SomeValues
    InitialDatabases <- SomeDatabases
    InitialTables <- SomeTables
    Half <- SmallHalf
    MaxTables = 4
    MaxRows = 3
SYMMETRY SlotSymmetry
INVARIANTS
    TypeOK
    CreatedMeansMade
    AnswersInKeyOrder
    ScanIsPrefix
    RowsReadBack
    SeriesTellRoutesApart
PROPERTIES
    CatalogueIsAtomic
CHECK_DEADLOCK FALSE
