SPECIFICATION Spec
CONSTANTS
    s1 = s1
    s2 = s2
    Sends <- TwoSends
    Rows <- SomeRows
    MaxRows = 2
    MaxTables = 2
SYMMETRY SendSymmetry
INVARIANTS
    DeletesAreMarked
CHECK_DEADLOCK FALSE
