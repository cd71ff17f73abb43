SPECIFICATION Spec
CONSTANTS
    Sheets = {1, 2, 3, 4, 5, 6, 7}
    Existing = {1, 2}
    Refs = {1, 2, 3}
    Titles = {a, b, c}
    Rows = 1
    MaxLength = 3
    MaxTabs = 2
    MaxEdits = 1
    Faulty = TRUE
SYMMETRY Symmetry
INVARIANTS
    TypeOK
    ReachesUnlessRenamed
    
    AppliedInOrder
    DoneIsComplete
CHECK_DEADLOCK FALSE
