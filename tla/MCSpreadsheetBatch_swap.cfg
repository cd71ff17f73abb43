SPECIFICATION Spec
CONSTANTS
    Sheets = {1, 2, 3, 4, 5}
    Existing = {1, 2}
    Refs = {1, 2}
    Titles = {a, b, c}
    Rows = 1
    MaxLength = 3
    MaxTabs = 2
    MaxEdits = 0
    Faulty = FALSE
SYMMETRY Symmetry
INVARIANTS
    ReachesItsSheet
CHECK_DEADLOCK FALSE
