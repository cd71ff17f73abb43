SPECIFICATION Spec
CONSTANTS
    r1 = r1
    r2 = r2
    a = a
    b = b
    Requests = {r1, r2}
    Tabs = {1, 2, 3}
    Titles = {a, b}
    MaxAssets = 2
    MaxEdits = 1
    Faulty = TRUE
SYMMETRY Symmetry
INVARIANTS
    TypeOK
    OncePerRevision
    ReportsAreTrue
    StagingCleanedUp
PROPERTIES
    TitlesStayDistinct
    DeletesOneLeaf
    VerifiedAlone
CHECK_DEADLOCK FALSE
