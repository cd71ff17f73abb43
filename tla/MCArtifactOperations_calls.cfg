SPECIFICATION Spec
CONSTANTS
    c1 = c1  c2 = c2
    root = root  top = top  folder = folder  file = file  other = other  new = new
    Items = {root, top, folder, file, other, new}
    None = None
    Calls = {c1, c2}
    Sites <- Deployments
    RevisionPage = 3
    MaxSaves = 5
SYMMETRY Symmetry
INVARIANTS
    TypeOK
PROPERTIES
    Rightful
    TouchesItsSource
    BlockedUntouched
    RootsOnlyFromAbove
    ReplacesWhatWasRead
    AnswersAreTrue
