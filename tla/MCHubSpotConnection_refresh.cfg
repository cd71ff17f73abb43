SPECIFICATION Spec
CONSTANTS
    Refreshers = {r1, r2}
    Accounts = {a1}
    Callbacks = {c1}
    States = {s1, s2}
    Ttl = 1
    StateTtl = 1
    MaxTries = 1
    Faulty = TRUE
    MaxTime = 1
    MaxGen = 4
    MaxToken = 3
SYMMETRY Symmetry
INVARIANTS
    TypeOK
    ExclusiveUse
PROPERTIES
    DisabledOnlyIfRejected
CHECK_DEADLOCK FALSE
