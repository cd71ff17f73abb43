SPECIFICATION Spec
CONSTANTS
    Refreshers = {r1, r2}
    Accounts = {a1}
    Callbacks = {c1}
    States = {s1}
    Ttl = 2
    StateTtl = 1
    MaxTries = 2
    Faulty = FALSE
    MaxTime = 3
    MaxGen = 5
    MaxToken = 3
SYMMETRY Symmetry
INVARIANTS
    NeverLost
CHECK_DEADLOCK FALSE
