SPECIFICATION Spec
CONSTANTS
    s1 = s1  p1 = p1  p2 = p2  x1 = x1  x2 = x2  m1 = m1  t1 = t1  t2 = t2
    NoOne = NoOne
    Signals = {s1}
    Principals = {p1, p2}
    Sessions = {x1, x2}
    PrincipalOf <- OwnPrincipal
    SignalTypes = {t1}
    Visible <- SeesAll
    Listers = {}
    Messages = {m1}
    SignalOf <- AllAboutOne
    TypeOf <- OneType
    Malformed = {}
    Pushers = {h1}
    Lease = 1
    Retention = 0
    Skew = 1
    MaxTime = 4
    MaxAttempts = 2
    MaxGen = 3
    MaxDups = 0
INVARIANTS
    CompletedInLease
PROPERTIES
    LeaseRespected
CHECK_DEADLOCK FALSE
