SPECIFICATION Spec
CONSTANTS
    s1 = s1  p1 = p1  p2 = p2  x1 = x1  x2 = x2  m1 = m1  t1 = t1  t2 = t2
    NoOne = NoOne
    Signals = {s1}
    Principals = {p1, p2}
    Sessions = {x1}
    PrincipalOf <- OwnPrincipal
    SignalTypes = {t1, t2}
    Visible <- SeesFirst
    Listers = {l1, l2}
    Messages = {m1, m2}
    SignalOf <- AllAboutOne
    TypeOf <- TwoTypes
    Malformed = {}
    Pushers = {h1}
    Lease = 1
    Retention = 0
    Skew = 0
    MaxTime = 1
    MaxAttempts = 2
    MaxGen = 3
    MaxDups = 0
SYMMETRY EitherLister
INVARIANTS
    TypeOK
    NoSilentLoss
PROPERTIES
    ConfinedToVisible
    ImplementsLifecycle
