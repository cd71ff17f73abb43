SPECIFICATION DeliverySpec
CONSTANTS
    s1 = s1  p1 = p1  p2 = p2  x1 = x1  x2 = x2  m1 = m1  t1 = t1  t2 = t2
    NoOne = NoOne
    Signals = {s1}
    Principals = {p1, p2}
    Sessions = {x1}
    PrincipalOf <- OwnPrincipal
    SignalTypes = {t1}
    Visible <- SeesAll
    Listers = {l1}
    Messages = {m1, m2}
    SignalOf <- AllAboutOne
    TypeOf <- OneType
    Malformed = {m2}
    Pushers = {h1}
    Lease = 1
    Retention = 0
    Skew = 0
    MaxTime = 2
    MaxAttempts = 2
    MaxGen = 2
    MaxDups = 1
PROPERTIES
    EventuallyAcked
