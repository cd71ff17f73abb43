SPECIFICATION Spec
CONSTANTS
    c1 = c1  c2 = c2  a = a  b = b  h = h
    Calls = {c1, c2}
    Order <- NativeNames
    PageSize = 1
    Arguments = {a, b}
    Humans = {h}
    NoReference = NoReference
    Submissions <- Typical
    Deployments <- OneOfThem
    Ttl = 1
    MaxTime = 1
    MaxChanges = 1
SYMMETRY Symmetry
INVARIANTS
    TypeOK
    OneDiscovery
    RemovalsVisible
    OncePerCall
    RejectionsExplained
    NeverAnother
PROPERTIES
    ConsentUnlessReclassified
