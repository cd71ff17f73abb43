SPECIFICATION Spec
CONSTANTS
    Proposals = {p1, p2, p3}
    Instances = {i1}
    Threads = 2
    MaxAttempts = 2
SYMMETRY Symmetry
INVARIANTS
    NoProposalLost
CHECK_DEADLOCK FALSE
