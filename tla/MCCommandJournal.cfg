CONSTANTS
    p1 = p1
    p2 = p2
    e1 = e1
    e2 = e2
    s1 = s1
    k1 = k1
    c1 = c1
    c2 = c2
    Handles = {p1, p2}
    Places = {e1, e2, s1}
    Cancels = {k1}
    Client <- MCClient
    Target <- MCTarget
    Entries = {e1, e2}
    Settings <- MCSettings
SYMMETRY MCSymmetry
SPECIFICATION Spec
INVARIANTS AlwaysReplays HandleExact MarkStaysValid WriteAhead TellsTruth
CHECK_DEADLOCK FALSE
