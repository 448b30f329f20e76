CONSTANTS
    m1 = m1
    m2 = m2
    s1 = s1
    s2 = s2
    p1 = p1
    p2 = p2
    i1 = i1
    i2 = i2
    NULL = NULL
    Mongods = {m1, m2}
    Sets = {s1, s2}
    MemberIds = {0, 1}
    Pushes = {p1, p2}
    Initiations = {i1}
    MaxFaults = 0
    MaxChanges = 3
SPECIFICATION Spec
INVARIANT
    ShutDownWasRemoved
