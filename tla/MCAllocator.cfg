CONSTANTS
    s1 = s1
    s2 = s2
    s3 = s3
    r1 = r1
    g1 = g1
    NULL = NULL
    Hostnames = {s1, s2, s3}
    ReplicaSetNames = {r1}
    RiskGroups = {g1}
    MongodIds = {1, 2, 3, 4, 5, 6}
    PortNumbers <- MCPorts
    MaxMembers = 2
SPECIFICATION MCSpec
INVARIANTS
    ExcessKeepsEnough
    DegradedIsReported
    UnsatisfiedExplained
PROPERTIES
    NewMembersSeparated
    RunTerminates
    LayoutStabilises
