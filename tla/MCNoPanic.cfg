CONSTANTS
    s1 = s1
    r1 = r1
    r2 = r2
    g1 = g1
    NULL = NULL
    Hostnames = {s1}
    ReplicaSetNames = {r1, r2}
    RiskGroups = {}
    MongodIds = {1, 2, 3, 4}
    MaxObserved = 3
    PortNumbers <- MCPorts
    MaxMembers = 2
    PostedSlaves <- PortsSlaves
    PostedCounts <- PortsCounts
    Reports <- PortsReports
SPECIFICATION Spec
INVARIANTS
    NoPanic
