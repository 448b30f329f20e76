CONSTANTS
    s1 = s1
    r1 = r1
    NULL = NULL
    Hostnames = {s1}
    ReplicaSetNames = {r1}
    RiskGroups = {}
    MongodIds = {1, 2, 3}
    MaxObserved = 2
    PortNumbers <- MCPorts
    MaxMembers = 2
    PostedSlaves <- RaceSlaves
    PostedCounts <- RaceCounts
    Reports <- RaceReports
SPECIFICATION RaceSpec
INVARIANT
    MongodIdentityUnique
