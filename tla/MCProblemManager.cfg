CONSTANTS
    NULL = NULL
    Writers <- MCWriters
    Readers <- MCReaders
    Capacity = 1
    Slaves = {}
    ReplicaSets = {r1}
    MaxDisturbances = 1
SPECIFICATION Spec
INVARIANTS
    TypeOK
    ProblemsHaveSubjects
    WritersAreHeard
PROPERTIES
    SendersAreNotBlocked
    ProblemsSettle
CHECK_DEADLOCK FALSE
