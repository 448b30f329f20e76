CONSTANTS
    NULL = NULL
    Requests = {q1, q2}
    Ports <- OnePort
    Names <- TwoNames
    ProcessIds = {1, 2, 3}
    MaxRestarts = 1
SPECIFICATION Spec
INVARIANTS
    TypeOK
    OneProcessPerPort
    CredentialsKnown
PROPERTIES
    ChildrenKeepData
    MutexesAreReleased
