CONSTANTS
    NULL = NULL
    Requests = {q1, q2}
    Ports <- OnePort
    Names <- OneName
    ProcessIds = {1, 2, 3}
    MaxRestarts = 0
SPECIFICATION Spec
INVARIANTS
    ExitedProcessesAreForgotten
