CONSTANTS
    PortNumbers <- MCPortNumbers
    MaxUsed = 4
SPECIFICATION FairSpec
INVARIANTS
    TypeOK
    ResultCorrect
    NotFoundMeansFull
PROPERTY
    Terminates
CHECK_DEADLOCK FALSE
