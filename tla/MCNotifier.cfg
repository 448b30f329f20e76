CONSTANTS
    Contacts = 2
    MaxProblems = 3
    MaxFaults = 2
SPECIFICATION Spec
INVARIANTS
    TypeOK
    NotifiedOnce
    RememberedWereMailed
PROPERTY
    EveryoneIsTold
