SPECIFICATION Spec
CONSTANTS
    Prios <- MCPrios
    Idle = 20
    NumTCBs = 4
    MaxDelay = 2
INVARIANTS
    MostUrgentRuns
    DeletionKeepsProcessor
    NothingLost
PROPERTY
    ImplementsPrioSched
