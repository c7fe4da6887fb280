SPECIFICATION Spec
CONSTANTS
    NumRuns = 1
    NumRequests = 1
    NumTrees = 2
    Faults <- SafeFaults
    MaxRecords = 12
    MaxDamaged = 9
    MaxStops = 1
INVARIANTS Restartable EvidenceBound AuditFollowsJournal
PROPERTY EndedIsFinal
CHECK_DEADLOCK FALSE
