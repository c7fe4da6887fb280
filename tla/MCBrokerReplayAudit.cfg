SPECIFICATION Spec
CONSTANTS
    NumRuns = 1
    NumRequests = 1
    NumTrees = 1
    Faults <- NoFaults
    MaxRecords = 4
    MaxDamaged = 3
    MaxStops = 1
INVARIANTS RecoveryProjects
CHECK_DEADLOCK FALSE
