SPECIFICATION Spec
CONSTANTS
    NumRuns = 2
    NumRequests = 2
    NumTrees = 1
    Faults <- AllFaults
    MaxRecords = 4
    MaxDamaged = 3
    MaxStops = 2
INVARIANTS TypeOK MemoryMatchesJournal RequestHasOneRun RecoverySound
CHECK_DEADLOCK FALSE
