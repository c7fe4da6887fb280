SPECIFICATION FairSpec
CONSTANTS
    NumRuns = 1
    NumRequests = 1
    NumTrees = 2
    Callers = {c1, c2}
    MaxFaults = 3
    MaxForeign = 2
INVARIANTS TypeOK PublicationSound
PROPERTIES RefsNeverOverwritten PublicationEnds
