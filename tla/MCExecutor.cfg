SPECIFICATION FairSpec
CONSTANTS
    NumStories = 2
    Depends <- Reversed
    MaxAttempts = 3
    MaxIterations = 5
    RepeatLimit = 2
    MaxDecisions = 2
    NumTrees = 1
    NumSignatures = 2
INVARIANTS TypeOK HistorySound
PROPERTY CallsEnd
