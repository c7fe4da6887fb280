SPECIFICATION Spec
CONSTANTS
    NumCandidates = 3
    Authorized <- AllCandidates
    MaxActive = 2
    MaxClaims = 2
    MaxFailures = 2
    LeasesLapse = TRUE
    Withdrawable <- LastCandidate
    RunOutcomes <- AnyOutcome
    MaxAborts = 1
INVARIANT WritesReadableState
CHECK_DEADLOCK FALSE
