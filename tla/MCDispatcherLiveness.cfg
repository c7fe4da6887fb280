SPECIFICATION FairSpec
CONSTANTS
    NumCandidates = 4
    Authorized <- AllButLast
    MaxActive = 2
    MaxClaims = 2
    MaxFailures = 2
    LeasesLapse = FALSE
    Withdrawable <- NoCandidates
    RunOutcomes <- FailedOrMerged
    MaxAborts = 2
PROPERTIES ImplementsLedger OutcomesRecorded
CHECK_DEADLOCK FALSE
