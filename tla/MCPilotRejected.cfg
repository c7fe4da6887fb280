SPECIFICATION EvaluationSpec
CONSTANTS
    Triplets = {1, 2}
    StageLimit <- ThreeStages
    Profiles = {"better", "other"}
    Shown <- TwoProfiles
    MinCompleteness <- HalfMeasured
    EligibleStrata = {"s1"}
    MaxMaterial = 1
    MinStratum = 1
    MaxHeld = 1
    MaxVersions = 4
    MaxLater = 2
INVARIANT RejectedPilotStops
CHECK_DEADLOCK FALSE
