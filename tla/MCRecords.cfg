SPECIFICATION RecordsSpec
CONSTANTS
    BlockArms = {"A", "B", "C", "DIRECT"}
    Revisions = {0, 1}
    BaseRevision = 0
    Findings = {f1}
    MaxValidations = 1
    MaxOperations = 1
    LogBlocks = {k1, k2}
    MaxLog = 4
    Triplets = {1, 2}
    StageLimit <- ThreeStages
    Profiles = {"better", "other"}
    Shown <- TwoProfiles
    MinCompleteness <- HalfMeasured
    EligibleStrata = {"s1"}
    MaxMaterial = 1
    MinStratum = 1
    MaxHeld = 2
    MaxVersions = 4
    MaxLater = 1
    MaxTime = 5
    WindowSize = 3
    MinimumObservations = 3
    MaximumFailureRate = 4000
    MaximumConsecutive = 2
    Cooldown = 2
    RecoveryCanaries = 2
    RvTrees = {1, 2}
    RvSessions = {1, 2, 3}
INVARIANTS RecordsTypeOK AcceptanceIsEarned ProjectionIsExact PromotionsAreEarned QuarantineHolds
CHECK_DEADLOCK FALSE
