SPECIFICATION ResourcesSpec
CONSTANTS
    Processes = {p1, p2, p3}
    NoOwner = noOwner
    Torn = torn
    WtRuns = {1, 2}
    MaxActive = 1
    MaxManaged = 1
    MaxWtFaults = 2
    MaxMeddled = 1
    Brokers = {b1, b2}
    Creates = {c1, c2}
    NoBroker = noBroker
    MaxTxFaults = 2
    Executions = {e1, e2}
    Identities = {i1, i2}
    Ttl = 0
    MaxTick = 1
    Never = never
    CertRuns = {k1, k2}
    MaxCertFaults = 2
    GwRequests = {r1, r2}
    Answers <- LookupAnswers
    Nowhere = nowhere
    EpServers = {s1, s2}
    QuarantineLimit = 2
    MaxSockets = 4
    MaxEpFaults = 2
    MaxIntrusions = 1
    BundleFiles = {1, 2}
    Repositories = {g1, g2}
    RepositoryIds = {x1, x2}
    Installers = {n1}
    Activators = {a1, a2}
    MaxEdits = 1
    MaxHostFaults = 1
INVARIANTS ResourcesTypeOK HolderOwnsFile WorktreesSound TerminatedIsGone NothingForgotten GatewaySound EndpointSound RegistrationsKept
PROPERTIES OnlyOwnRemoved CertifiedForItsEngine
CHECK_DEADLOCK FALSE
