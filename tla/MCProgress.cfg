SPECIFICATION ProgressSpec
CONSTANTS
    NumRuns = 1
    NumRequests = 1
    NumTrees = 1
    Callers = {c1}
    NumFlights = 2
    MaxAttempts = 2
    MaxFaults = 3
    MaxOutput = 2
    XClients = {c1, c2}
    XRawPeers = {c2}
    XRequests = {q1}
    MaxSends = 2
    MaxXFaults = 1
    MaxRunState = 1
    Executions = {e1}
    Identities = {i1, i2}
    Ttl = 0
    MaxTick = 1
    Never = never
    WtRuns = {1}
    MaxActive = 1
    MaxManaged = 1
    MaxWtFaults = 2
    MaxMeddled = 1
INVARIANTS ProgressTypeOK ResultIsFinal ExchangeSound
PROPERTIES HostSettles WaitsEnd
CHECK_DEADLOCK FALSE
