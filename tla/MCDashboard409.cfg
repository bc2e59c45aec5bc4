SPECIFICATION Spec
CONSTANTS
    s1 = s1  s2 = s2  acme = acme
    Sessions = {s1, s2}
    MaxEngines = 2
    RateLimit = FALSE
    MaxConcurrent = 1
    SinkEnabled = FALSE
    WritesMayFail = FALSE
    Tenants = {}
    OtherId = OtherId  NoSession = NoSession  NoTenant = NoTenant  NoCache = NoCache
INVARIANT OneScanAtATime
CHECK_DEADLOCK FALSE
