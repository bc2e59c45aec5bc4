SPECIFICATION Spec
CONSTANTS
    s1 = s1  s2 = s2  acme = acme
    Sessions = {s1, s2}
    MaxEngines = 2
    RateLimit = FALSE
    MaxConcurrent = 1
    SinkEnabled = TRUE
    WritesMayFail = TRUE
    Tenants = {acme}
    OtherId = OtherId  NoSession = NoSession  NoTenant = NoTenant  NoCache = NoCache
SYMMETRY Symmetry
INVARIANTS
    FindingsStayHome
    TasksFinishTheirSessions
    SlotHeldByOneScan
    OverlaysUndone
    CachedListLagsOnlyInStatus
CHECK_DEADLOCK FALSE
