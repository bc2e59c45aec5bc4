SPECIFICATION Spec
CONSTANTS
    h1 = h1  h2 = h2  web = web  cli1 = cli1  cli2 = cli2
    s1 = s1  s2 = s2
    Procs = {web, cli1, cli2}
    Servers = {web}
    Hosts = {h1, h2}
    HostOf <- TwoHosts
    MaxPid = 2
    ReusePids = FALSE
    Sessions = {s1, s2}
    Legacy = {s2}
    NoSession = NoSession  NoProc = NoProc  NoHost = NoHost
INVARIANTS
    LiveScanOwnsItsRow
    ReaperSparesFinished
    NoOrphanSurvivesReap
PROPERTIES
    TerminalSticks
CHECK_DEADLOCK FALSE
