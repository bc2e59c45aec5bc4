SPECIFICATION FairSpec
CONSTANTS
    t1 = t1  t2 = t2  t3 = t3  a = a  b = b  c = c  d = d
    TargetList <- ThreeTargets
    Tables = {a, b}
    TablesOf <- TwoTablesInFirst
    Columns = {c}
    Modes = {"sequential", "pool", "adaptive"}
    TargetLatency = 10
    MaxWorkers = 2
    WindowSize = 2
    Latencies = {5, 30}
    MaxRuns = 2
    NoTable = NoTable
INVARIANTS
    CompletedTablesAccountedFor
    TwiceOnlyIfTorn
    EndStatusTellsTheTruth
    SessionEndsQuiet
PROPERTIES
    RunEnds
    KeepsLedger
CHECK_DEADLOCK FALSE
