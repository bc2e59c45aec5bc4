SPECIFICATION Spec
CONSTANTS
    p1 = p1
    p2 = p2
    Procs = {p1, p2}
    NoProc = NoProc
    Sessions = {s1, s2}
    MayAsk <- MayAskMC
SYMMETRY Symmetry
INVARIANTS
    RowsStayContained
    ListenersAskForTheKey
    ExitZeroMeansDone
CHECK_DEADLOCK FALSE
