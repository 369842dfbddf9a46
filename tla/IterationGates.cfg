SPECIFICATION FairSpec
CONSTANTS
    r1 = r1
    r2 = r2
    g1 = g1
    g2 = g2
    k1 = k1
    k2 = k2
    Run = {r1, g1, g2}
    KindOf <- Gates
    Process = {k1}
    ProcessOf <- OneInstance
    Score = {1, 2, 3}
    Stored <- Rounded
    MaxCrashes = 1
INVARIANT GateViewIsCurrent
INVARIANT PassesRaiseTheBar
CHECK_DEADLOCK FALSE
INVARIANT RunningHasRunner
PROPERTY EveryIterationEnds
