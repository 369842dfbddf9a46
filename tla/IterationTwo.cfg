SPECIFICATION Spec
CONSTANTS
    r1 = r1
    r2 = r2
    g1 = g1
    g2 = g2
    k1 = k1
    k2 = k2
    Run = {r1, r2}
    KindOf <- Requests
    Process = {k1}
    ProcessOf <- OneInstance
    Score = {1, 2}
    Stored <- Rounded
    MaxCrashes = 0
INVARIANT OneRunning
CHECK_DEADLOCK FALSE
