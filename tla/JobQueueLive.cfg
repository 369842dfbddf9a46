SPECIFICATION FairSpec
CONSTANTS
    j1 = j1
    j2 = j2
    w1 = w1
    w2 = w2
    s1 = s1
    k1 = k1
    k2 = k2
    None = None
    Job = {j1, j2}
    Worker = {w1, w2}
    Workspace = {s1}
    Key = {k1, k2}
    WsOf <- OneTenant
    MaxAttempts = 2
    AttemptsCap = 3
    Stale = 2
    MaxSilence = 1
    MaxFaults = 1
INVARIANT ClaimIsExclusive
PROPERTY EveryJobSettles
PROPERTY ImplementsContract
