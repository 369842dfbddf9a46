SPECIFICATION ControlSpec
CONSTANTS
    da = da
    db = db
    dc = dc
    dr = dr
    NoDriver = NoDriver
    Driver = {da, db, dc, dr}
    ModeOf <- Modes
    FlowOf <- Flows
    Smoked = {db}
    Launches <- Together
    Rounds = 0
    NumTasks = 3
    ScoreUnit = 10
    SeedCases = 1
    MaxVersions = 2
    a1 = a1
    a2 = a2
    v0 = v0
    k1 = k1
    x1 = x1
    x2 = x2
    s1 = s1
    s2 = s2
    t1 = t1
    t2 = t2
    g1 = g1
    g2 = g2
    g3 = g3
    ka = ka
    kb = kb
    w1 = w1
    w2 = w2
    w3 = w3
    w4 = w4
    d1 = d1
    d2 = d2
    d3 = d3
    f1 = f1
    f2 = f2
    c1 = c1
    c2 = c2
    c3 = c3
    None = None
    Nobody = Nobody
    Proposal = {a1, a2}
    Baseline = {v0}
    Skill = {k1}
    Section = {x1, x2}
    SkillOf <- TwoSections
    BaseOf <- Base
    SectionOf <- OwnSections
    Session = {s1, s2}
    MaxProposals = 2
    MaxReverts = 0
    Trigger = {trig}
    ReloadEvery = 2
    CronEvery = 2
    PollEvery = 1
    EventAt = 2
    Tolerance = 1
    PruneEvery = 3
    PageSize = 2
    Matching = {1, 3}
    Binds = FALSE
    MaxTime = 4
    MaxItems = 3
    MaxEdits = 2
    MaxRestarts = 1
    Trace = {t1, t2}
    Batch = {g1, g2, g3}
    Carries <- Crossing
    Bound = {g1, g2}
    Failing = {g1, g2}
    EventCap = 2
    Debounce = 1
    MaxResends = 1
    MaxMishaps = 1
    Writer = {w1, w2, w3, w4}
    SkillKind = {ka, kb}
    FormOf <- OneOtherKind
    Appender = {d1, d2, d3}
    WorkspaceOf <- TwoAndOne
    MaxAppends <- FirstTwice
    ExportCap = 3
    NoOne = NoOne
    Fix = {f1, f2}
    Shipper = {c1, c2, c3}
    NoFix = NoFix
    ann = ann
    bob = bob
    la = la
    lb = lb
    wsa = wsa
    wsb = wsb
    wsc = wsc
    i1 = i1
    q1 = q1
    q2 = q2
    b1 = b1
    b2 = b2
    Address = {ann, bob}
    Login = {la, lb}
    AddressesOf <- Reported
    Workspace = {wsa, wsb, wsc}
    Founded <- Annes
    KnownLogins <- SignedIn
    NoUser = NoUser
    Invite = {i1}
    Slot = {q1, q2}
    MaxWorkspaces = 1
    MaxRequests = 4
    DbRow = {"w", "run1", "run2", "case", "remark", "cluster", "trace", "skill", "version", "proposal", "approval", "output", "agent"}
    TableOf <- Tables
    Refers <- Keys
    TheWorkflow = "w"
    Stocks <- Starts
    Desk = {b1, b2}
    MaxWrites = 2
    MaxOrders = 2
CHECK_DEADLOCK FALSE
INVARIANT EnabledIsLoaded
