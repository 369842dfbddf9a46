SPECIFICATION PlaneSpec
CONSTANTS
    MaxTurns = 3
    KeepLastK = 1
    Threshold = 1
    TurnCalls = 2
    RunCalls = 4
    NumCases = 4
    HeldOut = {3}
    PositiveSets <- SomePositives
    MinInputs = 2
    MinCluster = 2
    MegaPercent = 70
    TextCap = 2
    EditUnits = {1, 2}
    MaxExamples = 1
    TokenCap = 2
    CallTokens = {0, 1, 2}
    c1 = c1
    c2 = c2
    Call = {c1, c2}
    Slots = 1
    MaxCancels = 2
    pd = pd
    pg = pg
    Page = {pd, pg}
    Interviewed = {pd}
    Dimension = {"goal", "metric"}
    Template <- TwoQuestions
    NumFindings = 1
    HasKey = TRUE
    MaxRetries = 1
    TokenLimit = 2
    WorkflowId = {"id"}
    MaxSent <- SentByPage
    MaxBreaks = 1
    m1 = m1
    m2 = m2
    n1 = n1
    b1 = b1
    Client = {m1, m2}
    State = {n1}
    Browser = {b1}
    MaxTokens = 2
    MaxChanges = 1
CHECK_DEADLOCK FALSE
INVARIANT RequestIsAnswerable
INVARIANT FreshResultsReachTheModel
INVARIANT CandidateIsLastGoodWrite
INVARIANT ProposalFitsTheRecord
INVARIANT FixingACaseNeverLowersTheScore
INVARIANT SpendIsBounded
INVARIANT RunningHoldsASlot
INVARIANT InterviewsEnd
INVARIANT CredentialHolds
PROPERTY EveryEvaluationEnds
