SPECIFICATION Spec
CONSTANTS
    p1 = p1
    p2 = p2
    a1 = a1
    b1 = b1
    b2 = b2
    k1 = k1
    x1 = x1
    s1 = s1
    s2 = s2
    s3 = s3
    None = None
    Proposal = {p1, p2, a1}
    Baseline = {b1}
    Skill = {k1}
    Section = {x1}
    SkillOf <- AndArtifact
    BaseOf <- Base
    SectionOf <- OneSection
    Session = {s1, s2}
    MaxProposals = 2
    MaxReverts = 0
SYMMETRY Interchangeable
INVARIANT AuditOrderIsCommitOrder
INVARIANT ApprovalBacksState
INVARIANT PointerHasProposal
INVARIANT LineageHolds
PROPERTY ImplementsContract
