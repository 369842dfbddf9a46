SPECIFICATION FairSpec
CONSTANTS
    p1 = p1
    p2 = p2
    a1 = a1
    b1 = b1
    b2 = b2
    k1 = k1
    x1 = x1
    s1 = s1
    s2 = s2
    s3 = s3
    None = None
    Proposal = {p1}
    Baseline = {b1, b2}
    Skill = {k1}
    Section = {x1}
    SkillOf <- OneOnSkill
    BaseOf <- Base
    SectionOf <- NoSection
    Session = {s1, s2, s3}
    MaxProposals = 1
    MaxReverts = 1

INVARIANT AuditTellsLife
INVARIANT AuditReconstructs
INVARIANT RevertSawTheHead
INVARIANT OperatorsNeverDeadlock
PROPERTY EveryTransactionEnds
