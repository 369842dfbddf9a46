---------------------- MODULE ProposalLifecycleProofs -----------------------
(***************************************************************************)
(* Theorems about ProposalLifecycle, for any number of proposals, skills   *)
(* and sessions.                                                           *)
(***************************************************************************)
EXTENDS ProposalLifecycle, TLAPS, FiniteSetTheorems

Creating   == {"gate", "runner", "propose"}
RowLocking == {"decide", "deploy", "rollback"}

\* Where each kind of transaction can be, and what it is about.
SessionInv ==
    \A s \in Session :
        /\ op[s] = "none" <=> pc[s] = "idle"
        /\ op[s] = "none" => seq[s] = 0 /\ held[s] = {}
        /\ op[s] \in {"gate", "runner"} => subject[s] \in Skills
        /\ op[s] = "propose" => subject[s] \in Artifact
        /\ op[s] \in RowLocking => subject[s] \in Proposal
        /\ op[s] = "revert" => /\ subject[s] \in Version /\ SkillOf[subject[s]] \in Skill
                               /\ seen[s] # subject[s]
        /\ op[s] = "decide" => arg[s] \in Decision \cup {"reject-comment"}
        /\ op[s] = "gate" /\ pc[s] \in {"skill", "commit"} => arg[s] \in Verdict
        /\ op[s] = "gate" /\ pc[s] = "skill" => arg[s] = "pass"
        /\ pc[s] \in {"workflow", "bench"} => op[s] = "gate"
        /\ pc[s] \in {"traces", "clusters"} => op[s] = "runner"
        /\ pc[s] \in {"row", "other", "prior", "apply", "write", "seed"} => op[s] \in RowLocking
        /\ pc[s] = "seed" => op[s] = "decide"
        /\ pc[s] = "other" => op[s] = "deploy" /\ subject[s] \in Skills
        /\ pc[s] \in {"apply", "write"} => op[s] = "deploy" /\ subject[s] \in Artifact
        /\ pc[s] = "prior" => op[s] \in {"deploy", "rollback"} /\ subject[s] \in Skills
        /\ pc[s] = "skill" => /\ op[s] \in {"gate", "runner", "deploy", "rollback", "revert"}
                              /\ op[s] \in {"deploy", "rollback"} => subject[s] \in Skills
        /\ op[s] = "rollback" /\ pc[s] # "row" => subject[s] \in Skills

\* No two transactions hold locks that exclude each other.
LockInv ==
    \A s, t \in Session : s # t => \A l \in held[s], m \in held[t] : ~Clash(l, m)

\* What a transaction has learnt under its locks is still so.
Under(s) ==
    /\ op[s] \in RowLocking /\ pc[s] # "row" => Row(subject[s]) \in held[s] /\ Admits(s)
    /\ seq[s] # 0 => AuditChain \in held[s] /\ seq[s] = Len(log) + 1
    /\ seq[s] # 0 <=> pc[s] = "commit" \/ (op[s] = "gate" /\ pc[s] \in {"bench", "skill"})
    /\ op[s] = "revert" /\ pc[s] \in {"audit", "commit"} =>
          SkillRow(SkillOf[subject[s]]) \in held[s] /\ head[SkillOf[subject[s]]] = seen[s]
    /\ op[s] = "gate" /\ pc[s] = "commit" /\ arg[s] = "pass" =>
          SkillRow(SkillOf[subject[s]]) \in held[s]
UnderLockInv == \A s \in Session : Under(s)

\* A proposal that is being created is nobody else's yet; one that is decided
\* on exists.
FreshInv ==
    \A s \in Session :
        /\ op[s] \in RowLocking => pstate[subject[s]] # "absent"
        /\ op[s] \in Creating =>
              /\ pstate[subject[s]] = "absent"
              /\ \A t \in Session : t # s /\ op[t] \in Creating => subject[t] # subject[s]

\* The entries are numbered in the order they were committed.
LogInv == \A i \in DOMAIN log : log[i].seq = i

-----------------------------------------------------------------------------
\* What Append does to a sequence.
LEMMA AppendFacts ==
    ASSUME NEW T, NEW q \in Seq(T), NEW e \in T
    PROVE  /\ Append(q, e) \in Seq(T)
           /\ Len(Append(q, e)) = Len(q) + 1
           /\ \A i \in 1..Len(q) : Append(q, e)[i] = q[i]
           /\ Append(q, e)[Len(q) + 1] = e
  OBVIOUS

\* A skill proposal has a skill.
LEMMA SkillFacts ==
    /\ \A p \in Skills : SkillOf[p] \in Skill /\ p \in Proposal
    /\ \A v \in Version : SkillOf[v] # None => SkillOf[v] \in Skill
    /\ \A p \in Proposal : SkillOf[p] # None <=> p \in Skills
    /\ \A p \in Artifact : SkillOf[p] = None /\ SectionOf[p] \in Section /\ p \in Proposal
    /\ Proposal \subseteq Version
  BY LifecycleAssumption DEF Skills, Artifact, Version

\* Locks exclude each other in both directions.
LEMMA ClashFacts ==
    /\ \A l, m : Clash(l, m) <=> Clash(m, l)
    /\ \A p : Clash(Row(p), Row(p))
    /\ \A k : Clash(SkillRow(k), SkillRow(k))
    /\ Clash(AuditChain, AuditChain)
  <1>1. ASSUME NEW l, NEW m PROVE Clash(l, m) <=> Clash(m, l)
    BY DEF Clash
  <1>2. QED
    BY <1>1 DEF Clash, Row, SkillRow, AuditChain

\* A transaction that ends without a commit leaves nothing behind.
LEMMA EndsSession ==
    ASSUME TypeOK, SessionInv, NEW s \in Session, Ends(s), UNCHANGED rowVars
    PROVE  SessionInv'
  BY SkillFacts DEF Ends, LocksKept, SessionInv, TypeOK, RowLocking

\* Every step keeps SessionInv.
LEMMA SessionStep ==
    ASSUME TypeOK, SessionInv, Next \/ UNCHANGED vars
    PROVE  SessionInv'
  <1>1. ASSUME NEW s \in Session, NEW p \in Proposal, BeginGate(s, p) PROVE SessionInv'
    BY <1>1, SkillFacts
    DEF BeginGate, Begin, Goto, Fresh, SessionInv, TypeOK, RowLocking, Verdict, Decision
  <1>2. ASSUME NEW s \in Session, NEW p \in Proposal, BeginRunner(s, p) PROVE SessionInv'
    BY <1>2, SkillFacts
    DEF BeginRunner, Begin, Goto, Fresh, SessionInv, TypeOK, RowLocking, Verdict, Decision
  <1>3. ASSUME NEW s \in Session, NEW p \in Proposal, BeginPropose(s, p) PROVE SessionInv'
    BY <1>3, SkillFacts
    DEF BeginPropose, Begin, Goto, Fresh, SessionInv, TypeOK, RowLocking, Verdict, Decision
  <1>4. ASSUME NEW s \in Session, NEW p \in Proposal, NEW v \in Decision \cup {"reject-comment"}, BeginDecision(s, p, v) PROVE SessionInv'
    BY <1>4, SkillFacts
    DEF BeginDecision, Begin, Goto, SessionInv, TypeOK, RowLocking, Verdict, Decision
  <1>5. ASSUME NEW s \in Session, NEW p \in Proposal, NEW o \in {"deploy", "rollback"}, BeginDeploy(s, p, o) PROVE SessionInv'
    BY <1>5, SkillFacts
    DEF BeginDeploy, Begin, Goto, SessionInv, TypeOK, RowLocking, Verdict, Decision
  <1>6. ASSUME NEW s \in Session, NEW v \in Version, BeginRevert(s, v) PROVE SessionInv'
    BY <1>6, SkillFacts
    DEF BeginRevert, Begin, Goto, SessionInv, TypeOK, RowLocking, Verdict, Decision
  <1>7. ASSUME NEW s \in Session, LockWorkflow(s) PROVE SessionInv'
    BY <1>7, SkillFacts
    DEF LockWorkflow, Goto, SessionInv, TypeOK, RowLocking, Verdict, Decision, Locks
  <1>8. ASSUME NEW s \in Session, InsertTraces(s) PROVE SessionInv'
    BY <1>8, SkillFacts
    DEF InsertTraces, Goto, SessionInv, TypeOK, RowLocking, Verdict, Decision, Locks
  <1>9. ASSUME NEW s \in Session, AuditClusters(s) PROVE SessionInv'
    BY <1>9, SkillFacts
    DEF AuditClusters, Goto, SessionInv, TypeOK, RowLocking, Verdict, Decision, Locks
  <1>10. ASSUME NEW s \in Session, LockRow(s) PROVE SessionInv'
    <2>1. CASE Admits(s)
      <3>1. /\ op[s] \in RowLocking /\ subject[s] \in Proposal /\ pc[s] = "row"
            /\ pc' = [pc EXCEPT ![s] = AfterRow(s)]
            /\ UNCHANGED <<op, subject, arg, seen, draft, seq>>
            /\ \A t \in Session : t # s => held'[t] = held[t]
        BY <1>10, <2>1 DEF LockRow, Goto, Locks, SessionInv, TypeOK
      <3>2. op[s] = "decide" => AfterRow(s) \in {"seed", "audit"}
        BY DEF AfterRow
      <3>3. op[s] = "deploy" => \/ subject[s] \in Skills /\ AfterRow(s) = "other"
                                \/ subject[s] \in Artifact /\ AfterRow(s) = "apply"
        BY <3>1 DEF AfterRow, Artifact
      <3>4. op[s] = "rollback" => subject[s] \in Skills /\ AfterRow(s) = "prior"
        BY <2>1 DEF AfterRow, Admits
      <3>5. QED
        BY <3>1, <3>2, <3>3, <3>4 DEF SessionInv, TypeOK, RowLocking
    <2>2. CASE ~Admits(s)
      BY <1>10, <2>2, EndsSession DEF LockRow
    <2>3. QED
      BY <2>1, <2>2
  <1>11. ASSUME NEW s \in Session, SeedEvalCase(s) PROVE SessionInv'
    BY <1>11, SkillFacts
    DEF SeedEvalCase, Goto, SessionInv, TypeOK, RowLocking, Verdict, Decision, Locks
  <1>12. ASSUME NEW s \in Session, CheckOther(s) PROVE SessionInv'
    <2>1. CASE OtherLive(subject[s])
      BY <1>12, <2>1, EndsSession DEF CheckOther
    <2>2. CASE ~OtherLive(subject[s])
      BY <1>12, <2>2, SkillFacts
      DEF CheckOther, Goto, SessionInv, TypeOK, RowLocking, Verdict, Decision
    <2>3. QED
      BY <2>1, <2>2
  <1>13. ASSUME NEW s \in Session, ReadPrior(s) PROVE SessionInv'
    BY <1>13, SkillFacts
    DEF ReadPrior, Goto, Then, SessionInv, TypeOK, RowLocking, Verdict, Decision
  <1>14. ASSUME NEW s \in Session, ReadSpec(s) PROVE SessionInv'
    BY <1>14, SkillFacts
    DEF ReadSpec, Goto, SessionInv, TypeOK, RowLocking, Verdict, Decision
  <1>15. ASSUME NEW s \in Session, WriteSpec(s) PROVE SessionInv'
    BY <1>15, SkillFacts
    DEF WriteSpec, Goto, SessionInv, TypeOK, RowLocking, Verdict, Decision, Locks
  <1>16. ASSUME NEW s \in Session, LockSkill(s) PROVE SessionInv'
    <2>1. CASE HeadUnmoved(s)
      BY <1>16, <2>1, SkillFacts
      DEF LockSkill, Goto, Then, Locks, HeadUnmoved, SessionInv, TypeOK, RowLocking, Verdict, Decision
    <2>2. CASE ~HeadUnmoved(s)
      BY <1>16, <2>2, EndsSession DEF LockSkill
    <2>3. QED
      BY <2>1, <2>2
  <1>17. ASSUME NEW s \in Session, WriteAudit(s) PROVE SessionInv'
    BY <1>17, SkillFacts
    DEF WriteAudit, Goto, Then, SessionInv, TypeOK, RowLocking, Verdict, Decision, Locks
  <1>18. ASSUME NEW s \in Session, NEW verdict \in Verdict, RunBenchmark(s, verdict) PROVE SessionInv'
    BY <1>18, SkillFacts
    DEF RunBenchmark, Goto, SessionInv, TypeOK, RowLocking, Verdict, Decision
  <1>19. ASSUME NEW s \in Session, CommitGate(s) PROVE SessionInv'
    BY <1>19, SkillFacts
    DEF CommitGate, Commits, Ends, LocksKept, SessionInv, TypeOK, RowLocking, Verdict, Decision
  <1>20. ASSUME NEW s \in Session, CommitProposal(s) PROVE SessionInv'
    BY <1>20, SkillFacts
    DEF CommitProposal, Commits, Ends, LocksKept, SessionInv, TypeOK, RowLocking, Verdict, Decision
  <1>21. ASSUME NEW s \in Session, CommitDecision(s) PROVE SessionInv'
    BY <1>21, SkillFacts
    DEF CommitDecision, Commits, Ends, LocksKept, SessionInv, TypeOK, RowLocking, Verdict, Decision
  <1>22. ASSUME NEW s \in Session, CommitDeploy(s) PROVE SessionInv'
    BY <1>22, SkillFacts
    DEF CommitDeploy, Commits, Ends, LocksKept, SessionInv, TypeOK, RowLocking, Verdict, Decision
  <1>23. ASSUME NEW s \in Session, CommitRollback(s) PROVE SessionInv'
    BY <1>23, SkillFacts
    DEF CommitRollback, Commits, Ends, LocksKept, SessionInv, TypeOK, RowLocking, Verdict, Decision
  <1>24. ASSUME NEW s \in Session, CommitArtifact(s) PROVE SessionInv'
    BY <1>24, SkillFacts
    DEF CommitArtifact, Commits, Ends, LocksKept, SessionInv, TypeOK, RowLocking, Verdict, Decision
  <1>25. ASSUME NEW s \in Session, CommitRevert(s) PROVE SessionInv'
    BY <1>25, SkillFacts
    DEF CommitRevert, Commits, Ends, LocksKept, SessionInv, TypeOK, RowLocking, Verdict, Decision
  <1>26. ASSUME NEW s \in Session, DeadlockAbort(s) PROVE SessionInv'
    BY <1>26, EndsSession DEF DeadlockAbort
  <1>27. ASSUME NEW s \in Session, Abort(s) PROVE SessionInv'
    BY <1>27, EndsSession DEF Abort
  <1>28. ASSUME UNCHANGED vars PROVE SessionInv'
    BY <1>28 DEF vars, SessionInv, TypeOK, RowLocking, Verdict, Decision
  <1>29. QED
    BY <1>1, <1>2, <1>3, <1>4, <1>5, <1>6, <1>7, <1>8, <1>9, <1>10, <1>11, <1>12, <1>13, <1>14, <1>15, <1>16, <1>17, <1>18, <1>19, <1>20, <1>21, <1>22, <1>23, <1>24, <1>25, <1>26, <1>27, <1>28
    DEF Next, Request, Statement, Commit

\* A statement waits for locks that exist.
LEMMA WantsFacts ==
    ASSUME TypeOK, SessionInv, NEW s \in Session
    PROVE  Wants(s) \subseteq Lock
  <1>1. pc[s] = "row" => Row(subject[s]) \in Lock
    BY DEF SessionInv, RowLocking, Lock
  <1>2. pc[s] = "skill" => SkillRow(SkillOf[subject[s]]) \in Lock
    BY SkillFacts DEF SessionInv, Lock
  <1>3. /\ AuditChain \in Lock
        /\ \A m \in {"X", "N", "S"} : Workflow(m) \in Lock
    BY DEF Lock
  <1>4. QED
    BY <1>1, <1>2, <1>3 DEF Wants

\* Every entry of the log has its fields.
LEMMA EntryFacts ==
    ASSUME TypeOK PROVE \A i \in DOMAIN log : log[i] \in Entry
  <1>1. log \in Seq(Entry)
    BY DEF TypeOK
  <1>2. QED
    BY <1>1

\* The next seq is a number.
LEMMA NextSeqType ==
    ASSUME TypeOK PROVE NextSeq \in Nat
  <1> DEFINE D == {s \in Session : seq[s] # 0}
  <1>1. IsFiniteSet(Session)
    BY LifecycleAssumption
  <1>2. IsFiniteSet(D)
    <2>1. D \subseteq Session
      OBVIOUS
    <2>2. QED
      BY <1>1, <2>1, FS_Subset
  <1>3. Cardinality(D) \in Nat
    BY <1>2, FS_CardinalityType
  <1>4. Len(log) \in Nat
    BY DEF TypeOK
  <1> HIDE DEF D
  <1>5. Len(log) + 1 + Cardinality(D) \in Nat
    BY <1>3, <1>4
  <1>6. QED
    BY <1>5 DEF NextSeq, D

\* What a statement that takes a lock does to the locks.
LEMMA LocksFacts ==
    ASSUME TypeOK, SessionInv, LockInv, NEW s \in Session, Locks(s)
    PROVE  LockInv' /\ held' \in [Session -> SUBSET Lock]
  <1>1. /\ held'[s] = held[s] \cup Wants(s)
        /\ \A t \in Session : t # s => held'[t] = held[t]
        /\ held' \in [Session -> SUBSET Lock]
    BY WantsFacts DEF Locks, TypeOK
  <1>2. \A t \in Session : t # s => \A l \in Wants(s), m \in held[t] : ~Clash(l, m)
    BY DEF Locks, WaitsFor
  <1>3. ASSUME NEW t \in Session, NEW u \in Session, t # u, NEW l \in held'[t], NEW m \in held'[u]
        PROVE ~Clash(l, m)
    <2>1. CASE t = s
      BY <1>1, <1>2, <1>3, <2>1 DEF LockInv
    <2>2. CASE u = s
      BY <1>1, <1>2, <1>3, <2>2, ClashFacts DEF LockInv
    <2>3. CASE t # s /\ u # s
      BY <1>1, <1>3, <2>3 DEF LockInv
    <2>4. QED
      BY <2>1, <2>2, <2>3
  <1>4. QED
    BY <1>1, <1>3 DEF LockInv

\* A transaction that ends lets its locks go.
LEMMA EndsLocks ==
    ASSUME TypeOK, LockInv, NEW s \in Session, Ends(s)
    PROVE  LockInv'
  BY DEF Ends, LocksKept, LockInv, TypeOK

\* Every step keeps LockInv.
LEMMA LockStep ==
    ASSUME TypeOK, SessionInv, LockInv, Next \/ UNCHANGED vars
    PROVE  LockInv'
  <1>1. ASSUME NEW s \in Session, NEW p \in Proposal, BeginGate(s, p) PROVE LockInv'
    BY <1>1 DEF BeginGate, Begin, LockInv
  <1>2. ASSUME NEW s \in Session, NEW p \in Proposal, BeginRunner(s, p) PROVE LockInv'
    BY <1>2 DEF BeginRunner, Begin, LockInv
  <1>3. ASSUME NEW s \in Session, NEW p \in Proposal, BeginPropose(s, p) PROVE LockInv'
    BY <1>3 DEF BeginPropose, Begin, LockInv
  <1>4. ASSUME NEW s \in Session, NEW p \in Proposal, NEW v \in Decision \cup {"reject-comment"}, BeginDecision(s, p, v) PROVE LockInv'
    BY <1>4 DEF BeginDecision, Begin, LockInv
  <1>5. ASSUME NEW s \in Session, NEW p \in Proposal, NEW o \in {"deploy", "rollback"}, BeginDeploy(s, p, o) PROVE LockInv'
    BY <1>5 DEF BeginDeploy, Begin, LockInv
  <1>6. ASSUME NEW s \in Session, NEW v \in Version, BeginRevert(s, v) PROVE LockInv'
    BY <1>6 DEF BeginRevert, Begin, LockInv
  <1>7. ASSUME NEW s \in Session, LockWorkflow(s) PROVE LockInv'
    BY <1>7, LocksFacts DEF LockWorkflow
  <1>8. ASSUME NEW s \in Session, InsertTraces(s) PROVE LockInv'
    BY <1>8, LocksFacts DEF InsertTraces
  <1>9. ASSUME NEW s \in Session, AuditClusters(s) PROVE LockInv'
    BY <1>9, LocksFacts DEF AuditClusters
  <1>10. ASSUME NEW s \in Session, LockRow(s) PROVE LockInv'
    BY <1>10, LocksFacts, EndsLocks DEF LockRow
  <1>11. ASSUME NEW s \in Session, SeedEvalCase(s) PROVE LockInv'
    BY <1>11, LocksFacts DEF SeedEvalCase
  <1>12. ASSUME NEW s \in Session, CheckOther(s) PROVE LockInv'
    BY <1>12, EndsLocks DEF CheckOther, LockInv
  <1>13. ASSUME NEW s \in Session, ReadPrior(s) PROVE LockInv'
    BY <1>13 DEF ReadPrior, Goto, LockInv
  <1>14. ASSUME NEW s \in Session, ReadSpec(s) PROVE LockInv'
    BY <1>14 DEF ReadSpec, Goto, LockInv
  <1>15. ASSUME NEW s \in Session, WriteSpec(s) PROVE LockInv'
    BY <1>15, LocksFacts DEF WriteSpec
  <1>16. ASSUME NEW s \in Session, LockSkill(s) PROVE LockInv'
    BY <1>16, LocksFacts, EndsLocks DEF LockSkill
  <1>17. ASSUME NEW s \in Session, WriteAudit(s) PROVE LockInv'
    BY <1>17, LocksFacts DEF WriteAudit
  <1>18. ASSUME NEW s \in Session, NEW verdict \in Verdict, RunBenchmark(s, verdict) PROVE LockInv'
    BY <1>18 DEF RunBenchmark, Goto, LockInv
  <1>19. ASSUME NEW s \in Session, CommitGate(s) PROVE LockInv'
    BY <1>19, EndsLocks DEF CommitGate, Commits
  <1>20. ASSUME NEW s \in Session, CommitProposal(s) PROVE LockInv'
    BY <1>20, EndsLocks DEF CommitProposal, Commits
  <1>21. ASSUME NEW s \in Session, CommitDecision(s) PROVE LockInv'
    BY <1>21, EndsLocks DEF CommitDecision, Commits
  <1>22. ASSUME NEW s \in Session, CommitDeploy(s) PROVE LockInv'
    BY <1>22, EndsLocks DEF CommitDeploy, Commits
  <1>23. ASSUME NEW s \in Session, CommitRollback(s) PROVE LockInv'
    BY <1>23, EndsLocks DEF CommitRollback, Commits
  <1>24. ASSUME NEW s \in Session, CommitArtifact(s) PROVE LockInv'
    BY <1>24, EndsLocks DEF CommitArtifact, Commits
  <1>25. ASSUME NEW s \in Session, CommitRevert(s) PROVE LockInv'
    BY <1>25, EndsLocks DEF CommitRevert, Commits
  <1>26. ASSUME NEW s \in Session, DeadlockAbort(s) PROVE LockInv'
    BY <1>26, EndsLocks DEF DeadlockAbort
  <1>27. ASSUME NEW s \in Session, Abort(s) PROVE LockInv'
    BY <1>27, EndsLocks DEF Abort
  <1>28. ASSUME UNCHANGED vars PROVE LockInv'
    BY <1>28 DEF vars, LockInv
  <1>29. QED
    BY <1>1, <1>2, <1>3, <1>4, <1>5, <1>6, <1>7, <1>8, <1>9, <1>10, <1>11, <1>12, <1>13, <1>14, <1>15, <1>16, <1>17, <1>18, <1>19, <1>20, <1>21, <1>22, <1>23, <1>24, <1>25, <1>26, <1>27, <1>28
    DEF Next, Request, Statement, Commit

\* A transaction that ends leaves its session well typed.
LEMMA EndsTypes ==
    ASSUME TypeOK, NEW s \in Session, Ends(s)
    PROVE  /\ op' \in [Session -> Op] /\ subject' \in [Session -> Version \cup {None}]
           /\ arg' \in [Session -> Verdict \cup Decision \cup {"reject-comment", None}]
           /\ pc' \in [Session -> PC] /\ seen' \in [Session -> Version \cup {None}]
           /\ draft' \in [Session -> Views] /\ read' \in [Session -> Nat] /\ seq' \in [Session -> Nat]
           /\ held' \in [Session -> SUBSET Lock]
  BY DEF Ends, LocksKept, TypeOK, Op, PC, Views, NoViews

\* A commit appends a well-typed entry.
LEMMA CommitTypes ==
    ASSUME TypeOK, SessionInv, NEW s \in Session, op[s] # "none",
           NEW version \in Version \cup {None}, NEW prior \in Version \cup {None},
           Commits(s, version, prior)
    PROVE  log' \in Seq(Entry)
  <1> DEFINE e == [seq |-> seq[s], kind |-> op[s], about |-> subject[s],
                   verdict |-> Ruling(arg[s]), version |-> version, prior |-> prior, read |-> read[s]]
  <1>1. subject[s] \in Version
    BY SkillFacts DEF SessionInv, TypeOK, Op, RowLocking
  <1>2. Ruling(arg[s]) \in Verdict \cup Decision \cup {None}
    BY DEF Ruling, TypeOK, Decision
  <1>3. e \in Entry
    BY <1>1, <1>2 DEF Entry, TypeOK
  <1>4. log' = Append(log, e)
    BY DEF Commits
  <1>5. QED
    BY <1>3, <1>4, AppendFacts DEF TypeOK

\* Every step keeps the types.
LEMMA TypeStep ==
    ASSUME TypeOK, SessionInv, LockInv, Next \/ UNCHANGED vars
    PROVE  TypeOK'
  <1>1. ASSUME NEW s \in Session, NEW p \in Proposal, BeginGate(s, p) PROVE TypeOK'
    BY <1>1, SkillFacts
    DEF BeginGate, Begin, Goto, Fresh, TypeOK, rowVars, PC, Op, SessionInv, RowLocking
  <1>2. ASSUME NEW s \in Session, NEW p \in Proposal, BeginRunner(s, p) PROVE TypeOK'
    BY <1>2, SkillFacts
    DEF BeginRunner, Begin, Goto, Fresh, TypeOK, rowVars, PC, Op, SessionInv, RowLocking
  <1>3. ASSUME NEW s \in Session, NEW p \in Proposal, BeginPropose(s, p) PROVE TypeOK'
    BY <1>3, SkillFacts
    DEF BeginPropose, Begin, Goto, Fresh, TypeOK, rowVars, PC, Op, SessionInv, RowLocking
  <1>4. ASSUME NEW s \in Session, NEW p \in Proposal, NEW v \in Decision \cup {"reject-comment"}, BeginDecision(s, p, v) PROVE TypeOK'
    BY <1>4, SkillFacts
    DEF BeginDecision, Begin, Goto, TypeOK, rowVars, PC, Op, SessionInv, RowLocking
  <1>5. ASSUME NEW s \in Session, NEW p \in Proposal, NEW o \in {"deploy", "rollback"}, BeginDeploy(s, p, o) PROVE TypeOK'
    BY <1>5, SkillFacts
    DEF BeginDeploy, Begin, Goto, TypeOK, rowVars, PC, Op, SessionInv, RowLocking
  <1>6. ASSUME NEW s \in Session, NEW v \in Version, BeginRevert(s, v) PROVE TypeOK'
    BY <1>6, SkillFacts
    DEF BeginRevert, Begin, Goto, TypeOK, rowVars, PC, Op, SessionInv, RowLocking
  <1>7. ASSUME NEW s \in Session, LockWorkflow(s) PROVE TypeOK'
    BY <1>7, SkillFacts, LocksFacts
    DEF LockWorkflow, Goto, TypeOK, rowVars, PC, Op, SessionInv, RowLocking
  <1>8. ASSUME NEW s \in Session, InsertTraces(s) PROVE TypeOK'
    <2>1. PICK next \in {"clusters", "skill"} : pc' = [pc EXCEPT ![s] = next]
      BY <1>8 DEF InsertTraces, Goto
    <2>2. QED
      BY <1>8, <2>1, LocksFacts DEF InsertTraces, TypeOK, rowVars, PC
  <1>9. ASSUME NEW s \in Session, AuditClusters(s) PROVE TypeOK'
    BY <1>9, SkillFacts, LocksFacts
    DEF AuditClusters, Goto, TypeOK, rowVars, PC, Op, SessionInv, RowLocking
  <1>10. ASSUME NEW s \in Session, LockRow(s) PROVE TypeOK'
    <2>1. CASE Admits(s)
      BY <1>10, <2>1, LocksFacts, ZenonT(60) DEF LockRow, Goto, AfterRow, TypeOK, rowVars, PC, SessionInv, RowLocking
    <2>2. CASE ~Admits(s)
      BY <1>10, <2>2, EndsTypes DEF LockRow, TypeOK, rowVars
    <2>3. QED
      BY <2>1, <2>2
  <1>11. ASSUME NEW s \in Session, SeedEvalCase(s) PROVE TypeOK'
    BY <1>11, SkillFacts, LocksFacts
    DEF SeedEvalCase, Goto, TypeOK, rowVars, PC, Op, SessionInv, RowLocking
  <1>12. ASSUME NEW s \in Session, CheckOther(s) PROVE TypeOK'
    <2>1. CASE ~OtherLive(subject[s])
      <3>1. Len(log) \in Nat
        BY DEF TypeOK
      <3>2. read' \in [Session -> Nat] /\ pc' \in [Session -> PC]
        BY <1>12, <2>1, <3>1 DEF CheckOther, Reads, Goto, TypeOK, PC
      <3>3. QED
        BY <1>12, <2>1, <3>2 DEF CheckOther, TypeOK, rowVars
    <2>2. CASE OtherLive(subject[s])
      BY <1>12, <2>2, EndsTypes DEF CheckOther, Reads, TypeOK, rowVars
    <2>3. QED
      BY <2>1, <2>2
  <1>13. ASSUME NEW s \in Session, ReadPrior(s) PROVE TypeOK'
    <2>1. PICK v \in IF op[s] = "deploy" THEN {LiveVersion(subject[s])}
                      ELSE PriorDeployment(subject[s]) :
               seen' = [seen EXCEPT ![s] = v]
      BY <1>13 DEF ReadPrior
    <2>2. v \in Version \cup {None}
      <3>1. \A i \in DOMAIN log : log[i].about \in Version
        BY EntryFacts DEF Entry
      <3>2. Latest(PriorEntries(subject[s])) \subseteq DOMAIN log
        BY DEF Latest, PriorEntries
      <3>3. PriorDeployment(subject[s]) \subseteq Version \cup {None}
        <4>1. \A i \in Latest(PriorEntries(subject[s])) : log[i].about \in Version
          BY <3>1, <3>2
        <4>2. CASE PriorEntries(subject[s]) = {}
          BY <4>2 DEF PriorDeployment
        <4>3. CASE PriorEntries(subject[s]) # {}
          BY <4>1, <4>3 DEF PriorDeployment
        <4>4. QED
          BY <4>2, <4>3
      <3>4. op[s] = "deploy" => LiveVersion(subject[s]) \in Version \cup {None}
        BY <1>13, SkillFacts DEF ReadPrior, Reads, LiveVersion, SessionInv, TypeOK
      <3>5. QED
        BY <2>1, <3>3, <3>4
    <2>3. Then(s) \in PC
      BY <1>13 DEF ReadPrior, Reads, Then, PC
    <2>4. QED
      BY <1>13, <2>1, <2>2, <2>3 DEF ReadPrior, Reads, Goto, TypeOK, rowVars
  <1>14. ASSUME NEW s \in Session, ReadSpec(s) PROVE TypeOK'
    <2>1. subject[s] \in Artifact
      BY <1>14 DEF ReadSpec, Reads, SessionInv
    <2>2. [spec EXCEPT ![SectionOf[subject[s]]] = subject[s]] \in Views
      BY <2>1, SkillFacts DEF TypeOK, Views
    <2>3. draft' \in [Session -> Views]
      BY <1>14, <2>2 DEF ReadSpec, Reads, TypeOK
    <2>4. QED
      BY <1>14, <2>3 DEF ReadSpec, Reads, Goto, TypeOK, rowVars, PC
  <1>15. ASSUME NEW s \in Session, WriteSpec(s) PROVE TypeOK'
    BY <1>15, SkillFacts, LocksFacts
    DEF WriteSpec, Goto, TypeOK, rowVars, PC, Op, SessionInv, RowLocking
  <1>16. ASSUME NEW s \in Session, LockSkill(s) PROVE TypeOK'
    <2>1. CASE HeadUnmoved(s)
      BY <1>16, <2>1, LocksFacts DEF LockSkill, Goto, Then, HeadUnmoved, TypeOK, rowVars, PC, SessionInv, RowLocking
    <2>2. CASE ~HeadUnmoved(s)
      BY <1>16, <2>2, EndsTypes DEF LockSkill, TypeOK, rowVars
    <2>3. QED
      BY <2>1, <2>2
  <1>17. ASSUME NEW s \in Session, WriteAudit(s) PROVE TypeOK'
    <2>1. NextSeq \in Nat
      BY NextSeqType
    <2>2. Then(s) \in PC
      BY <1>17 DEF WriteAudit, Then, PC
    <2>3. QED
      BY <1>17, <2>1, <2>2, LocksFacts DEF WriteAudit, Goto, TypeOK, rowVars
  <1>18. ASSUME NEW s \in Session, NEW verdict \in Verdict, RunBenchmark(s, verdict) PROVE TypeOK'
    BY <1>18, SkillFacts
    DEF RunBenchmark, Goto, TypeOK, rowVars, PC, Op, SessionInv, RowLocking
  <1>19. ASSUME NEW s \in Session, CommitGate(s) PROVE TypeOK'
    <2>1. log' \in Seq(Entry)
      BY <1>19, CommitTypes, SkillFacts DEF CommitGate, SessionInv, TypeOK, RowLocking
    <2>2. Ends(s)
      BY <1>19 DEF CommitGate, Commits
    <2>3. /\ pstate' \in [Proposal -> State] /\ approval' \in [Proposal -> Decision \cup {None}]
          /\ head' \in [Skill -> Version] /\ live' \in [Skill -> Version \cup {None}]
          /\ spec' \in Views
      BY <1>19, SkillFacts DEF CommitGate, Commits, SessionInv, TypeOK, RowLocking, State, Decision, AfterGate, HeadAfterGate, Verdict
    <2>4. QED
      BY <2>1, <2>2, <2>3, EndsTypes DEF TypeOK
  <1>20. ASSUME NEW s \in Session, CommitProposal(s) PROVE TypeOK'
    <2>1. log' \in Seq(Entry)
      BY <1>20, CommitTypes, SkillFacts DEF CommitProposal, SessionInv, TypeOK, RowLocking
    <2>2. Ends(s)
      BY <1>20 DEF CommitProposal, Commits
    <2>3. /\ pstate' \in [Proposal -> State] /\ approval' \in [Proposal -> Decision \cup {None}]
          /\ head' \in [Skill -> Version] /\ live' \in [Skill -> Version \cup {None}]
          /\ spec' \in Views
      BY <1>20, SkillFacts DEF CommitProposal, Commits, SessionInv, TypeOK, RowLocking, State, Decision
    <2>4. QED
      BY <2>1, <2>2, <2>3, EndsTypes DEF TypeOK
  <1>21. ASSUME NEW s \in Session, CommitDecision(s) PROVE TypeOK'
    <2>1. log' \in Seq(Entry)
      BY <1>21, CommitTypes, SkillFacts DEF CommitDecision, SessionInv, TypeOK, RowLocking
    <2>2. Ends(s)
      BY <1>21 DEF CommitDecision, Commits
    <2>3. /\ pstate' \in [Proposal -> State] /\ approval' \in [Proposal -> Decision \cup {None}]
          /\ head' \in [Skill -> Version] /\ live' \in [Skill -> Version \cup {None}]
          /\ spec' \in Views
      BY <1>21, SkillFacts DEF CommitDecision, Commits, SessionInv, TypeOK, RowLocking, State, Decision, AfterDecision, Ruling
    <2>4. QED
      BY <2>1, <2>2, <2>3, EndsTypes DEF TypeOK
  <1>22. ASSUME NEW s \in Session, CommitDeploy(s) PROVE TypeOK'
    <2>1. log' \in Seq(Entry)
      BY <1>22, CommitTypes, SkillFacts DEF CommitDeploy, SessionInv, TypeOK, RowLocking
    <2>2. Ends(s)
      BY <1>22 DEF CommitDeploy, Commits
    <2>3. /\ pstate' \in [Proposal -> State] /\ approval' \in [Proposal -> Decision \cup {None}]
          /\ head' \in [Skill -> Version] /\ live' \in [Skill -> Version \cup {None}]
          /\ spec' \in Views
      BY <1>22, SkillFacts DEF CommitDeploy, Commits, SessionInv, TypeOK, RowLocking, State, Decision
    <2>4. QED
      BY <2>1, <2>2, <2>3, EndsTypes DEF TypeOK
  <1>23. ASSUME NEW s \in Session, CommitRollback(s) PROVE TypeOK'
    <2>1. log' \in Seq(Entry)
      BY <1>23, CommitTypes, SkillFacts DEF CommitRollback, SessionInv, TypeOK, RowLocking
    <2>2. Ends(s)
      BY <1>23 DEF CommitRollback, Commits
    <2>3. /\ pstate' \in [Proposal -> State] /\ approval' \in [Proposal -> Decision \cup {None}]
          /\ head' \in [Skill -> Version] /\ live' \in [Skill -> Version \cup {None}]
          /\ spec' \in Views
      BY <1>23, SkillFacts DEF CommitRollback, Commits, SessionInv, TypeOK, RowLocking, State, Decision
    <2>4. QED
      BY <2>1, <2>2, <2>3, EndsTypes DEF TypeOK
  <1>24. ASSUME NEW s \in Session, CommitArtifact(s) PROVE TypeOK'
    <2>1. log' \in Seq(Entry)
      BY <1>24, CommitTypes, SkillFacts DEF CommitArtifact, SessionInv, TypeOK, RowLocking
    <2>2. Ends(s)
      BY <1>24 DEF CommitArtifact, Commits
    <2>3. /\ pstate' \in [Proposal -> State] /\ approval' \in [Proposal -> Decision \cup {None}]
          /\ head' \in [Skill -> Version] /\ live' \in [Skill -> Version \cup {None}]
          /\ spec' \in Views
      BY <1>24, SkillFacts DEF CommitArtifact, Commits, SessionInv, TypeOK, RowLocking, State, Decision, Written
    <2>4. QED
      BY <2>1, <2>2, <2>3, EndsTypes DEF TypeOK
  <1>25. ASSUME NEW s \in Session, CommitRevert(s) PROVE TypeOK'
    <2>1. log' \in Seq(Entry)
      BY <1>25, CommitTypes, SkillFacts DEF CommitRevert, SessionInv, TypeOK, RowLocking
    <2>2. Ends(s)
      BY <1>25 DEF CommitRevert, Commits
    <2>3. /\ pstate' \in [Proposal -> State] /\ approval' \in [Proposal -> Decision \cup {None}]
          /\ head' \in [Skill -> Version] /\ live' \in [Skill -> Version \cup {None}]
          /\ spec' \in Views
      BY <1>25, SkillFacts DEF CommitRevert, Commits, SessionInv, TypeOK, RowLocking, State, Decision
    <2>4. QED
      BY <2>1, <2>2, <2>3, EndsTypes DEF TypeOK
  <1>26. ASSUME NEW s \in Session, DeadlockAbort(s) PROVE TypeOK'
    BY <1>26, EndsTypes DEF DeadlockAbort, TypeOK, rowVars
  <1>27. ASSUME NEW s \in Session, Abort(s) PROVE TypeOK'
    BY <1>27, EndsTypes DEF Abort, TypeOK, rowVars
  <1>28. ASSUME UNCHANGED vars PROVE TypeOK'
    BY <1>28 DEF vars, TypeOK, rowVars, PC, Op, SessionInv, RowLocking
  <1>29. QED
    BY <1>1, <1>2, <1>3, <1>4, <1>5, <1>6, <1>7, <1>8, <1>9, <1>10, <1>11, <1>12, <1>13, <1>14, <1>15, <1>16, <1>17, <1>18, <1>19, <1>20, <1>21, <1>22, <1>23, <1>24, <1>25, <1>26, <1>27, <1>28
    DEF Next, Request, Statement, Commit

-----------------------------------------------------------------------------
\* A step of session s leaves the other sessions where they are.
OthersKept(s) ==
    \A t \in Session \ {s} :
        /\ op'[t] = op[t] /\ subject'[t] = subject[t] /\ arg'[t] = arg[t] /\ pc'[t] = pc[t]
        /\ seen'[t] = seen[t] /\ draft'[t] = draft[t] /\ read'[t] = read[t]
        /\ seq'[t] = seq[t] /\ held'[t] = held[t]

\* A step of a session is its own.
LEMMA Frame ==
    ASSUME TypeOK, SessionInv, NEW s \in Session,
           Request(s) \/ Statement(s) \/ DeadlockAbort(s) \/ Abort(s)
    PROVE  OthersKept(s)
  <1>1. ASSUME NEW p \in Proposal, BeginGate(s, p) PROVE OthersKept(s)
    BY <1>1
    DEF BeginGate, Begin, Goto, Fresh, TypeOK, OthersKept
  <1>2. ASSUME NEW p \in Proposal, BeginRunner(s, p) PROVE OthersKept(s)
    BY <1>2
    DEF BeginRunner, Begin, Goto, Fresh, TypeOK, OthersKept
  <1>3. ASSUME NEW p \in Proposal, BeginPropose(s, p) PROVE OthersKept(s)
    BY <1>3
    DEF BeginPropose, Begin, Goto, Fresh, TypeOK, OthersKept
  <1>4. ASSUME NEW p \in Proposal, NEW v \in Decision \cup {"reject-comment"}, BeginDecision(s, p, v) PROVE OthersKept(s)
    BY <1>4
    DEF BeginDecision, Begin, Goto, TypeOK, OthersKept
  <1>5. ASSUME NEW p \in Proposal, NEW o \in {"deploy", "rollback"}, BeginDeploy(s, p, o) PROVE OthersKept(s)
    BY <1>5
    DEF BeginDeploy, Begin, Goto, TypeOK, OthersKept
  <1>6. ASSUME NEW v \in Version, BeginRevert(s, v) PROVE OthersKept(s)
    BY <1>6
    DEF BeginRevert, Begin, Goto, TypeOK, OthersKept
  <1>7. ASSUME LockWorkflow(s) PROVE OthersKept(s)
    BY <1>7
    DEF LockWorkflow, Goto, TypeOK, OthersKept, Locks
  <1>8. ASSUME InsertTraces(s) PROVE OthersKept(s)
    BY <1>8
    DEF InsertTraces, Goto, TypeOK, OthersKept, Locks
  <1>9. ASSUME AuditClusters(s) PROVE OthersKept(s)
    BY <1>9
    DEF AuditClusters, Goto, TypeOK, OthersKept, Locks
  <1>10. ASSUME LockRow(s) PROVE OthersKept(s)
    BY <1>10
    DEF LockRow, Goto, AfterRow, Ends, LocksKept, TypeOK, OthersKept, Locks
  <1>11. ASSUME SeedEvalCase(s) PROVE OthersKept(s)
    BY <1>11
    DEF SeedEvalCase, Goto, TypeOK, OthersKept, Locks
  <1>12. ASSUME CheckOther(s) PROVE OthersKept(s)
    BY <1>12
    DEF CheckOther, Reads, Goto, Ends, LocksKept, TypeOK, OthersKept
  <1>13. ASSUME ReadPrior(s) PROVE OthersKept(s)
    BY <1>13 DEF ReadPrior, Reads, Goto, TypeOK, OthersKept, rowVars
  <1>14. ASSUME ReadSpec(s) PROVE OthersKept(s)
    BY <1>14
    DEF ReadSpec, Reads, Goto, TypeOK, OthersKept
  <1>15. ASSUME WriteSpec(s) PROVE OthersKept(s)
    BY <1>15
    DEF WriteSpec, Goto, TypeOK, OthersKept, Locks
  <1>16. ASSUME LockSkill(s) PROVE OthersKept(s)
    BY <1>16
    DEF LockSkill, Goto, Then, HeadUnmoved, Ends, LocksKept, TypeOK, OthersKept, Locks
  <1>17. ASSUME WriteAudit(s) PROVE OthersKept(s)
    BY <1>17
    DEF WriteAudit, Goto, Then, TypeOK, OthersKept, Locks
  <1>18. ASSUME NEW verdict \in Verdict, RunBenchmark(s, verdict) PROVE OthersKept(s)
    BY <1>18
    DEF RunBenchmark, Goto, TypeOK, OthersKept
  <1>19. ASSUME CommitGate(s) PROVE OthersKept(s)
    BY <1>19
    DEF CommitGate, Commits, Ends, LocksKept, TypeOK, OthersKept
  <1>20. ASSUME CommitProposal(s) PROVE OthersKept(s)
    BY <1>20
    DEF CommitProposal, Commits, Ends, LocksKept, TypeOK, OthersKept
  <1>21. ASSUME CommitDecision(s) PROVE OthersKept(s)
    BY <1>21
    DEF CommitDecision, Commits, Ends, LocksKept, TypeOK, OthersKept
  <1>22. ASSUME CommitDeploy(s) PROVE OthersKept(s)
    BY <1>22
    DEF CommitDeploy, Commits, Ends, LocksKept, TypeOK, OthersKept
  <1>23. ASSUME CommitRollback(s) PROVE OthersKept(s)
    BY <1>23
    DEF CommitRollback, Commits, Ends, LocksKept, TypeOK, OthersKept
  <1>24. ASSUME CommitArtifact(s) PROVE OthersKept(s)
    BY <1>24
    DEF CommitArtifact, Commits, Ends, LocksKept, TypeOK, OthersKept
  <1>25. ASSUME CommitRevert(s) PROVE OthersKept(s)
    BY <1>25
    DEF CommitRevert, Commits, Ends, LocksKept, TypeOK, OthersKept
  <1>26. ASSUME DeadlockAbort(s) PROVE OthersKept(s)
    BY <1>26
    DEF DeadlockAbort, Ends, LocksKept, TypeOK, OthersKept
  <1>27. ASSUME Abort(s) PROVE OthersKept(s)
    BY <1>27
    DEF Abort, Ends, LocksKept, TypeOK, OthersKept
  <1>28. QED
    BY <1>1, <1>2, <1>3, <1>4, <1>5, <1>6, <1>7, <1>8, <1>9, <1>10, <1>11, <1>12, <1>13, <1>14, <1>15, <1>16, <1>17, <1>18, <1>19, <1>20, <1>21, <1>22, <1>23, <1>24, <1>25, <1>26, <1>27
    DEF Request, Statement, Commit

\* Only a commit writes rows.
LEMMA OnlyCommitsWrite ==
    ASSUME TypeOK, NEW s \in Session,
           Request(s) \/ Statement(s) \/ DeadlockAbort(s) \/ Abort(s)
    PROVE  Commit(s) \/ UNCHANGED rowVars
  <1>1. ASSUME NEW p \in Proposal, BeginGate(s, p) PROVE Commit(s) \/ UNCHANGED rowVars
    BY <1>1 DEF BeginGate, Begin, rowVars
  <1>2. ASSUME NEW p \in Proposal, BeginRunner(s, p) PROVE Commit(s) \/ UNCHANGED rowVars
    BY <1>2 DEF BeginRunner, Begin, rowVars
  <1>3. ASSUME NEW p \in Proposal, BeginPropose(s, p) PROVE Commit(s) \/ UNCHANGED rowVars
    BY <1>3 DEF BeginPropose, Begin, rowVars
  <1>4. ASSUME NEW p \in Proposal, NEW v \in Decision \cup {"reject-comment"}, BeginDecision(s, p, v) PROVE Commit(s) \/ UNCHANGED rowVars
    BY <1>4 DEF BeginDecision, Begin, rowVars
  <1>5. ASSUME NEW p \in Proposal, NEW o \in {"deploy", "rollback"}, BeginDeploy(s, p, o) PROVE Commit(s) \/ UNCHANGED rowVars
    BY <1>5 DEF BeginDeploy, Begin, rowVars
  <1>6. ASSUME NEW v \in Version, BeginRevert(s, v) PROVE Commit(s) \/ UNCHANGED rowVars
    BY <1>6 DEF BeginRevert, Begin, rowVars
  <1>7. ASSUME LockWorkflow(s) PROVE Commit(s) \/ UNCHANGED rowVars
    BY <1>7 DEF LockWorkflow, rowVars
  <1>8. ASSUME InsertTraces(s) PROVE Commit(s) \/ UNCHANGED rowVars
    BY <1>8 DEF InsertTraces, rowVars
  <1>9. ASSUME AuditClusters(s) PROVE Commit(s) \/ UNCHANGED rowVars
    BY <1>9 DEF AuditClusters, rowVars
  <1>10. ASSUME LockRow(s) PROVE Commit(s) \/ UNCHANGED rowVars
    BY <1>10 DEF LockRow, rowVars
  <1>11. ASSUME SeedEvalCase(s) PROVE Commit(s) \/ UNCHANGED rowVars
    BY <1>11 DEF SeedEvalCase, rowVars
  <1>12. ASSUME CheckOther(s) PROVE Commit(s) \/ UNCHANGED rowVars
    BY <1>12 DEF CheckOther, rowVars
  <1>13. ASSUME ReadPrior(s) PROVE Commit(s) \/ UNCHANGED rowVars
    BY <1>13 DEF ReadPrior, Goto, rowVars
  <1>14. ASSUME ReadSpec(s) PROVE Commit(s) \/ UNCHANGED rowVars
    BY <1>14 DEF ReadSpec, Goto, rowVars
  <1>15. ASSUME WriteSpec(s) PROVE Commit(s) \/ UNCHANGED rowVars
    BY <1>15 DEF WriteSpec, rowVars
  <1>16. ASSUME LockSkill(s) PROVE Commit(s) \/ UNCHANGED rowVars
    BY <1>16 DEF LockSkill, rowVars
  <1>17. ASSUME WriteAudit(s) PROVE Commit(s) \/ UNCHANGED rowVars
    BY <1>17 DEF WriteAudit, rowVars
  <1>18. ASSUME NEW verdict \in Verdict, RunBenchmark(s, verdict) PROVE Commit(s) \/ UNCHANGED rowVars
    BY <1>18 DEF RunBenchmark, Goto, rowVars
  <1>19. ASSUME CommitGate(s) PROVE Commit(s) \/ UNCHANGED rowVars
    BY <1>19 DEF CommitGate, rowVars, Commit
  <1>20. ASSUME CommitProposal(s) PROVE Commit(s) \/ UNCHANGED rowVars
    BY <1>20 DEF CommitProposal, rowVars, Commit
  <1>21. ASSUME CommitDecision(s) PROVE Commit(s) \/ UNCHANGED rowVars
    BY <1>21 DEF CommitDecision, rowVars, Commit
  <1>22. ASSUME CommitDeploy(s) PROVE Commit(s) \/ UNCHANGED rowVars
    BY <1>22 DEF CommitDeploy, rowVars, Commit
  <1>23. ASSUME CommitRollback(s) PROVE Commit(s) \/ UNCHANGED rowVars
    BY <1>23 DEF CommitRollback, rowVars, Commit
  <1>24. ASSUME CommitArtifact(s) PROVE Commit(s) \/ UNCHANGED rowVars
    BY <1>24 DEF CommitArtifact, rowVars, Commit
  <1>25. ASSUME CommitRevert(s) PROVE Commit(s) \/ UNCHANGED rowVars
    BY <1>25 DEF CommitRevert, rowVars, Commit
  <1>26. ASSUME DeadlockAbort(s) PROVE Commit(s) \/ UNCHANGED rowVars
    BY <1>26 DEF DeadlockAbort, rowVars
  <1>27. ASSUME Abort(s) PROVE Commit(s) \/ UNCHANGED rowVars
    BY <1>27 DEF Abort, rowVars
  <1>28. QED
    BY <1>1, <1>2, <1>3, <1>4, <1>5, <1>6, <1>7, <1>8, <1>9, <1>10, <1>11, <1>12, <1>13, <1>14, <1>15, <1>16, <1>17, <1>18, <1>19, <1>20, <1>21, <1>22, <1>23, <1>24, <1>25, <1>26, <1>27
    DEF Request, Statement, Commit

\* What a commit does to the rows.
LEMMA CommitShape ==
    ASSUME TypeOK, SessionInv, NEW s \in Session, Commit(s)
    PROVE  /\ pc[s] = "commit" /\ op[s] # "none" /\ Ends(s)
           /\ Len(log') = Len(log) + 1
           /\ \A i \in 1..Len(log) : log'[i] = log[i]
           /\ log'[Len(log) + 1].seq = seq[s]
           /\ \A p \in Proposal : p # subject[s] \/ op[s] = "revert" => pstate'[p] = pstate[p]
           /\ op[s] # "revert" => subject[s] \in Proposal /\ pstate'[subject[s]] # "absent"
           /\ \A k \in Skill : head'[k] # head[k] =>
                 /\ k = SkillOf[subject[s]]
                 /\ op[s] = "revert" \/ (op[s] = "gate" /\ arg[s] = "pass")
  <1>1. /\ op[s] # "none" => subject[s] \in Version
        /\ op[s] \notin {"none", "revert"} => subject[s] \in Proposal
    BY SkillFacts DEF SessionInv, TypeOK, Op, RowLocking
  <1>2. ASSUME NEW version \in Version \cup {None}, NEW prior \in Version \cup {None},
               op[s] # "none", Commits(s, version, prior)
        PROVE  /\ pc[s] = "commit" /\ Ends(s)
               /\ Len(log') = Len(log) + 1
               /\ \A i \in 1..Len(log) : log'[i] = log[i]
               /\ log'[Len(log) + 1].seq = seq[s]
    <2> DEFINE e == [seq |-> seq[s], kind |-> op[s], about |-> subject[s],
                     verdict |-> Ruling(arg[s]), version |-> version, prior |-> prior, read |-> read[s]]
    <2>1. Ruling(arg[s]) \in Verdict \cup Decision \cup {None}
      BY DEF Ruling, TypeOK, Decision
    <2>2. e \in Entry
      BY <1>1, <1>2, <2>1 DEF Entry, TypeOK
    <2>3. pc[s] = "commit" /\ Ends(s) /\ log' = Append(log, e)
      BY <1>2 DEF Commits
    <2>4. log \in Seq(Entry) /\ e.seq = seq[s]
      BY DEF TypeOK
    <2> HIDE DEF e
    <2>5. QED
      BY <2>2, <2>3, <2>4, AppendFacts
  <1>3. CASE CommitGate(s)
    <2>1. op[s] = "gate" /\ Commits(s, IF arg[s] = "pass" THEN subject[s] ELSE None, None)
      BY <1>3 DEF CommitGate
    <2>2. (IF arg[s] = "pass" THEN subject[s] ELSE None) \in Version \cup {None} /\ None \in Version \cup {None}
      BY <1>1, <2>1 DEF TypeOK
    <2>3. /\ \A p \in Proposal : p # subject[s] \/ op[s] = "revert" => pstate'[p] = pstate[p]
          /\ op[s] # "revert" => subject[s] \in Proposal /\ pstate'[subject[s]] # "absent"
      BY <1>1, <1>3, <2>1 DEF CommitGate, TypeOK, SessionInv, Commits, AfterGate, HeadAfterGate, Verdict
    <2>4. \A k \in Skill : head'[k] # head[k] =>
              /\ k = SkillOf[subject[s]]
              /\ op[s] = "revert" \/ (op[s] = "gate" /\ arg[s] = "pass")
      BY <1>3, <2>1 DEF CommitGate, TypeOK, HeadAfterGate
    <2>5. QED
      BY <1>2, <2>1, <2>2, <2>3, <2>4
  <1>4. CASE CommitProposal(s)
    <2>1. op[s] \in {"runner", "propose"} /\ Commits(s, None, None)
      BY <1>4 DEF CommitProposal
    <2>2. (None) \in Version \cup {None} /\ None \in Version \cup {None}
      BY <1>1, <2>1 DEF TypeOK
    <2>3. /\ \A p \in Proposal : p # subject[s] \/ op[s] = "revert" => pstate'[p] = pstate[p]
          /\ op[s] # "revert" => subject[s] \in Proposal /\ pstate'[subject[s]] # "absent"
      BY <1>1, <1>4, <2>1 DEF CommitProposal, TypeOK, SessionInv, Commits
    <2>4. \A k \in Skill : head'[k] # head[k] =>
              /\ k = SkillOf[subject[s]]
              /\ op[s] = "revert" \/ (op[s] = "gate" /\ arg[s] = "pass")
      BY <1>4, <2>1 DEF CommitProposal, TypeOK
    <2>5. QED
      BY <1>2, <2>1, <2>2, <2>3, <2>4
  <1>5. CASE CommitDecision(s)
    <2>1. op[s] = "decide" /\ Commits(s, None, None)
      BY <1>5 DEF CommitDecision
    <2>2. (None) \in Version \cup {None} /\ None \in Version \cup {None}
      BY <1>1, <2>1 DEF TypeOK
    <2>3. /\ \A p \in Proposal : p # subject[s] \/ op[s] = "revert" => pstate'[p] = pstate[p]
          /\ op[s] # "revert" => subject[s] \in Proposal /\ pstate'[subject[s]] # "absent"
      BY <1>1, <1>5, <2>1 DEF CommitDecision, TypeOK, SessionInv, Commits, AfterDecision, Ruling, Decision
    <2>4. \A k \in Skill : head'[k] # head[k] =>
              /\ k = SkillOf[subject[s]]
              /\ op[s] = "revert" \/ (op[s] = "gate" /\ arg[s] = "pass")
      BY <1>5, <2>1 DEF CommitDecision, TypeOK
    <2>5. QED
      BY <1>2, <2>1, <2>2, <2>3, <2>4
  <1>6. CASE CommitDeploy(s)
    <2>1. op[s] = "deploy" /\ Commits(s, subject[s], seen[s])
      BY <1>6 DEF CommitDeploy
    <2>2. (subject[s]) \in Version \cup {None} /\ seen[s] \in Version \cup {None}
      BY <1>1, <2>1 DEF TypeOK
    <2>3. /\ \A p \in Proposal : p # subject[s] \/ op[s] = "revert" => pstate'[p] = pstate[p]
          /\ op[s] # "revert" => subject[s] \in Proposal /\ pstate'[subject[s]] # "absent"
      BY <1>1, <1>6, <2>1 DEF CommitDeploy, TypeOK, SessionInv, Commits
    <2>4. \A k \in Skill : head'[k] # head[k] =>
              /\ k = SkillOf[subject[s]]
              /\ op[s] = "revert" \/ (op[s] = "gate" /\ arg[s] = "pass")
      BY <1>6, <2>1 DEF CommitDeploy, TypeOK
    <2>5. QED
      BY <1>2, <2>1, <2>2, <2>3, <2>4
  <1>7. CASE CommitRollback(s)
    <2>1. op[s] = "rollback" /\ Commits(s, seen[s], subject[s])
      BY <1>7 DEF CommitRollback
    <2>2. (seen[s]) \in Version \cup {None} /\ subject[s] \in Version \cup {None}
      BY <1>1, <2>1 DEF TypeOK
    <2>3. /\ \A p \in Proposal : p # subject[s] \/ op[s] = "revert" => pstate'[p] = pstate[p]
          /\ op[s] # "revert" => subject[s] \in Proposal /\ pstate'[subject[s]] # "absent"
      BY <1>1, <1>7, <2>1 DEF CommitRollback, TypeOK, SessionInv, Commits
    <2>4. \A k \in Skill : head'[k] # head[k] =>
              /\ k = SkillOf[subject[s]]
              /\ op[s] = "revert" \/ (op[s] = "gate" /\ arg[s] = "pass")
      BY <1>7, <2>1 DEF CommitRollback, TypeOK
    <2>5. QED
      BY <1>2, <2>1, <2>2, <2>3, <2>4
  <1>8. CASE CommitArtifact(s)
    <2>1. op[s] = "deploy" /\ Commits(s, None, None)
      BY <1>8 DEF CommitArtifact
    <2>2. (None) \in Version \cup {None} /\ None \in Version \cup {None}
      BY <1>1, <2>1 DEF TypeOK
    <2>3. /\ \A p \in Proposal : p # subject[s] \/ op[s] = "revert" => pstate'[p] = pstate[p]
          /\ op[s] # "revert" => subject[s] \in Proposal /\ pstate'[subject[s]] # "absent"
      BY <1>1, <1>8, <2>1 DEF CommitArtifact, TypeOK, SessionInv, Commits
    <2>4. \A k \in Skill : head'[k] # head[k] =>
              /\ k = SkillOf[subject[s]]
              /\ op[s] = "revert" \/ (op[s] = "gate" /\ arg[s] = "pass")
      BY <1>8, <2>1 DEF CommitArtifact, TypeOK
    <2>5. QED
      BY <1>2, <2>1, <2>2, <2>3, <2>4
  <1>9. CASE CommitRevert(s)
    <2>1. op[s] = "revert" /\ Commits(s, subject[s], seen[s])
      BY <1>9 DEF CommitRevert
    <2>2. (subject[s]) \in Version \cup {None} /\ seen[s] \in Version \cup {None}
      BY <1>1, <2>1 DEF TypeOK
    <2>3. /\ \A p \in Proposal : p # subject[s] \/ op[s] = "revert" => pstate'[p] = pstate[p]
          /\ op[s] # "revert" => subject[s] \in Proposal /\ pstate'[subject[s]] # "absent"
      BY <1>1, <1>9, <2>1 DEF CommitRevert, TypeOK, SessionInv, Commits
    <2>4. \A k \in Skill : head'[k] # head[k] =>
              /\ k = SkillOf[subject[s]]
              /\ op[s] = "revert" \/ (op[s] = "gate" /\ arg[s] = "pass")
      <3>1. head' = [head EXCEPT ![SkillOf[subject[s]]] = subject[s]] /\ op[s] = "revert"
        BY <1>9 DEF CommitRevert
      <3>2. head \in [Skill -> Version]
        BY DEF TypeOK
      <3>3. QED
        BY <3>1, <3>2
    <2>5. QED
      BY <1>2, <2>1, <2>2, <2>3, <2>4
  <1>10. QED
    BY <1>3, <1>4, <1>5, <1>6, <1>7, <1>8, <1>9 DEF Commit

\* A commit disturbs nothing that another transaction relies on.
LEMMA CommitSpares ==
    ASSUME TypeOK, SessionInv, LockInv, FreshInv, UnderLockInv,
           NEW s \in Session, Commit(s), NEW u \in Session \ {s}
    PROVE  /\ op[u] \in RowLocking /\ pc[u] # "row" => pstate'[subject[u]] = pstate[subject[u]]
           /\ op[u] \in RowLocking => pstate'[subject[u]] # "absent"
           /\ op[u] \in Creating => pstate'[subject[u]] = "absent"
           /\ seq[u] = 0
           /\ op[u] = "revert" /\ pc[u] \in {"audit", "commit"} =>
                 head'[SkillOf[subject[u]]] = head[SkillOf[subject[u]]]
  <1>1. /\ pc[s] = "commit" /\ op[s] # "none"
        /\ \A p \in Proposal : p # subject[s] \/ op[s] = "revert" => pstate'[p] = pstate[p]
        /\ op[s] # "revert" => subject[s] \in Proposal /\ pstate'[subject[s]] # "absent"
        /\ \A k \in Skill : head'[k] # head[k] =>
              /\ k = SkillOf[subject[s]]
              /\ op[s] = "revert" \/ (op[s] = "gate" /\ arg[s] = "pass")
    BY CommitShape
  <1>2. \A l \in held[s], m \in held[u] : ~Clash(l, m)
    BY DEF LockInv
  <1>3. seq[s] # 0 /\ AuditChain \in held[s]
    BY <1>1 DEF UnderLockInv, Under
  <1>4. seq[u] = 0
    BY <1>2, <1>3, ClashFacts DEF UnderLockInv, Under
  <1>5. op[u] \in RowLocking \cup Creating => subject[u] \in Proposal
    BY SkillFacts DEF SessionInv, RowLocking, Creating
  <1>6. op[u] \in RowLocking /\ pc[u] # "row" => pstate'[subject[u]] = pstate[subject[u]]
    <2> SUFFICES ASSUME op[u] \in RowLocking, pc[u] # "row", op[s] # "revert", subject[s] = subject[u]
                 PROVE  FALSE
      BY <1>1, <1>5
    <2>1. Row(subject[u]) \in held[u]
      BY DEF UnderLockInv, Under
    <2>2. op[s] \notin RowLocking
      BY <1>1, <1>2, <2>1, ClashFacts DEF UnderLockInv, Under
    <2>3. op[s] \in Creating
      BY <1>1, <2>2 DEF TypeOK, Op, RowLocking, Creating
    <2>4. QED
      BY <2>3 DEF FreshInv
  <1>7. op[u] \in RowLocking => pstate'[subject[u]] # "absent"
    BY <1>1, <1>5 DEF FreshInv
  <1>8. op[u] \in Creating => pstate'[subject[u]] = "absent"
    <2> SUFFICES ASSUME op[u] \in Creating, op[s] # "revert", subject[s] = subject[u]
                 PROVE  FALSE
      BY <1>1, <1>5 DEF FreshInv
    <2>1. op[s] \in RowLocking \cup Creating
      BY <1>1 DEF TypeOK, Op, RowLocking, Creating
    <2>2. QED
      BY <2>1 DEF FreshInv
  <1>9. op[u] = "revert" /\ pc[u] \in {"audit", "commit"} =>
            head'[SkillOf[subject[u]]] = head[SkillOf[subject[u]]]
    <2> SUFFICES ASSUME op[u] = "revert", pc[u] \in {"audit", "commit"},
                        head'[SkillOf[subject[u]]] # head[SkillOf[subject[u]]]
                 PROVE  FALSE
      OBVIOUS
    <2>1. /\ SkillOf[subject[u]] = SkillOf[subject[s]]
          /\ op[s] = "revert" \/ (op[s] = "gate" /\ arg[s] = "pass")
      BY <1>1 DEF SessionInv
    <2>2. SkillRow(SkillOf[subject[u]]) \in held[u] /\ SkillRow(SkillOf[subject[s]]) \in held[s]
      BY <1>1, <2>1 DEF UnderLockInv, Under
    <2>3. QED
      BY <1>2, <2>1, <2>2, ClashFacts
  <1>10. QED
    BY <1>4, <1>6, <1>7, <1>8, <1>9

\* Nobody else has drawn a seq when the audit chain is free.
LEMMA ChainFree ==
    ASSUME TypeOK, SessionInv, UnderLockInv, NEW s \in Session, pc[s] = "audit", Locks(s)
    PROVE  NextSeq = Len(log) + 1 /\ held'[s] = held[s] \cup {AuditChain}
  <1>1. Wants(s) = {AuditChain}
    BY DEF Wants
  <1>2. \A t \in Session : seq[t] = 0
    <2>1. ASSUME NEW t \in Session, t # s, seq[t] # 0 PROVE FALSE
      <3>1. AuditChain \in held[t]
        BY <2>1 DEF UnderLockInv, Under
      <3>2. QED
        BY <1>1, <2>1, <3>1, ClashFacts DEF Locks, WaitsFor
    <2>2. seq[s] = 0
      BY DEF UnderLockInv, Under
    <2>3. QED
      BY <2>1, <2>2
  <1>3. {t \in Session : seq[t] # 0} = {}
    BY <1>2
  <1>4. Cardinality({t \in Session : seq[t] # 0}) = 0
    BY <1>3, FS_EmptySet
  <1>5. Len(log) \in Nat
    BY DEF TypeOK
  <1>6. NextSeq = Len(log) + 1
    BY <1>4, <1>5 DEF NextSeq
  <1>7. QED
    BY <1>1, <1>6 DEF Locks, TypeOK

\* What a transaction is about is fixed when it begins.
LEMMA BeginShape ==
    ASSUME TypeOK, NEW s \in Session,
           Request(s) \/ Statement(s) \/ DeadlockAbort(s) \/ Abort(s)
    PROVE  \/ op'[s] = "none" \/ (op'[s] = op[s] /\ subject'[s] = subject[s])
           \/ (op'[s] \in RowLocking /\ pstate[subject'[s]] # "absent")
           \/ op'[s] = "revert"
           \/ (op'[s] \in Creating /\ Fresh(subject'[s]))
  <1>1. ASSUME NEW p \in Proposal, BeginGate(s, p) PROVE \/ op'[s] = "none" \/ (op'[s] = op[s] /\ subject'[s] = subject[s])
           \/ (op'[s] \in RowLocking /\ pstate[subject'[s]] # "absent")
           \/ op'[s] = "revert"
           \/ (op'[s] \in Creating /\ Fresh(subject'[s]))
    BY <1>1 DEF BeginGate, Begin, TypeOK, RowLocking, Creating
  <1>2. ASSUME NEW p \in Proposal, BeginRunner(s, p) PROVE \/ op'[s] = "none" \/ (op'[s] = op[s] /\ subject'[s] = subject[s])
           \/ (op'[s] \in RowLocking /\ pstate[subject'[s]] # "absent")
           \/ op'[s] = "revert"
           \/ (op'[s] \in Creating /\ Fresh(subject'[s]))
    BY <1>2 DEF BeginRunner, Begin, TypeOK, RowLocking, Creating
  <1>3. ASSUME NEW p \in Proposal, BeginPropose(s, p) PROVE \/ op'[s] = "none" \/ (op'[s] = op[s] /\ subject'[s] = subject[s])
           \/ (op'[s] \in RowLocking /\ pstate[subject'[s]] # "absent")
           \/ op'[s] = "revert"
           \/ (op'[s] \in Creating /\ Fresh(subject'[s]))
    BY <1>3 DEF BeginPropose, Begin, TypeOK, RowLocking, Creating
  <1>4. ASSUME NEW p \in Proposal, NEW v \in Decision \cup {"reject-comment"}, BeginDecision(s, p, v) PROVE \/ op'[s] = "none" \/ (op'[s] = op[s] /\ subject'[s] = subject[s])
           \/ (op'[s] \in RowLocking /\ pstate[subject'[s]] # "absent")
           \/ op'[s] = "revert"
           \/ (op'[s] \in Creating /\ Fresh(subject'[s]))
    BY <1>4 DEF BeginDecision, Begin, TypeOK, RowLocking, Creating
  <1>5. ASSUME NEW p \in Proposal, NEW o \in {"deploy", "rollback"}, BeginDeploy(s, p, o) PROVE \/ op'[s] = "none" \/ (op'[s] = op[s] /\ subject'[s] = subject[s])
           \/ (op'[s] \in RowLocking /\ pstate[subject'[s]] # "absent")
           \/ op'[s] = "revert"
           \/ (op'[s] \in Creating /\ Fresh(subject'[s]))
    BY <1>5 DEF BeginDeploy, Begin, TypeOK, RowLocking, Creating
  <1>6. ASSUME NEW v \in Version, BeginRevert(s, v) PROVE \/ op'[s] = "none" \/ (op'[s] = op[s] /\ subject'[s] = subject[s])
           \/ (op'[s] \in RowLocking /\ pstate[subject'[s]] # "absent")
           \/ op'[s] = "revert"
           \/ (op'[s] \in Creating /\ Fresh(subject'[s]))
    BY <1>6 DEF BeginRevert, Begin, TypeOK, RowLocking, Creating
  <1>7. ASSUME LockWorkflow(s) PROVE \/ op'[s] = "none" \/ (op'[s] = op[s] /\ subject'[s] = subject[s])
           \/ (op'[s] \in RowLocking /\ pstate[subject'[s]] # "absent")
           \/ op'[s] = "revert"
           \/ (op'[s] \in Creating /\ Fresh(subject'[s]))
    BY <1>7 DEF LockWorkflow
  <1>8. ASSUME InsertTraces(s) PROVE \/ op'[s] = "none" \/ (op'[s] = op[s] /\ subject'[s] = subject[s])
           \/ (op'[s] \in RowLocking /\ pstate[subject'[s]] # "absent")
           \/ op'[s] = "revert"
           \/ (op'[s] \in Creating /\ Fresh(subject'[s]))
    BY <1>8 DEF InsertTraces
  <1>9. ASSUME AuditClusters(s) PROVE \/ op'[s] = "none" \/ (op'[s] = op[s] /\ subject'[s] = subject[s])
           \/ (op'[s] \in RowLocking /\ pstate[subject'[s]] # "absent")
           \/ op'[s] = "revert"
           \/ (op'[s] \in Creating /\ Fresh(subject'[s]))
    BY <1>9 DEF AuditClusters
  <1>10. ASSUME LockRow(s) PROVE \/ op'[s] = "none" \/ (op'[s] = op[s] /\ subject'[s] = subject[s])
           \/ (op'[s] \in RowLocking /\ pstate[subject'[s]] # "absent")
           \/ op'[s] = "revert"
           \/ (op'[s] \in Creating /\ Fresh(subject'[s]))
    BY <1>10 DEF LockRow, Ends, TypeOK
  <1>11. ASSUME SeedEvalCase(s) PROVE \/ op'[s] = "none" \/ (op'[s] = op[s] /\ subject'[s] = subject[s])
           \/ (op'[s] \in RowLocking /\ pstate[subject'[s]] # "absent")
           \/ op'[s] = "revert"
           \/ (op'[s] \in Creating /\ Fresh(subject'[s]))
    BY <1>11 DEF SeedEvalCase
  <1>12. ASSUME CheckOther(s) PROVE \/ op'[s] = "none" \/ (op'[s] = op[s] /\ subject'[s] = subject[s])
           \/ (op'[s] \in RowLocking /\ pstate[subject'[s]] # "absent")
           \/ op'[s] = "revert"
           \/ (op'[s] \in Creating /\ Fresh(subject'[s]))
    BY <1>12 DEF CheckOther, Ends, TypeOK
  <1>13. ASSUME ReadPrior(s) PROVE \/ op'[s] = "none" \/ (op'[s] = op[s] /\ subject'[s] = subject[s])
           \/ (op'[s] \in RowLocking /\ pstate[subject'[s]] # "absent")
           \/ op'[s] = "revert"
           \/ (op'[s] \in Creating /\ Fresh(subject'[s]))
    BY <1>13 DEF ReadPrior
  <1>14. ASSUME ReadSpec(s) PROVE \/ op'[s] = "none" \/ (op'[s] = op[s] /\ subject'[s] = subject[s])
           \/ (op'[s] \in RowLocking /\ pstate[subject'[s]] # "absent")
           \/ op'[s] = "revert"
           \/ (op'[s] \in Creating /\ Fresh(subject'[s]))
    BY <1>14 DEF ReadSpec
  <1>15. ASSUME WriteSpec(s) PROVE \/ op'[s] = "none" \/ (op'[s] = op[s] /\ subject'[s] = subject[s])
           \/ (op'[s] \in RowLocking /\ pstate[subject'[s]] # "absent")
           \/ op'[s] = "revert"
           \/ (op'[s] \in Creating /\ Fresh(subject'[s]))
    BY <1>15 DEF WriteSpec
  <1>16. ASSUME LockSkill(s) PROVE \/ op'[s] = "none" \/ (op'[s] = op[s] /\ subject'[s] = subject[s])
           \/ (op'[s] \in RowLocking /\ pstate[subject'[s]] # "absent")
           \/ op'[s] = "revert"
           \/ (op'[s] \in Creating /\ Fresh(subject'[s]))
    BY <1>16 DEF LockSkill, Ends, TypeOK
  <1>17. ASSUME WriteAudit(s) PROVE \/ op'[s] = "none" \/ (op'[s] = op[s] /\ subject'[s] = subject[s])
           \/ (op'[s] \in RowLocking /\ pstate[subject'[s]] # "absent")
           \/ op'[s] = "revert"
           \/ (op'[s] \in Creating /\ Fresh(subject'[s]))
    BY <1>17 DEF WriteAudit
  <1>18. ASSUME NEW verdict \in Verdict, RunBenchmark(s, verdict) PROVE \/ op'[s] = "none" \/ (op'[s] = op[s] /\ subject'[s] = subject[s])
           \/ (op'[s] \in RowLocking /\ pstate[subject'[s]] # "absent")
           \/ op'[s] = "revert"
           \/ (op'[s] \in Creating /\ Fresh(subject'[s]))
    BY <1>18 DEF RunBenchmark
  <1>19. ASSUME CommitGate(s) PROVE \/ op'[s] = "none" \/ (op'[s] = op[s] /\ subject'[s] = subject[s])
           \/ (op'[s] \in RowLocking /\ pstate[subject'[s]] # "absent")
           \/ op'[s] = "revert"
           \/ (op'[s] \in Creating /\ Fresh(subject'[s]))
    BY <1>19 DEF CommitGate, Commits, Ends, TypeOK
  <1>20. ASSUME CommitProposal(s) PROVE \/ op'[s] = "none" \/ (op'[s] = op[s] /\ subject'[s] = subject[s])
           \/ (op'[s] \in RowLocking /\ pstate[subject'[s]] # "absent")
           \/ op'[s] = "revert"
           \/ (op'[s] \in Creating /\ Fresh(subject'[s]))
    BY <1>20 DEF CommitProposal, Commits, Ends, TypeOK
  <1>21. ASSUME CommitDecision(s) PROVE \/ op'[s] = "none" \/ (op'[s] = op[s] /\ subject'[s] = subject[s])
           \/ (op'[s] \in RowLocking /\ pstate[subject'[s]] # "absent")
           \/ op'[s] = "revert"
           \/ (op'[s] \in Creating /\ Fresh(subject'[s]))
    BY <1>21 DEF CommitDecision, Commits, Ends, TypeOK
  <1>22. ASSUME CommitDeploy(s) PROVE \/ op'[s] = "none" \/ (op'[s] = op[s] /\ subject'[s] = subject[s])
           \/ (op'[s] \in RowLocking /\ pstate[subject'[s]] # "absent")
           \/ op'[s] = "revert"
           \/ (op'[s] \in Creating /\ Fresh(subject'[s]))
    BY <1>22 DEF CommitDeploy, Commits, Ends, TypeOK
  <1>23. ASSUME CommitRollback(s) PROVE \/ op'[s] = "none" \/ (op'[s] = op[s] /\ subject'[s] = subject[s])
           \/ (op'[s] \in RowLocking /\ pstate[subject'[s]] # "absent")
           \/ op'[s] = "revert"
           \/ (op'[s] \in Creating /\ Fresh(subject'[s]))
    BY <1>23 DEF CommitRollback, Commits, Ends, TypeOK
  <1>24. ASSUME CommitArtifact(s) PROVE \/ op'[s] = "none" \/ (op'[s] = op[s] /\ subject'[s] = subject[s])
           \/ (op'[s] \in RowLocking /\ pstate[subject'[s]] # "absent")
           \/ op'[s] = "revert"
           \/ (op'[s] \in Creating /\ Fresh(subject'[s]))
    BY <1>24 DEF CommitArtifact, Commits, Ends, TypeOK
  <1>25. ASSUME CommitRevert(s) PROVE \/ op'[s] = "none" \/ (op'[s] = op[s] /\ subject'[s] = subject[s])
           \/ (op'[s] \in RowLocking /\ pstate[subject'[s]] # "absent")
           \/ op'[s] = "revert"
           \/ (op'[s] \in Creating /\ Fresh(subject'[s]))
    BY <1>25 DEF CommitRevert, Commits, Ends, TypeOK
  <1>26. ASSUME DeadlockAbort(s) PROVE \/ op'[s] = "none" \/ (op'[s] = op[s] /\ subject'[s] = subject[s])
           \/ (op'[s] \in RowLocking /\ pstate[subject'[s]] # "absent")
           \/ op'[s] = "revert"
           \/ (op'[s] \in Creating /\ Fresh(subject'[s]))
    BY <1>26 DEF DeadlockAbort, Ends, TypeOK
  <1>27. ASSUME Abort(s) PROVE \/ op'[s] = "none" \/ (op'[s] = op[s] /\ subject'[s] = subject[s])
           \/ (op'[s] \in RowLocking /\ pstate[subject'[s]] # "absent")
           \/ op'[s] = "revert"
           \/ (op'[s] \in Creating /\ Fresh(subject'[s]))
    BY <1>27 DEF Abort, Ends, TypeOK
  <1>28. QED
    BY <1>1, <1>2, <1>3, <1>4, <1>5, <1>6, <1>7, <1>8, <1>9, <1>10, <1>11, <1>12, <1>13, <1>14, <1>15, <1>16, <1>17, <1>18, <1>19, <1>20, <1>21, <1>22, <1>23, <1>24, <1>25, <1>26, <1>27
    DEF Request, Statement, Commit

\* Every step keeps FreshInv.
LEMMA FreshStep ==
    ASSUME TypeOK, SessionInv, LockInv, FreshInv, UnderLockInv, Next \/ UNCHANGED vars
    PROVE  FreshInv'
  <1>1. ASSUME NEW s \in Session, Request(s) \/ Statement(s) \/ DeadlockAbort(s) \/ Abort(s)
        PROVE  FreshInv'
    <2>1. OthersKept(s)
      BY <1>1, Frame
    <2>2. CASE Commit(s)
      <3>1. Ends(s)
        BY <2>2, CommitShape
      <3>2. op'[s] = "none"
        BY <3>1 DEF Ends, TypeOK
      <3>3. QED
        BY <2>1, <2>2, <3>2, CommitSpares DEF FreshInv, OthersKept, RowLocking, Creating
    <2>3. CASE UNCHANGED rowVars
      <3>1. \/ op'[s] = "none" \/ (op'[s] = op[s] /\ subject'[s] = subject[s])
            \/ (op'[s] \in RowLocking /\ pstate[subject'[s]] # "absent")
            \/ op'[s] = "revert"
            \/ (op'[s] \in Creating /\ Fresh(subject'[s]))
        BY <1>1, <2>2, BeginShape
      <3>2. QED
        BY <2>1, <2>3, <3>1 DEF FreshInv, OthersKept, RowLocking, Creating, Fresh, rowVars
    <2>4. QED
      BY <1>1, <2>2, <2>3, OnlyCommitsWrite
  <1>2. ASSUME UNCHANGED vars PROVE FreshInv'
    BY <1>2 DEF FreshInv, vars
  <1>3. QED
    BY <1>1, <1>2 DEF Next

\* A transaction that ends holds nothing.
LEMMA EndsUnder ==
    ASSUME TypeOK, NEW s \in Session, Ends(s)
    PROVE  Under(s)'
  BY DEF Ends, LocksKept, TypeOK, Under, RowLocking

\* A session's own step keeps what it has learnt.
LEMMA UnderOwn ==
    ASSUME TypeOK, SessionInv, UnderLockInv, NEW s \in Session, Under(s),
           Request(s) \/ Statement(s) \/ DeadlockAbort(s) \/ Abort(s)
    PROVE  Under(s)'
  <1>1. ASSUME NEW p \in Proposal, BeginGate(s, p) PROVE Under(s)'
    BY <1>1 DEF BeginGate, Begin, Goto, TypeOK, SessionInv, Under, RowLocking
  <1>2. ASSUME NEW p \in Proposal, BeginRunner(s, p) PROVE Under(s)'
    BY <1>2 DEF BeginRunner, Begin, Goto, TypeOK, SessionInv, Under, RowLocking
  <1>3. ASSUME NEW p \in Proposal, BeginPropose(s, p) PROVE Under(s)'
    BY <1>3 DEF BeginPropose, Begin, Goto, TypeOK, SessionInv, Under, RowLocking
  <1>4. ASSUME NEW p \in Proposal, NEW v \in Decision \cup {"reject-comment"}, BeginDecision(s, p, v) PROVE Under(s)'
    BY <1>4 DEF BeginDecision, Begin, Goto, TypeOK, SessionInv, Under, RowLocking
  <1>5. ASSUME NEW p \in Proposal, NEW o \in {"deploy", "rollback"}, BeginDeploy(s, p, o) PROVE Under(s)'
    BY <1>5 DEF BeginDeploy, Begin, Goto, TypeOK, SessionInv, Under, RowLocking
  <1>6. ASSUME NEW v \in Version, BeginRevert(s, v) PROVE Under(s)'
    BY <1>6 DEF BeginRevert, Begin, Goto, TypeOK, SessionInv, Under, RowLocking
  <1>7. ASSUME LockWorkflow(s) PROVE Under(s)'
    <2>1. /\ held[s] \subseteq held'[s] /\ pc[s] = "workflow" /\ pc'[s] \in {"audit", "skill", "clusters"}
          /\ UNCHANGED <<op, subject, pstate, log, head, seen, arg, seq>>
      BY <1>7 DEF LockWorkflow, Locks, Goto, TypeOK, rowVars
    <2>2. /\ op[s] \in {"decide", "deploy", "rollback", "gate", "runner"}
          /\ op[s] = "gate" => pc'[s] = "audit"
      BY <1>7 DEF LockWorkflow, SessionInv, RowLocking, Goto, TypeOK
    <2>3. Admits(s)' <=> Admits(s)
      BY <2>1 DEF Admits
    <2>4. QED
      BY <2>1, <2>2, <2>3 DEF Under, RowLocking
  <1>8. ASSUME InsertTraces(s) PROVE Under(s)'
    <2>1. /\ held[s] \subseteq held'[s] /\ pc[s] = "traces" /\ pc'[s] \in {"audit", "skill", "clusters"}
          /\ UNCHANGED <<op, subject, pstate, log, head, seen, arg, seq>>
      BY <1>8 DEF InsertTraces, Locks, Goto, TypeOK, rowVars
    <2>2. /\ op[s] \in {"decide", "deploy", "rollback", "gate", "runner"}
          /\ op[s] = "gate" => pc'[s] = "audit"
      BY <1>8 DEF InsertTraces, SessionInv, RowLocking, Goto, TypeOK
    <2>3. Admits(s)' <=> Admits(s)
      BY <2>1 DEF Admits
    <2>4. QED
      BY <2>1, <2>2, <2>3 DEF Under, RowLocking
  <1>9. ASSUME AuditClusters(s) PROVE Under(s)'
    <2>1. /\ held[s] \subseteq held'[s] /\ pc[s] = "clusters" /\ pc'[s] \in {"audit", "skill", "clusters"}
          /\ UNCHANGED <<op, subject, pstate, log, head, seen, arg, seq>>
      BY <1>9 DEF AuditClusters, Locks, Goto, TypeOK, rowVars
    <2>2. /\ op[s] \in {"decide", "deploy", "rollback", "gate", "runner"}
          /\ op[s] = "gate" => pc'[s] = "audit"
      BY <1>9 DEF AuditClusters, SessionInv, RowLocking, Goto, TypeOK
    <2>3. Admits(s)' <=> Admits(s)
      BY <2>1 DEF Admits
    <2>4. QED
      BY <2>1, <2>2, <2>3 DEF Under, RowLocking
  <1>10. ASSUME LockRow(s) PROVE Under(s)'
    <2>1. CASE Admits(s)
      <3>1. held'[s] = held[s] \cup {Row(subject[s])}
        BY <1>10, <2>1 DEF LockRow, Locks, Wants, TypeOK
      <3>2. AfterRow(s) \in {"seed", "audit", "other", "apply", "prior"} /\ op[s] \in RowLocking
        BY <1>10 DEF LockRow, AfterRow, SessionInv, RowLocking
      <3>3. pc'[s] = AfterRow(s) /\ UNCHANGED <<op, subject, pstate, seq>> /\ seq[s] = 0
        BY <1>10, <2>1 DEF LockRow, Goto, TypeOK, rowVars, Under
      <3>4. Admits(s)'
        BY <2>1, <3>3 DEF Admits
      <3>5. QED
        BY <3>1, <3>2, <3>3, <3>4 DEF Under, RowLocking
    <2>2. CASE ~Admits(s)
      BY <1>10, <2>2, EndsUnder DEF LockRow
    <2>3. QED
      BY <2>1, <2>2
  <1>11. ASSUME SeedEvalCase(s) PROVE Under(s)'
    <2>1. /\ held[s] \subseteq held'[s] /\ pc[s] = "seed" /\ pc'[s] \in {"audit", "skill", "clusters"}
          /\ UNCHANGED <<op, subject, pstate, log, head, seen, arg, seq>>
      BY <1>11 DEF SeedEvalCase, Locks, Goto, TypeOK, rowVars
    <2>2. /\ op[s] \in {"decide", "deploy", "rollback", "gate", "runner"}
          /\ op[s] = "gate" => pc'[s] = "audit"
      BY <1>11 DEF SeedEvalCase, SessionInv, RowLocking, Goto, TypeOK
    <2>3. Admits(s)' <=> Admits(s)
      BY <2>1 DEF Admits
    <2>4. QED
      BY <2>1, <2>2, <2>3 DEF Under, RowLocking
  <1>12. ASSUME CheckOther(s) PROVE Under(s)'
    <2>1. CASE OtherLive(subject[s])
      BY <1>12, <2>1, EndsUnder DEF CheckOther
    <2>2. CASE ~OtherLive(subject[s])
      BY <1>12, <2>2, ZenonT(60) DEF CheckOther, Goto, Under, TypeOK, Admits, SessionInv, rowVars
    <2>3. QED
      BY <2>1, <2>2
  <1>13. ASSUME ReadPrior(s) PROVE Under(s)'
    <2>1. /\ pc[s] = "prior" /\ pc'[s] = "skill" /\ op[s] \in {"deploy", "rollback"}
          /\ UNCHANGED <<op, subject, pstate, log, head, arg, held, seq>>
      BY <1>13 DEF ReadPrior, Goto, Then, TypeOK, rowVars, SessionInv
    <2>2. Admits(s)' <=> Admits(s)
      BY <2>1 DEF Admits
    <2>3. QED
      BY <2>1, <2>2 DEF Under, RowLocking
  <1>14. ASSUME ReadSpec(s) PROVE Under(s)'
    <2>1. /\ pc[s] = "apply" /\ pc'[s] = "write" /\ op[s] = "deploy"
          /\ UNCHANGED <<op, subject, pstate, log, head, seen, arg, held, seq>>
      BY <1>14 DEF ReadSpec, Goto, TypeOK, rowVars, SessionInv
    <2>2. Admits(s)' <=> Admits(s)
      BY <2>1 DEF Admits
    <2>3. QED
      BY <2>1, <2>2 DEF Under, RowLocking
  <1>15. ASSUME WriteSpec(s) PROVE Under(s)'
    <2>1. /\ held[s] \subseteq held'[s] /\ pc[s] = "write" /\ pc'[s] \in {"audit", "skill", "clusters"}
          /\ UNCHANGED <<op, subject, pstate, log, head, seen, arg, seq>>
      BY <1>15 DEF WriteSpec, Locks, Goto, TypeOK, rowVars
    <2>2. /\ op[s] \in {"decide", "deploy", "rollback", "gate", "runner"}
          /\ op[s] = "gate" => pc'[s] = "audit"
      BY <1>15 DEF WriteSpec, SessionInv, RowLocking, Goto, TypeOK
    <2>3. Admits(s)' <=> Admits(s)
      BY <2>1 DEF Admits
    <2>4. QED
      BY <2>1, <2>2, <2>3 DEF Under, RowLocking
  <1>16. ASSUME LockSkill(s) PROVE Under(s)'
    <2>1. CASE HeadUnmoved(s)
      <3>1. held'[s] = held[s] \cup {SkillRow(SkillOf[subject[s]])}
        BY <1>16, <2>1 DEF LockSkill, Locks, Wants, TypeOK
      <3>2. /\ pc[s] = "skill" /\ pc'[s] = IF op[s] = "gate" THEN "commit" ELSE "audit"
            /\ UNCHANGED <<op, subject, pstate, log, head, seen, arg, seq>>
        BY <1>16, <2>1 DEF LockSkill, Goto, Then, TypeOK, rowVars
      <3>3. op[s] = "revert" => head[SkillOf[subject[s]]] = seen[s]
        BY <2>1 DEF HeadUnmoved
      <3>4. Admits(s)' <=> Admits(s)
        BY <3>2 DEF Admits
      <3>5. QED
        BY <3>1, <3>2, <3>3, <3>4 DEF Under, RowLocking
    <2>2. CASE ~HeadUnmoved(s)
      BY <1>16, <2>2, EndsUnder DEF LockSkill
    <2>3. QED
      BY <2>1, <2>2
  <1>17. ASSUME WriteAudit(s) PROVE Under(s)'
    <2>1. seq'[s] = Len(log) + 1 /\ held'[s] = held[s] \cup {AuditChain}
      BY <1>17, ChainFree DEF WriteAudit, TypeOK
    <2>2. /\ pc[s] = "audit" /\ pc'[s] = IF op[s] = "gate" THEN "bench" ELSE "commit"
          /\ UNCHANGED <<op, subject, pstate, log, head, seen, arg>>
      BY <1>17 DEF WriteAudit, Goto, Then, TypeOK, rowVars
    <2>3. Len(log) \in Nat
      BY DEF TypeOK
    <2>4. Admits(s)' <=> Admits(s)
      BY <2>2 DEF Admits
    <2>5. QED
      BY <2>1, <2>2, <2>3, <2>4 DEF Under, RowLocking
  <1>18. ASSUME NEW verdict \in Verdict, RunBenchmark(s, verdict) PROVE Under(s)'
    BY <1>18 DEF RunBenchmark, Goto, Under, TypeOK, SessionInv, rowVars, RowLocking, Admits
  <1>19. ASSUME CommitGate(s) PROVE Under(s)'
    BY <1>19, EndsUnder DEF CommitGate, Commits
  <1>20. ASSUME CommitProposal(s) PROVE Under(s)'
    BY <1>20, EndsUnder DEF CommitProposal, Commits
  <1>21. ASSUME CommitDecision(s) PROVE Under(s)'
    BY <1>21, EndsUnder DEF CommitDecision, Commits
  <1>22. ASSUME CommitDeploy(s) PROVE Under(s)'
    BY <1>22, EndsUnder DEF CommitDeploy, Commits
  <1>23. ASSUME CommitRollback(s) PROVE Under(s)'
    BY <1>23, EndsUnder DEF CommitRollback, Commits
  <1>24. ASSUME CommitArtifact(s) PROVE Under(s)'
    BY <1>24, EndsUnder DEF CommitArtifact, Commits
  <1>25. ASSUME CommitRevert(s) PROVE Under(s)'
    BY <1>25, EndsUnder DEF CommitRevert, Commits
  <1>26. ASSUME DeadlockAbort(s) PROVE Under(s)'
    BY <1>26, EndsUnder DEF DeadlockAbort
  <1>27. ASSUME Abort(s) PROVE Under(s)'
    BY <1>27, EndsUnder DEF Abort
  <1>28. QED
    BY <1>1, <1>2, <1>3, <1>4, <1>5, <1>6, <1>7, <1>8, <1>9, <1>10, <1>11, <1>12, <1>13, <1>14, <1>15, <1>16, <1>17, <1>18, <1>19, <1>20, <1>21, <1>22, <1>23, <1>24, <1>25, <1>26, <1>27
    DEF Request, Statement, Commit

\* Every step keeps UnderLockInv.
LEMMA UnderLockStep ==
    ASSUME TypeOK, SessionInv, LockInv, FreshInv, UnderLockInv, Next \/ UNCHANGED vars
    PROVE  UnderLockInv'
  <1>1. ASSUME NEW s \in Session, Request(s) \/ Statement(s) \/ DeadlockAbort(s) \/ Abort(s)
        PROVE  UnderLockInv'
    <2>1. Under(s)'
      BY <1>1, UnderOwn DEF UnderLockInv
    <2>2. ASSUME NEW u \in Session \ {s} PROVE Under(u)'
      <3>1. /\ op'[u] = op[u] /\ subject'[u] = subject[u] /\ arg'[u] = arg[u] /\ pc'[u] = pc[u]
            /\ seen'[u] = seen[u] /\ seq'[u] = seq[u] /\ held'[u] = held[u]
        BY <1>1, Frame DEF OthersKept
      <3>2. Under(u)
        BY DEF UnderLockInv
      <3>3. CASE UNCHANGED rowVars
        <4>1. Admits(u)' <=> Admits(u)
          BY <3>1, <3>3 DEF Admits, rowVars
        <4>2. QED
          BY <3>1, <3>2, <3>3, <4>1 DEF Under, rowVars
      <3>4. CASE Commit(s)
        <4>1. /\ op[u] \in RowLocking /\ pc[u] # "row" => pstate'[subject[u]] = pstate[subject[u]]
              /\ seq[u] = 0
              /\ op[u] = "revert" /\ pc[u] \in {"audit", "commit"} =>
                    head'[SkillOf[subject[u]]] = head[SkillOf[subject[u]]]
          BY <3>4, CommitSpares
        <4>2. op[u] \in RowLocking /\ pc[u] # "row" => (Admits(u)' <=> Admits(u))
          BY <3>1, <4>1 DEF Admits, RowLocking
        <4>3. QED
          BY <3>1, <3>2, <4>1, <4>2 DEF Under
      <3>5. QED
        BY <1>1, <3>3, <3>4, OnlyCommitsWrite
    <2>3. QED
      BY <2>1, <2>2 DEF UnderLockInv
  <1>2. ASSUME UNCHANGED vars PROVE UnderLockInv'
    <2>1. \A u \in Session : Admits(u)' <=> Admits(u)
      BY <1>2 DEF Admits, vars
    <2>2. QED
      BY <1>2, <2>1 DEF UnderLockInv, Under, vars
  <1>3. QED
    BY <1>1, <1>2 DEF Next

-----------------------------------------------------------------------------
\* Every step keeps the numbering of the log.
LEMMA LogStep ==
    ASSUME TypeOK, SessionInv, LockInv, UnderLockInv, LogInv, Next \/ UNCHANGED vars
    PROVE  LogInv'
  <1>1. ASSUME NEW s \in Session, Commit(s) PROVE LogInv'
    <2>1. /\ pc[s] = "commit" /\ Len(log') = Len(log) + 1
          /\ \A i \in 1..Len(log) : log'[i] = log[i]
          /\ log'[Len(log) + 1].seq = seq[s]
      BY <1>1, CommitShape
    <2>2. seq[s] = Len(log) + 1
      BY <2>1 DEF UnderLockInv, Under
    <2>3. Len(log) \in Nat /\ DOMAIN log = 1..Len(log)
      BY DEF TypeOK
    <2>4. DOMAIN log' = 1..(Len(log) + 1)
      <3>1. TypeOK'
        BY TypeStep
      <3>2. log' \in Seq(Entry)
        BY <3>1 DEF TypeOK
      <3>3. QED
        BY <2>1, <2>3, <3>2
    <2>5. QED
      BY <2>1, <2>2, <2>3, <2>4 DEF LogInv
  <1>2. ASSUME UNCHANGED log PROVE LogInv'
    BY <1>2 DEF LogInv
  <1>3. QED
    BY <1>1, <1>2, OnlyCommitsWrite DEF Next, rowVars, vars

\* Every step keeps the approvals behind the states.
LEMMA ApprovalStep ==
    ASSUME TypeOK, SessionInv, FreshInv, UnderLockInv, ApprovalBacksState, Next \/ UNCHANGED vars
    PROVE  ApprovalBacksState'
  <1>1. ASSUME NEW s \in Session, Commit(s) PROVE ApprovalBacksState'
    <2> USE DEF ApprovalBacksState
    <2>1. /\ op[s] \in RowLocking => Admits(s)
          /\ op[s] \in Creating => pstate[subject[s]] = "absent"
          /\ op[s] \notin {"none", "revert"} => subject[s] \in Proposal
      BY <1>1, CommitShape, SkillFacts DEF UnderLockInv, Under, FreshInv, SessionInv, TypeOK, Op, RowLocking
    <2>2. pstate \in [Proposal -> State] /\ approval \in [Proposal -> Decision \cup {None}]
      BY DEF TypeOK
    <2>3. CASE CommitGate(s)
      <3>1. /\ UNCHANGED approval
            /\ pstate' = [pstate EXCEPT ![subject[s]] = AfterGate(arg[s])]
            /\ pstate[subject[s]] = "absent" /\ subject[s] \in Proposal
        BY <2>1, <2>3 DEF CommitGate, Creating
      <3>2. AfterGate(arg[s]) \in {"gate-passed", "rejected", "gate-failed"}
        BY <2>3 DEF CommitGate, Commits, SessionInv, AfterGate, Verdict
      <3>3. QED
        BY <2>2, <3>1, <3>2
    <2>4. CASE CommitProposal(s)
      <3>1. /\ UNCHANGED approval
            /\ pstate' = [pstate EXCEPT ![subject[s]] = "gate-passed"]
            /\ pstate[subject[s]] = "absent" /\ subject[s] \in Proposal
        BY <2>1, <2>4 DEF CommitProposal, Creating
      <3>2. QED
        BY <2>2, <3>1
    <2>5. CASE CommitDecision(s)
      <3>1. /\ approval' = [approval EXCEPT ![subject[s]] = Ruling(arg[s])]
            /\ pstate' = [pstate EXCEPT ![subject[s]] = AfterDecision(Ruling(arg[s]))]
            /\ subject[s] \in Proposal
        BY <2>1, <2>5 DEF CommitDecision
      <3>2. Ruling(arg[s]) \in Decision
        BY <2>5 DEF CommitDecision, Commits, SessionInv, Ruling, Decision
      <3>3. AfterDecision(Ruling(arg[s])) =
                CASE Ruling(arg[s]) = "approve" -> "approved-awaiting-deploy"
                  [] Ruling(arg[s]) = "reject" -> "rejected"
                  [] Ruling(arg[s]) = "request-changes" -> "changes-requested"
        BY DEF AfterDecision
      <3>4. QED
        BY <2>2, <3>1, <3>2, <3>3 DEF Decision
    <2>6. ASSUME NEW to \in {"deployed", "rolled-back"},
                 pstate' = [pstate EXCEPT ![subject[s]] = to], UNCHANGED approval,
                 op[s] \in {"deploy", "rollback"}
          PROVE  ApprovalBacksState'
      <3>1. pstate[subject[s]] \in {"approved-awaiting-deploy", "deployed"} /\ subject[s] \in Proposal
        BY <2>1, <2>6 DEF Admits, RowLocking
      <3>2. QED
        BY <2>2, <2>6, <3>1
    <2>7. CASE CommitDeploy(s) \/ CommitRollback(s) \/ CommitArtifact(s)
      BY <2>6, <2>7 DEF CommitDeploy, CommitRollback, CommitArtifact
    <2>8. CASE CommitRevert(s)
      BY <2>8 DEF CommitRevert
    <2>9. QED
      BY <1>1, <2>3, <2>4, <2>5, <2>7, <2>8 DEF Commit
  <1>2. ASSUME UNCHANGED <<pstate, approval>> PROVE ApprovalBacksState'
    BY <1>2 DEF ApprovalBacksState
  <1>3. QED
    BY <1>1, <1>2, OnlyCommitsWrite DEF Next, rowVars, vars

-----------------------------------------------------------------------------
(***************************************************************************)
(* Theorems.                                                               *)
(***************************************************************************)
IInv == TypeOK /\ SessionInv /\ LockInv /\ FreshInv /\ UnderLockInv /\ LogInv /\ ApprovalBacksState

\* The initial states satisfy the invariant.
LEMMA InitIInv == Init => IInv
  <1> SUFFICES ASSUME Init PROVE IInv
    OBVIOUS
  <1> USE DEF Init
  <1>1. TypeOK
    BY LifecycleAssumption DEF TypeOK, State, Op, PC, Views, NoViews, Version
  <1>2. SessionInv
    BY DEF SessionInv, RowLocking
  <1>3. LockInv
    BY DEF LockInv
  <1>4. FreshInv
    BY DEF FreshInv, RowLocking, Creating
  <1>5. UnderLockInv
    BY DEF UnderLockInv, Under, RowLocking
  <1>6. LogInv
    BY DEF LogInv
  <1>7. ApprovalBacksState
    BY DEF ApprovalBacksState
  <1>8. QED
    BY <1>1, <1>2, <1>3, <1>4, <1>5, <1>6, <1>7 DEF IInv

\* The invariant is inductive.
LEMMA StepIInv == IInv /\ [Next]_vars => IInv'
  BY TypeStep, SessionStep, LockStep, FreshStep, UnderLockStep, LogStep, ApprovalStep DEF IInv

\* The invariant holds in every reachable state.
THEOREM Invariance == Spec => []IInv
  BY InitIInv, StepIInv, PTL DEF Spec

\* Every state is well typed.
THEOREM TypeCorrect == Spec => []TypeOK
  <1>1. IInv => TypeOK
    BY DEF IInv
  <1>2. QED
    BY <1>1, Invariance, PTL

\* Entries are committed in the order of their seq: a transaction that has
\* drawn one holds the chain's lock, and is the only one that has.
THEOREM AuditOrder == Spec => []AuditOrderIsCommitOrder
  <1>1. IInv => AuditOrderIsCommitOrder
    <2> SUFFICES ASSUME IInv, NEW i \in DOMAIN log, NEW j \in DOMAIN log, i < j
                 PROVE  log[i].seq < log[j].seq
      BY DEF AuditOrderIsCommitOrder
    <2>1. log[i].seq = i /\ log[j].seq = j
      BY DEF IInv, LogInv
    <2>2. QED
      BY <2>1
  <1>2. QED
    BY <1>1, Invariance, PTL

\* No proposal is deployed without a recorded approval.
THEOREM ApprovalBacks == Spec => []ApprovalBacksState
  <1>1. IInv => ApprovalBacksState
    BY DEF IInv
  <1>2. QED
    BY <1>1, Invariance, PTL

\* A head revert commits only over the head it has read, which is the one its
\* audit entry names as the prior version.
THEOREM RevertIsConditional ==
    Spec => [][\A s \in Session : CommitRevert(s) => head[SkillOf[subject[s]]] = seen[s]]_vars
  <1>1. IInv /\ [Next]_vars =>
            [\A s \in Session : CommitRevert(s) => head[SkillOf[subject[s]]] = seen[s]]_vars
    BY DEF IInv, UnderLockInv, Under, CommitRevert, Commits
  <1>2. QED
    BY <1>1, Invariance, PTL DEF Spec

-----------------------------------------------------------------------------
(***************************************************************************)
(* Reading the log back.                                                   *)
(***************************************************************************)
\* The greatest index of I below n, and what is replayed from it: its value in
\* val, or the initial value if I has none.
LastIn(I, n) == {i \in I : i < n /\ \A j \in I : j < n => j <= i}
Replay(I, n, val, initial) ==
    IF LastIn(I, n) = {} THEN {initial} ELSE {val[i] : i \in LastIn(I, n)}

\* A set of indices has a greatest below n, if it has any there.
LEMMA LastExists ==
    ASSUME NEW N \in Nat, NEW I \in SUBSET (1..N), NEW n \in Nat, NEW k \in I, k < n
    PROVE  LastIn(I, n) # {}
  <1> DEFINE From(i) == i..N
             T == {From(i) : i \in {j \in I : j < n}}
  <1>0. \A i \in I : i \in Nat /\ i <= N
    OBVIOUS
  <1>1. T \subseteq SUBSET (1..N) /\ T # {}
    <2>1. \A i \in I : From(i) \subseteq 1..N
      OBVIOUS
    <2>2. QED
      BY <2>1
  <1>2. IsWellFoundedOn(StrictSubsetOrdering(1..N), SUBSET (1..N))
    <2>1. IsFiniteSet(1..N)
      BY FS_Interval
    <2>2. QED
      BY <2>1, FS_FiniteSubsetsOfFinite, FS_StrictSubsetOrderingWellFounded
  <1>3. PICK S \in T : \A U \in T : <<U, S>> \notin StrictSubsetOrdering(1..N)
    <2> HIDE DEF T
    <2>1. QED
      BY <1>1, <1>2, WFMin
  <1>4. PICK i \in I : i < n /\ S = From(i)
    OBVIOUS
  <1>5. ASSUME NEW j \in I, j < n, i < j PROVE FALSE
    <2>1. From(j) \in T
      BY <1>5
    <2>2. From(j) \subseteq From(i) /\ From(j) # From(i)
      <3>1. i \in From(i) /\ i \notin From(j)
        BY <1>0, <1>5
      <3>2. QED
        BY <1>0, <1>5, <3>1
    <2>3. <<From(j), From(i)>> \in StrictSubsetOrdering(1..N)
      BY <1>1, <1>4, <2>1, <2>2 DEF StrictSubsetOrdering
    <2>4. QED
      <3> HIDE DEF T, From
      <3>1. QED
        BY <1>3, <1>4, <2>1, <2>3
  <1>6. i \in LastIn(I, n)
    BY <1>0, <1>4, <1>5 DEF LastIn
  <1>7. QED
    BY <1>6

\* An entry that is appended is the last one from then on, and changes nothing
\* of what was before.
LEMMA LastAppended ==
    ASSUME NEW N \in Nat, NEW I \in SUBSET (1..N)
    PROVE  /\ \A n \in Nat : n > N + 1 => LastIn(I \cup {N + 1}, n) = {N + 1}
           /\ \A n \in Nat : n <= N + 1 => LastIn(I \cup {N + 1}, n) = LastIn(I, n)
           /\ \A n, m \in Nat : n > N /\ m > N => LastIn(I, n) = LastIn(I, m)
  <1>0. \A i \in I : i \in Nat /\ i <= N
    OBVIOUS
  <1>1. ASSUME NEW n \in Nat, n > N + 1 PROVE LastIn(I \cup {N + 1}, n) = {N + 1}
    <2>1. N + 1 \in LastIn(I \cup {N + 1}, n)
      BY <1>0, <1>1 DEF LastIn
    <2>2. \A i \in LastIn(I \cup {N + 1}, n) : i = N + 1
      BY <1>0, <1>1 DEF LastIn
    <2>3. QED
      BY <2>1, <2>2
  <1>2. ASSUME NEW n \in Nat, n <= N + 1 PROVE LastIn(I \cup {N + 1}, n) = LastIn(I, n)
    <2>1. \A i : i \in LastIn(I \cup {N + 1}, n) <=> i \in LastIn(I, n)
      BY <1>0, <1>2 DEF LastIn
    <2>2. QED
      BY <2>1
  <1>3. ASSUME NEW n \in Nat, NEW m \in Nat, n > N, m > N PROVE LastIn(I, n) = LastIn(I, m)
    <2>1. \A i \in I : i < n /\ i < m
      BY <1>0, <1>3
    <2>2. QED
      BY <2>1 DEF LastIn
  <1>4. QED
    BY <1>1, <1>2, <1>3

\* What is replayed after an entry is appended, to I or to other indices.
Appends(N, I, val, new, initial) ==
    /\ Replay(I \cup {N + 1}, N + 2, new, initial) = {new[N + 1]}
    /\ \A n \in Nat : n <= N + 1 =>
          Replay(I \cup {N + 1}, n, new, initial) = Replay(I, n, val, initial)
    /\ \A n \in Nat : Replay(I, n, new, initial) = Replay(I, n, val, initial)
    /\ Replay(I, N + 2, new, initial) = Replay(I, N + 1, val, initial)

\* Entries appended after those replayed are replayed last.
LEMMA ReplayAppended ==
    ASSUME NEW N \in Nat, NEW I \in SUBSET (1..N), NEW val, NEW new, NEW initial,
           \A i \in 1..N : new[i] = val[i]
    PROVE  Appends(N, I, val, new, initial)
  <1>0. N + 1 \in Nat /\ N + 2 \in Nat /\ N + 2 > N + 1 /\ N + 2 > N /\ N + 1 > N
    OBVIOUS
  <1>a. /\ \A n \in Nat : n > N + 1 => LastIn(I \cup {N + 1}, n) = {N + 1}
        /\ \A n \in Nat : n <= N + 1 => LastIn(I \cup {N + 1}, n) = LastIn(I, n)
        /\ \A n, m \in Nat : n > N /\ m > N => LastIn(I, n) = LastIn(I, m)
    BY LastAppended
  <1>1. LastIn(I \cup {N + 1}, N + 2) = {N + 1}
    BY <1>0, <1>a
  <1>2. ASSUME NEW n \in Nat, n <= N + 1
        PROVE  LastIn(I \cup {N + 1}, n) = LastIn(I, n)
    BY <1>a, <1>2
  <1>3. LastIn(I, N + 2) = LastIn(I, N + 1)
    BY <1>0, <1>a
  <1>4. \A n \in Nat : \A i \in LastIn(I, n) : new[i] = val[i]
    BY DEF LastIn
  <1>5. Replay(I \cup {N + 1}, N + 2, new, initial) = {new[N + 1]}
    BY <1>1 DEF Replay
  <1>6. \A n \in Nat : Replay(I, n, new, initial) = Replay(I, n, val, initial)
    BY <1>4 DEF Replay
  <1>7. ASSUME NEW n \in Nat, n <= N + 1
        PROVE  Replay(I \cup {N + 1}, n, new, initial) = Replay(I, n, val, initial)
    BY <1>2, <1>6, <1>7 DEF Replay
  <1>8. Replay(I, N + 2, new, initial) = Replay(I, N + 1, val, initial)
    BY <1>0, <1>3, <1>6 DEF Replay
  <1>9. QED
    BY <1>5, <1>6, <1>7, <1>8 DEF Appends

\* With the entries numbered in order, the latest of I before n is its last.
LEMMA LatestIsLast ==
    ASSUME NEW I, NEW n, \A i \in I : log[i].seq = i
    PROVE  LatestBefore(I, n) = LastIn(I, n)
  <1>1. \A i : i \in LatestBefore(I, n) <=> i \in LastIn(I, n)
    BY DEF LatestBefore, Latest, LastIn
  <1>2. QED
    BY <1>1

-----------------------------------------------------------------------------
(***************************************************************************)
(* What an operator's transaction carries and holds, statement by statement. *)
(***************************************************************************)
Operators == {"propose", "decide", "deploy", "rollback", "revert"}

\* Only gate runs and decisions carry a verdict, and a lock is held only where
\* the locks still to be taken come after it.
Orderly(s) ==
    /\ op[s] \in {"runner", "propose", "deploy", "rollback", "revert"} => arg[s] = None
    /\ op[s] \in Operators =>
          \A m \in held[s] :
              /\ m[1] = "proposal" => pc[s] # "row"
              /\ m[1] \in {"workflow", "skill"} => pc[s] \in {"audit", "commit"}
              /\ m[1] = "audit" => pc[s] = "commit"
OrderlyInv == \A s \in Session : Orderly(s)

\* A transaction that ends holds nothing.
LEMMA EndsOrderly ==
    ASSUME TypeOK, NEW s \in Session, Ends(s)
    PROVE  Orderly(s)'
  BY DEF Ends, TypeOK, Orderly, Operators

\* A session's own step keeps its locks in order.
LEMMA OrderlyOwn ==
    ASSUME TypeOK, SessionInv, NEW s \in Session, Orderly(s),
           Request(s) \/ Statement(s) \/ DeadlockAbort(s) \/ Abort(s)
    PROVE  Orderly(s)'
  <1>1. ASSUME NEW p \in Proposal, BeginGate(s, p) PROVE Orderly(s)'
    BY <1>1 DEF BeginGate, Begin, Goto, TypeOK, SessionInv, Orderly, Operators
  <1>2. ASSUME NEW p \in Proposal, BeginRunner(s, p) PROVE Orderly(s)'
    BY <1>2 DEF BeginRunner, Begin, Goto, TypeOK, SessionInv, Orderly, Operators
  <1>3. ASSUME NEW p \in Proposal, BeginPropose(s, p) PROVE Orderly(s)'
    BY <1>3 DEF BeginPropose, Begin, Goto, TypeOK, SessionInv, Orderly, Operators
  <1>4. ASSUME NEW p \in Proposal, NEW v \in Decision \cup {"reject-comment"}, BeginDecision(s, p, v) PROVE Orderly(s)'
    BY <1>4 DEF BeginDecision, Begin, Goto, TypeOK, SessionInv, Orderly, Operators
  <1>5. ASSUME NEW p \in Proposal, NEW o \in {"deploy", "rollback"}, BeginDeploy(s, p, o) PROVE Orderly(s)'
    BY <1>5 DEF BeginDeploy, Begin, Goto, TypeOK, SessionInv, Orderly, Operators
  <1>6. ASSUME NEW v \in Version, BeginRevert(s, v) PROVE Orderly(s)'
    BY <1>6 DEF BeginRevert, Begin, Goto, TypeOK, SessionInv, Orderly, Operators
  <1>7. ASSUME LockWorkflow(s) PROVE Orderly(s)'
    <2>1. /\ op'[s] = op[s] /\ arg'[s] = arg[s] /\ op[s] = "gate"
      BY <1>7 DEF LockWorkflow, SessionInv, Artifact
    <2>2. QED
      BY <2>1 DEF Orderly, Operators
  <1>8. ASSUME InsertTraces(s) PROVE Orderly(s)'
    <2>1. /\ op'[s] = op[s] /\ arg'[s] = arg[s] /\ op[s] = "runner"
      BY <1>8 DEF InsertTraces, SessionInv, Artifact
    <2>2. QED
      BY <2>1 DEF Orderly, Operators
  <1>9. ASSUME AuditClusters(s) PROVE Orderly(s)'
    <2>1. /\ op'[s] = op[s] /\ arg'[s] = arg[s] /\ op[s] = "runner"
      BY <1>9 DEF AuditClusters, SessionInv, Artifact
    <2>2. QED
      BY <2>1 DEF Orderly, Operators
  <1>10. ASSUME LockRow(s) PROVE Orderly(s)'
    <2>1. CASE Admits(s)
      <3>1. /\ op'[s] = op[s] /\ arg'[s] = arg[s] /\ pc[s] = "row" /\ pc'[s] = AfterRow(s)
            /\ held'[s] = held[s] \cup {Row(subject[s])}
        BY <1>10, <2>1 DEF LockRow, Goto, Locks, Wants, TypeOK
      <3>2. op[s] \in RowLocking => AfterRow(s) \in {"seed", "audit", "other", "apply", "prior"}
        BY DEF AfterRow, RowLocking
      <3>3. op[s] \in RowLocking
        BY <3>1 DEF SessionInv
      <3>4. Row(subject[s])[1] = "proposal"
        BY DEF Row
      <3>5. QED
        BY <3>1, <3>2, <3>3, <3>4 DEF Orderly
    <2>2. CASE ~Admits(s)
      BY <1>10, <2>2, EndsOrderly DEF LockRow
    <2>3. QED
      BY <2>1, <2>2
  <1>11. ASSUME SeedEvalCase(s) PROVE Orderly(s)'
    <2>1. /\ op'[s] = op[s] /\ arg'[s] = arg[s] /\ pc[s] = "seed" /\ pc'[s] = "audit"
          /\ held'[s] = held[s] \cup {Workflow("S")} /\ Workflow("S")[1] = "workflow"
      BY <1>11 DEF SeedEvalCase, Goto, Locks, Wants, TypeOK, Workflow
    <2>2. QED
      BY <2>1 DEF Orderly
  <1>12. ASSUME CheckOther(s) PROVE Orderly(s)'
    <2>1. CASE OtherLive(subject[s])
      BY <1>12, <2>1, EndsOrderly DEF CheckOther
    <2>2. CASE ~OtherLive(subject[s])
      <3>1. pc[s] = "other" /\ pc'[s] = "prior" /\ UNCHANGED <<op, arg, held>>
        BY <1>12, <2>2 DEF CheckOther, Goto, TypeOK
      <3>2. QED
        BY <3>1 DEF Orderly
    <2>3. QED
      BY <2>1, <2>2
  <1>13. ASSUME ReadPrior(s) PROVE Orderly(s)'
    <2>1. pc[s] = "prior" /\ pc'[s] = "skill" /\ UNCHANGED <<op, arg, held>>
      BY <1>13 DEF ReadPrior, Goto, Then, TypeOK
    <2>2. QED
      BY <2>1 DEF Orderly
  <1>14. ASSUME ReadSpec(s) PROVE Orderly(s)'
    <2>1. pc[s] = "apply" /\ pc'[s] = "write" /\ UNCHANGED <<op, arg, held>>
      BY <1>14 DEF ReadSpec, Goto, TypeOK
    <2>2. QED
      BY <2>1 DEF Orderly
  <1>15. ASSUME WriteSpec(s) PROVE Orderly(s)'
    <2>1. /\ op'[s] = op[s] /\ arg'[s] = arg[s] /\ pc[s] = "write" /\ pc'[s] = "audit"
          /\ held'[s] = held[s] \cup {Workflow("N")} /\ Workflow("N")[1] = "workflow"
      BY <1>15 DEF WriteSpec, Goto, Locks, Wants, TypeOK, Workflow
    <2>2. QED
      BY <2>1 DEF Orderly
  <1>16. ASSUME LockSkill(s) PROVE Orderly(s)'
    <2>1. CASE HeadUnmoved(s)
      <3>1. /\ UNCHANGED <<op, arg>> /\ pc[s] = "skill"
            /\ pc'[s] = IF op[s] = "gate" THEN "commit" ELSE "audit"
            /\ held'[s] = held[s] \cup {SkillRow(SkillOf[subject[s]])}
            /\ SkillRow(SkillOf[subject[s]])[1] = "skill"
        BY <1>16, <2>1 DEF LockSkill, Goto, Then, Locks, Wants, TypeOK, SkillRow
      <3>2. QED
        BY <3>1 DEF Orderly, Operators
    <2>2. CASE ~HeadUnmoved(s)
      BY <1>16, <2>2, EndsOrderly DEF LockSkill
    <2>3. QED
      BY <2>1, <2>2
  <1>17. ASSUME WriteAudit(s) PROVE Orderly(s)'
    <2>1. /\ UNCHANGED <<op, arg>> /\ pc[s] = "audit"
          /\ pc'[s] = IF op[s] = "gate" THEN "bench" ELSE "commit"
          /\ held'[s] = held[s] \cup {AuditChain} /\ AuditChain[1] = "audit"
      BY <1>17 DEF WriteAudit, Goto, Then, Locks, Wants, TypeOK, AuditChain
    <2>2. QED
      BY <2>1 DEF Orderly, Operators
  <1>18. ASSUME NEW verdict \in Verdict, RunBenchmark(s, verdict) PROVE Orderly(s)'
    <2>1. op'[s] = op[s] /\ op[s] = "gate"
      BY <1>18 DEF RunBenchmark, SessionInv, Artifact
    <2>2. QED
      BY <2>1 DEF Orderly, Operators
  <1>19. ASSUME CommitGate(s) PROVE Orderly(s)'
    BY <1>19, EndsOrderly DEF CommitGate, Commits
  <1>20. ASSUME CommitProposal(s) PROVE Orderly(s)'
    BY <1>20, EndsOrderly DEF CommitProposal, Commits
  <1>21. ASSUME CommitDecision(s) PROVE Orderly(s)'
    BY <1>21, EndsOrderly DEF CommitDecision, Commits
  <1>22. ASSUME CommitDeploy(s) PROVE Orderly(s)'
    BY <1>22, EndsOrderly DEF CommitDeploy, Commits
  <1>23. ASSUME CommitRollback(s) PROVE Orderly(s)'
    BY <1>23, EndsOrderly DEF CommitRollback, Commits
  <1>24. ASSUME CommitArtifact(s) PROVE Orderly(s)'
    BY <1>24, EndsOrderly DEF CommitArtifact, Commits
  <1>25. ASSUME CommitRevert(s) PROVE Orderly(s)'
    BY <1>25, EndsOrderly DEF CommitRevert, Commits
  <1>26. ASSUME DeadlockAbort(s) PROVE Orderly(s)'
    BY <1>26, EndsOrderly DEF DeadlockAbort
  <1>27. ASSUME Abort(s) PROVE Orderly(s)'
    BY <1>27, EndsOrderly DEF Abort
  <1>28. QED
    BY <1>1, <1>2, <1>3, <1>4, <1>5, <1>6, <1>7, <1>8, <1>9, <1>10, <1>11, <1>12, <1>13, <1>14, <1>15, <1>16, <1>17, <1>18, <1>19, <1>20, <1>21, <1>22, <1>23, <1>24, <1>25, <1>26, <1>27
    DEF Request, Statement, Commit

\* Every step keeps OrderlyInv.
LEMMA OrderlyStep ==
    ASSUME TypeOK, SessionInv, OrderlyInv, Next \/ UNCHANGED vars
    PROVE  OrderlyInv'
  <1>1. ASSUME NEW s \in Session, Request(s) \/ Statement(s) \/ DeadlockAbort(s) \/ Abort(s)
        PROVE  OrderlyInv'
    <2>1. Orderly(s)'
      BY <1>1, OrderlyOwn DEF OrderlyInv
    <2>2. ASSUME NEW u \in Session \ {s} PROVE Orderly(u)'
      BY <1>1, Frame DEF OthersKept, OrderlyInv, Orderly
    <2>3. QED
      BY <2>1, <2>2 DEF OrderlyInv
  <1>2. ASSUME UNCHANGED vars PROVE OrderlyInv'
    BY <1>2 DEF OrderlyInv, Orderly, vars
  <1>3. QED
    BY <1>1, <1>2 DEF Next

\* Operations that keep their locks in order are in no cycle: the last lock of
\* the order is held only by those that wait for nothing, so nobody waits for
\* it, and so on down to the first.
LEMMA OrderlyNeverDeadlock ==
    ASSUME TypeOK, SessionInv, OrderlyInv
    PROVE  OperatorsNeverDeadlock
  <1> SUFFICES ASSUME NEW C \in SUBSET {s \in Session : op[s] \in Operators}, C # {},
                      \A s \in C : \E t \in C : WaitsFor(s, t)
               PROVE  FALSE
    BY DEF OperatorsNeverDeadlock, Cycle, Operators
  <1>1. ASSUME NEW s \in C
        PROVE  \E t \in C : \E l \in Wants(s), m \in held[t] : l[1] = m[1]
    BY DEF WaitsFor, Clash
  <1>2. ASSUME NEW s \in C
        PROVE  /\ pc[s] \in {"row", "seed", "write", "skill", "audit"}
               /\ pc[s] = "row" => \A l \in Wants(s) : l[1] = "proposal"
               /\ pc[s] \in {"seed", "write"} => \A l \in Wants(s) : l[1] = "workflow"
               /\ pc[s] = "skill" => \A l \in Wants(s) : l[1] = "skill"
               /\ pc[s] = "audit" => \A l \in Wants(s) : l[1] = "audit"
    <2>1. Wants(s) # {}
      BY <1>1
    <2>2. pc[s] \notin {"workflow", "traces", "clusters"}
      BY DEF SessionInv, Operators
    <2>3. QED
      BY <2>1, <2>2 DEF Wants, Row, Workflow, SkillRow, AuditChain
  <1>3. ASSUME NEW t \in C, NEW m \in held[t]
        PROVE  /\ m[1] = "proposal" => pc[t] # "row"
               /\ m[1] \in {"workflow", "skill"} => pc[t] \in {"audit", "commit"}
               /\ m[1] = "audit" => pc[t] = "commit"
    BY DEF OrderlyInv, Orderly
  <1>4. ASSUME NEW s \in C, pc[s] \in {"audit"} PROVE FALSE
    <2>1. PICK t \in C : \E l \in Wants(s), m \in held[t] : l[1] = m[1]
      BY <1>1
    <2>2. PICK m \in held[t] : m[1] = "audit"
      BY <1>2, <1>4, <2>1
    <2>3. pc[t] = "commit"
      BY <1>3, <2>2
    <2>4. QED
      BY <1>2, <2>3
  <1>5. ASSUME NEW s \in C, pc[s] \in {"skill"} PROVE FALSE
    <2>1. PICK t \in C : \E l \in Wants(s), m \in held[t] : l[1] = m[1]
      BY <1>1
    <2>2. PICK m \in held[t] : m[1] = "skill"
      BY <1>2, <1>5, <2>1
    <2>3. pc[t] \in {"audit", "commit"}
      BY <1>3, <2>2
    <2>4. QED
      BY <1>2, <1>4, <2>3
  <1>6. ASSUME NEW s \in C, pc[s] \in {"seed", "write"} PROVE FALSE
    <2>1. PICK t \in C : \E l \in Wants(s), m \in held[t] : l[1] = m[1]
      BY <1>1
    <2>2. PICK m \in held[t] : m[1] = "workflow"
      BY <1>2, <1>6, <2>1
    <2>3. pc[t] \in {"audit", "commit"}
      BY <1>3, <2>2
    <2>4. QED
      BY <1>2, <1>4, <2>3
  <1>7. ASSUME NEW s \in C, pc[s] \in {"row"} PROVE FALSE
    <2>1. PICK t \in C : \E l \in Wants(s), m \in held[t] : l[1] = m[1]
      BY <1>1
    <2>2. PICK m \in held[t] : m[1] = "proposal"
      BY <1>2, <1>7, <2>1
    <2>3. pc[t] # "row"
      BY <1>3, <2>2
    <2>4. QED
      BY <1>2, <1>4, <1>5, <1>6, <2>3
  <1>8. QED
    BY <1>2, <1>4, <1>5, <1>6, <1>7

-----------------------------------------------------------------------------
(***************************************************************************)
(* The entry a commit appends.                                             *)
(***************************************************************************)
PointerTo(s) ==
    IF \/ op[s] = "gate" /\ arg[s] = "pass"
       \/ op[s] = "deploy" /\ subject[s] \in Skills
       \/ op[s] = "revert"
    THEN subject[s]
    ELSE IF op[s] = "rollback" THEN seen[s] ELSE None
PointerFrom(s) ==
    IF op[s] = "revert" \/ (op[s] = "deploy" /\ subject[s] \in Skills) THEN seen[s]
    ELSE IF op[s] = "rollback" THEN subject[s] ELSE None
Committed(s) == [seq |-> seq[s], kind |-> op[s], about |-> subject[s], verdict |-> Ruling(arg[s]),
                 version |-> PointerTo(s), prior |-> PointerFrom(s), read |-> read[s]]

\* A commit appends its transaction's entry, numbered by its place.
LEMMA EntryCommitted ==
    ASSUME TypeOK, SessionInv, UnderLockInv, NEW s \in Session, Commit(s)
    PROVE  /\ Len(log) \in Nat /\ DOMAIN log = 1..Len(log)
           /\ Len(log') = Len(log) + 1 /\ DOMAIN log' = 1..(Len(log) + 1)
           /\ \A i \in 1..Len(log) : log'[i] = log[i]
           /\ log'[Len(log) + 1] = Committed(s)
           /\ seq[s] = Len(log) + 1
           /\ op[s] # "none" /\ pc[s] = "commit" /\ subject[s] \in Version
           /\ op[s] # "revert" => subject[s] \in Proposal
  <1>1. /\ op[s] # "none" => subject[s] \in Version
        /\ op[s] \notin {"none", "revert"} => subject[s] \in Proposal
    BY SkillFacts DEF SessionInv, TypeOK, Op, RowLocking
  <1>2. op[s] # "none" /\ pc[s] = "commit" /\ log' = Append(log, Committed(s))
    <2>1. CASE CommitGate(s)
      BY <2>1 DEF CommitGate, Commits, Committed, PointerTo, PointerFrom
    <2>2. CASE CommitProposal(s)
      BY <2>2 DEF CommitProposal, Commits, Committed, PointerTo, PointerFrom
    <2>3. CASE CommitDecision(s)
      BY <2>3 DEF CommitDecision, Commits, Committed, PointerTo, PointerFrom
    <2>4. CASE CommitDeploy(s)
      BY <2>4 DEF CommitDeploy, Commits, Committed, PointerTo, PointerFrom
    <2>5. CASE CommitRollback(s)
      BY <2>5 DEF CommitRollback, Commits, Committed, PointerTo, PointerFrom
    <2>6. CASE CommitArtifact(s)
      BY <2>6 DEF CommitArtifact, Commits, Committed, PointerTo, PointerFrom, Artifact
    <2>7. CASE CommitRevert(s)
      BY <2>7 DEF CommitRevert, Commits, Committed, PointerTo, PointerFrom
    <2>8. QED
      BY <2>1, <2>2, <2>3, <2>4, <2>5, <2>6, <2>7 DEF Commit
  <1>3. Committed(s) \in Entry
    <2>1. PointerTo(s) \in Version \cup {None} /\ PointerFrom(s) \in Version \cup {None}
      BY <1>1, <1>2 DEF PointerTo, PointerFrom, TypeOK
    <2>2. Ruling(arg[s]) \in Verdict \cup Decision \cup {None}
      BY DEF Ruling, TypeOK, Decision
    <2>3. QED
      BY <1>1, <1>2, <2>1, <2>2 DEF Committed, Entry, TypeOK
  <1>4. log \in Seq(Entry)
    BY DEF TypeOK
  <1>5. /\ Len(log) \in Nat /\ DOMAIN log = 1..Len(log)
        /\ Len(log') = Len(log) + 1
        /\ \A i \in 1..Len(log) : log'[i] = log[i]
        /\ log'[Len(log) + 1] = Committed(s)
    BY <1>2, <1>3, <1>4, AppendFacts
  <1>6. DOMAIN log' = 1..(Len(log) + 1)
    <2>1. log' \in Seq(Entry)
      BY <1>2, <1>3, <1>4, AppendFacts
    <2>2. QED
      BY <1>5, <2>1
  <1>7. seq[s] = Len(log) + 1
    BY <1>2 DEF UnderLockInv, Under
  <1>8. QED
    BY <1>1, <1>2, <1>5, <1>6, <1>7

\* A verdict of "pass" is a gate's.
LEMMA PassIsGate ==
    ASSUME TypeOK, SessionInv, OrderlyInv, NEW s \in Session, op[s] # "none", op[s] # "gate"
    PROVE  Ruling(arg[s]) # "pass"
  <1>1. CASE op[s] = "decide"
    BY <1>1 DEF SessionInv, Ruling, Decision
  <1>2. CASE op[s] # "decide"
    <2>1. arg[s] = None
      BY <1>2 DEF OrderlyInv, Orderly, TypeOK, Op
    <2>2. None # "pass"
      BY LifecycleAssumption DEF Verdict
    <2>3. QED
      BY <2>1, <2>2 DEF Ruling
  <1>3. QED
    BY <1>1, <1>2

\* What is read of the entries.
Afters   == [i \in DOMAIN log |-> StateAfter(log[i])]
Versions == [i \in DOMAIN log |-> log[i].version]

\* Which of them a transaction adds to.
Decides(s, p)   == op[s] # "revert" /\ subject[s] = p
MovesLive(s, k) == op[s] \in {"deploy", "rollback"} /\ SkillOf[subject[s]] = k
MovesHead(s, k) ==
    /\ op[s] = "revert" \/ (op[s] = "gate" /\ arg[s] = "pass")
    /\ SkillOf[subject[s]] = k
WritesSpec(s)   == op[s] = "deploy" /\ subject[s] \in Artifact
WritesTo(s, x)  == WritesSpec(s) /\ SectionOf[subject[s]] = x

\* A commit adds its entry to those, and to no other.
LEMMA IndicesAppended ==
    ASSUME TypeOK, SessionInv, UnderLockInv, OrderlyInv, NEW s \in Session, Commit(s)
    PROVE  /\ \A p \in Proposal :
                 About(p)' = IF Decides(s, p) THEN About(p) \cup {Len(log) + 1} ELSE About(p)
           /\ \A k \in Skill :
                 LiveMoves(k)' = IF MovesLive(s, k) THEN LiveMoves(k) \cup {Len(log) + 1} ELSE LiveMoves(k)
           /\ \A k \in Skill :
                 HeadMoves(k)' = IF MovesHead(s, k) THEN HeadMoves(k) \cup {Len(log) + 1} ELSE HeadMoves(k)
           /\ SpecMoves' = IF WritesSpec(s) THEN SpecMoves \cup {Len(log) + 1} ELSE SpecMoves
           /\ \A x \in Section :
                 CarriedIn(x)' = IF WritesTo(s, x) THEN CarriedIn(x) \cup {Len(log) + 1} ELSE CarriedIn(x)
  <1> DEFINE N == Len(log)
  <1>1. /\ N \in Nat /\ DOMAIN log = 1..N /\ DOMAIN log' = 1..(N + 1)
        /\ \A i \in 1..N : log'[i] = log[i]
        /\ log'[N + 1] = Committed(s) /\ op[s] # "none"
    BY EntryCommitted
  <1>2. /\ log'[N + 1].kind = op[s] /\ log'[N + 1].about = subject[s]
        /\ log'[N + 1].verdict = Ruling(arg[s])
    BY <1>1 DEF Committed
  <1>3. Ruling(arg[s]) = "pass" <=> op[s] = "gate" /\ arg[s] = "pass"
    <2>1. CASE op[s] = "gate"
      BY <2>1 DEF Ruling
    <2>2. CASE op[s] # "gate"
      BY <1>1, <2>2, PassIsGate
    <2>3. QED
      BY <2>1, <2>2
  <1>4. DOMAIN log' = DOMAIN log \cup {N + 1} /\ \A i \in DOMAIN log : log'[i] = log[i]
    BY <1>1
  <1> HIDE DEF N
  <1>5. ASSUME NEW p \in Proposal
        PROVE  About(p)' = IF Decides(s, p) THEN About(p) \cup {N + 1} ELSE About(p)
    BY <1>2, <1>4 DEF About, Decides
  <1>6. ASSUME NEW k \in Skill
        PROVE  LiveMoves(k)' = IF MovesLive(s, k) THEN LiveMoves(k) \cup {N + 1} ELSE LiveMoves(k)
    BY <1>2, <1>4 DEF LiveMoves, MovesLive
  <1>7. ASSUME NEW k \in Skill
        PROVE  HeadMoves(k)' = IF MovesHead(s, k) THEN HeadMoves(k) \cup {N + 1} ELSE HeadMoves(k)
    BY <1>2, <1>3, <1>4 DEF HeadMoves, MovesHead
  <1>8. ASSUME NEW x \in Section
        PROVE  CarriedIn(x)' = IF WritesTo(s, x) THEN CarriedIn(x) \cup {N + 1} ELSE CarriedIn(x)
    BY <1>2, <1>4 DEF CarriedIn, SpecMoves, WritesTo, WritesSpec
  <1>9. SpecMoves' = IF WritesSpec(s) THEN SpecMoves \cup {N + 1} ELSE SpecMoves
    BY <1>2, <1>4 DEF SpecMoves, WritesSpec
  <1>10. QED
    BY <1>5, <1>6, <1>7, <1>8, <1>9 DEF N

-----------------------------------------------------------------------------
(***************************************************************************)
(* The log tells the states.                                               *)
(***************************************************************************)
LifeInv ==
    \A p \in Proposal :
        /\ pstate[p] \in Replay(About(p), Len(log) + 1, Afters, "absent")
        /\ \A i \in About(p) : StateBefore(log[i]) \in Replay(About(p), i, Afters, "absent")

HeadInv ==
    \A k \in Skill :
        /\ head[k] \in Replay(HeadMoves(k), Len(log) + 1, Versions, BaseOf[k])
        /\ \A i \in HeadMoves(k) :
              log[i].kind = "revert" => log[i].prior \in Replay(HeadMoves(k), i, Versions, BaseOf[k])

PointerInv ==
    \A k \in Skill : live[k] \in Replay(LiveMoves(k), Len(log) + 1, Versions, None)

\* What a commit makes of the proposal, and what it found.
LEMMA CommitMoves ==
    ASSUME TypeOK, SessionInv, FreshInv, UnderLockInv, NEW s \in Session, Commit(s)
    PROVE  /\ \A p \in Proposal : ~Decides(s, p) => pstate'[p] = pstate[p]
           /\ op[s] # "revert" => /\ pstate'[subject[s]] = StateAfter(Committed(s))
                                  /\ pstate[subject[s]] = StateBefore(Committed(s))
  <1>1. /\ Committed(s).kind = op[s] /\ Committed(s).verdict = Ruling(arg[s])
        /\ pstate \in [Proposal -> State] /\ pc[s] = "commit"
        /\ op[s] # "revert" => subject[s] \in Proposal
    BY EntryCommitted DEF Committed, TypeOK
  <1>2. /\ op[s] \in Creating => pstate[subject[s]] = "absent"
        /\ op[s] \in RowLocking => Admits(s)
    BY <1>1 DEF FreshInv, UnderLockInv, Under
  <1>3. CASE CommitGate(s)
    <2>1. op[s] = "gate" /\ pstate' = [pstate EXCEPT ![subject[s]] = AfterGate(arg[s])]
      BY <1>3 DEF CommitGate
    <2>2. Ruling(arg[s]) = arg[s]
      BY <1>1, <2>1 DEF SessionInv, Ruling, Verdict
    <2>3. QED
      BY <1>1, <1>2, <2>1, <2>2 DEF Creating, Decides, StateAfter, StateBefore
  <1>4. CASE CommitProposal(s)
    <2>1. op[s] \in {"runner", "propose"} /\ pstate' = [pstate EXCEPT ![subject[s]] = "gate-passed"]
      BY <1>4 DEF CommitProposal
    <2>2. QED
      BY <1>1, <1>2, <2>1 DEF Creating, Decides, StateAfter, StateBefore
  <1>5. CASE CommitDecision(s)
    <2>1. op[s] = "decide" /\ pstate' = [pstate EXCEPT ![subject[s]] = AfterDecision(Ruling(arg[s]))]
      BY <1>5 DEF CommitDecision
    <2>2. QED
      BY <1>1, <1>2, <2>1 DEF RowLocking, Admits, Decides, StateAfter, StateBefore
  <1>6. CASE CommitDeploy(s) \/ CommitArtifact(s)
    <2>1. op[s] = "deploy" /\ pstate' = [pstate EXCEPT ![subject[s]] = "deployed"]
      BY <1>6 DEF CommitDeploy, CommitArtifact
    <2>2. QED
      BY <1>1, <1>2, <2>1 DEF RowLocking, Admits, Decides, StateAfter, StateBefore
  <1>7. CASE CommitRollback(s)
    <2>1. op[s] = "rollback" /\ pstate' = [pstate EXCEPT ![subject[s]] = "rolled-back"]
      BY <1>7 DEF CommitRollback
    <2>2. QED
      BY <1>1, <1>2, <2>1 DEF RowLocking, Admits, Decides, StateAfter, StateBefore
  <1>8. CASE CommitRevert(s)
    BY <1>8 DEF CommitRevert
  <1>9. QED
    BY <1>3, <1>4, <1>5, <1>6, <1>7, <1>8 DEF Commit

\* What a commit makes of the pointers.
LEMMA CommitPoints ==
    ASSUME TypeOK, SessionInv, UnderLockInv, NEW s \in Session, Commit(s)
    PROVE  /\ \A k \in Skill : head'[k] = IF MovesHead(s, k) THEN PointerTo(s) ELSE head[k]
           /\ \A k \in Skill : live'[k] = IF MovesLive(s, k) THEN PointerTo(s) ELSE live[k]
           /\ \A k \in Skill : op[s] = "revert" /\ MovesHead(s, k) => PointerFrom(s) = head[k]
  <1>1. head \in [Skill -> Version] /\ live \in [Skill -> Version \cup {None}]
    BY DEF TypeOK
  <1>2. /\ op[s] \in {"gate", "revert"} => SkillOf[subject[s]] \in Skill
        /\ op[s] = "rollback" /\ pc[s] = "commit" => SkillOf[subject[s]] \in Skill
        /\ subject[s] \in Skills => SkillOf[subject[s]] \in Skill
        /\ subject[s] \in Artifact => SkillOf[subject[s]] = None /\ None \notin Skill
    BY SkillFacts, LifecycleAssumption DEF SessionInv
  <1> USE DEF MovesHead, MovesLive, PointerTo, PointerFrom
  <1>3. CASE CommitGate(s)
    BY <1>1, <1>2, <1>3 DEF CommitGate, HeadAfterGate
  <1>4. CASE CommitProposal(s)
    BY <1>4 DEF CommitProposal
  <1>5. CASE CommitDecision(s)
    BY <1>5 DEF CommitDecision
  <1>6. CASE CommitDeploy(s)
    BY <1>1, <1>2, <1>6 DEF CommitDeploy
  <1>7. CASE CommitRollback(s)
    BY <1>1, <1>2, <1>7 DEF CommitRollback, Commits
  <1>8. CASE CommitArtifact(s)
    BY <1>1, <1>2, <1>8 DEF CommitArtifact
  <1>9. CASE CommitRevert(s)
    <2>1. head[SkillOf[subject[s]]] = seen[s]
      BY <1>9 DEF CommitRevert, Commits, UnderLockInv, Under
    <2>2. QED
      BY <1>1, <1>2, <1>9, <2>1 DEF CommitRevert
  <1>10. QED
    BY <1>3, <1>4, <1>5, <1>6, <1>7, <1>8, <1>9 DEF Commit

\* What the log says of its entries before a commit, and after it.
LEMMA ValuesAppended ==
    ASSUME TypeOK, SessionInv, UnderLockInv, NEW s \in Session, Commit(s)
    PROVE  /\ \A i \in 1..Len(log) : /\ Afters'[i] = Afters[i]
                                     /\ Versions'[i] = Versions[i]
           /\ Afters'[Len(log) + 1] = StateAfter(Committed(s))
           /\ Versions'[Len(log) + 1] = PointerTo(s)
  <1>1. /\ Len(log) \in Nat /\ DOMAIN log = 1..Len(log) /\ DOMAIN log' = 1..(Len(log) + 1)
        /\ \A i \in 1..Len(log) : log'[i] = log[i]
        /\ log'[Len(log) + 1] = Committed(s)
    BY EntryCommitted
  <1>2. Committed(s).version = PointerTo(s)
    BY DEF Committed
  <1>3. \A i \in DOMAIN log' : /\ Afters'[i] = StateAfter(log'[i])
                               /\ Versions'[i] = log'[i].version
    BY DEF Afters, Versions, StateAfter
  <1>4. \A i \in DOMAIN log : /\ Afters[i] = StateAfter(log[i])
                              /\ Versions[i] = log[i].version
    BY DEF Afters, Versions
  <1>5. Len(log) + 1 \in DOMAIN log' /\ \A i \in 1..Len(log) : i \in DOMAIN log'
    BY <1>1
  <1>6. QED
    BY <1>1, <1>2, <1>3, <1>4, <1>5

\* A commit keeps the entries about each proposal a path to its state.
LEMMA LifeStep ==
    ASSUME TypeOK, SessionInv, FreshInv, UnderLockInv, OrderlyInv, LifeInv,
           NEW s \in Session, Commit(s)
    PROVE  LifeInv'
  <1>1. PICK n \in Nat : n = Len(log)
    BY EntryCommitted
  <1>2. /\ DOMAIN log = 1..n /\ Len(log') = n + 1
        /\ \A i \in 1..n : log'[i] = log[i]
        /\ log'[n + 1] = Committed(s)
        /\ op[s] # "revert" => subject[s] \in Proposal
    BY <1>1, EntryCommitted
  <1>3. (\A i \in 1..n : Afters'[i] = Afters[i]) /\ Afters'[n + 1] = StateAfter(Committed(s))
    BY <1>1, ValuesAppended
  <1> SUFFICES ASSUME NEW p \in Proposal
               PROVE  /\ pstate'[p] \in Replay(About(p)', n + 2, Afters', "absent")
                      /\ \A i \in About(p)' : StateBefore(log'[i]) \in Replay(About(p)', i, Afters', "absent")
    <2>1. Len(log') + 1 = n + 2
      BY <1>2
    <2>2. QED
      BY <2>1 DEF LifeInv, StateBefore
  <1>4. PICK I : I = About(p)
    OBVIOUS
  <1>5. /\ I \in SUBSET (1..n)
        /\ pstate[p] \in Replay(I, n + 1, Afters, "absent")
        /\ \A i \in I : StateBefore(log[i]) \in Replay(I, i, Afters, "absent")
    BY <1>1, <1>2, <1>4 DEF LifeInv, About
  <1>6. PICK val, new, absent : val = Afters /\ new = Afters' /\ absent = "absent"
    OBVIOUS
  <1>7. /\ Replay(I \cup {n + 1}, n + 2, new, absent) = {new[n + 1]}
        /\ \A i \in Nat : i <= n + 1 => Replay(I \cup {n + 1}, i, new, absent) = Replay(I, i, val, absent)
        /\ \A i \in Nat : Replay(I, i, new, absent) = Replay(I, i, val, absent)
        /\ Replay(I, n + 2, new, absent) = Replay(I, n + 1, val, absent)
    <2>1. I \in SUBSET (1..n) /\ \A i \in 1..n : new[i] = val[i]
      BY <1>3, <1>5, <1>6
    <2>2. Appends(n, I, val, new, absent)
      BY <2>1, ReplayAppended
    <2>3. QED
      BY <2>2 DEF Appends
  <1>8. \A i \in I : i \in Nat /\ i <= n + 1 /\ log'[i] = log[i]
    BY <1>2, <1>5
  <1>9. \A i \in I : StateBefore(log'[i]) = StateBefore(log[i])
    BY <1>8
  <1>10. CASE Decides(s, p)
    <2>1. About(p)' = I \cup {n + 1}
      BY <1>1, <1>4, <1>10, IndicesAppended
    <2>2. pstate'[p] = StateAfter(Committed(s)) /\ pstate[p] = StateBefore(Committed(s))
      BY <1>10, CommitMoves DEF Decides
    <2>3. pstate'[p] \in Replay(I \cup {n + 1}, n + 2, new, absent)
      BY <1>3, <1>6, <1>7, <2>2
    <2>4. ASSUME NEW i \in I
          PROVE  StateBefore(log'[i]) \in Replay(I \cup {n + 1}, i, new, absent)
      BY <1>5, <1>6, <1>7, <1>8, <1>9
    <2>5. StateBefore(log'[n + 1]) \in Replay(I \cup {n + 1}, n + 1, new, absent)
      <3>1. StateBefore(log'[n + 1]) = pstate[p]
        BY <1>2, <2>2
      <3>2. Replay(I \cup {n + 1}, n + 1, new, absent) = Replay(I, n + 1, val, absent)
        BY <1>7
      <3>3. QED
        BY <1>5, <1>6, <3>1, <3>2
    <2>6. QED
      BY <1>6, <2>1, <2>3, <2>4, <2>5
  <1>11. CASE ~Decides(s, p)
    <2>1. About(p)' = I /\ pstate'[p] = pstate[p]
      BY <1>4, <1>11, IndicesAppended, CommitMoves
    <2>2. QED
      BY <1>5, <1>6, <1>7, <1>8, <1>9, <2>1
  <1>12. QED
    BY <1>10, <1>11

\* A commit keeps the heads what the log replays, and a revert names the one it
\* replaces.
LEMMA HeadStep ==
    ASSUME TypeOK, SessionInv, UnderLockInv, OrderlyInv, HeadInv,
           NEW s \in Session, Commit(s)
    PROVE  HeadInv'
  <1>1. PICK n \in Nat : n = Len(log)
    BY EntryCommitted
  <1>2. /\ DOMAIN log = 1..n /\ Len(log') = n + 1
        /\ \A i \in 1..n : log'[i] = log[i]
        /\ log'[n + 1] = Committed(s)
    BY <1>1, EntryCommitted
  <1>3. (\A i \in 1..n : Versions'[i] = Versions[i]) /\ Versions'[n + 1] = PointerTo(s)
    BY <1>1, ValuesAppended
  <1> SUFFICES ASSUME NEW k \in Skill
               PROVE  /\ head'[k] \in Replay(HeadMoves(k)', n + 2, Versions', BaseOf[k])
                      /\ \A i \in HeadMoves(k)' :
                            log'[i].kind = "revert" => log'[i].prior \in Replay(HeadMoves(k)', i, Versions', BaseOf[k])
    <2>1. Len(log') + 1 = n + 2
      BY <1>2
    <2>2. QED
      BY <2>1 DEF HeadInv
  <1>4. PICK I : I = HeadMoves(k)
    OBVIOUS
  <1>5. /\ I \in SUBSET (1..n)
        /\ head[k] \in Replay(I, n + 1, Versions, BaseOf[k])
        /\ \A i \in I : log[i].kind = "revert" => log[i].prior \in Replay(I, i, Versions, BaseOf[k])
    BY <1>1, <1>2, <1>4 DEF HeadInv, HeadMoves
  <1>6. PICK val, new, base : val = Versions /\ new = Versions' /\ base = BaseOf[k]
    OBVIOUS
  <1>7. /\ Replay(I \cup {n + 1}, n + 2, new, base) = {new[n + 1]}
        /\ \A i \in Nat : i <= n + 1 => Replay(I \cup {n + 1}, i, new, base) = Replay(I, i, val, base)
        /\ \A i \in Nat : Replay(I, i, new, base) = Replay(I, i, val, base)
        /\ Replay(I, n + 2, new, base) = Replay(I, n + 1, val, base)
    <2>1. I \in SUBSET (1..n) /\ \A i \in 1..n : new[i] = val[i]
      BY <1>3, <1>5, <1>6
    <2>2. Appends(n, I, val, new, base)
      BY <2>1, ReplayAppended
    <2>3. QED
      BY <2>2 DEF Appends
  <1>8. \A i \in I : i \in Nat /\ i <= n + 1 /\ log'[i] = log[i]
    BY <1>2, <1>5
  <1>9. CASE MovesHead(s, k)
    <2>1. HeadMoves(k)' = I \cup {n + 1} /\ head'[k] = PointerTo(s)
      BY <1>1, <1>4, <1>9, IndicesAppended, CommitPoints
    <2>2. head'[k] \in Replay(I \cup {n + 1}, n + 2, new, base)
      BY <1>3, <1>6, <1>7, <2>1
    <2>3. ASSUME NEW i \in I, log'[i].kind = "revert"
          PROVE  log'[i].prior \in Replay(I \cup {n + 1}, i, new, base)
      BY <1>5, <1>6, <1>7, <1>8, <2>3
    <2>4. ASSUME log'[n + 1].kind = "revert"
          PROVE  log'[n + 1].prior \in Replay(I \cup {n + 1}, n + 1, new, base)
      <3>1. op[s] = "revert" /\ log'[n + 1].prior = PointerFrom(s)
        BY <1>2, <2>4 DEF Committed
      <3>2. PointerFrom(s) = head[k]
        BY <1>9, <3>1, CommitPoints
      <3>3. Replay(I \cup {n + 1}, n + 1, new, base) = Replay(I, n + 1, val, base)
        BY <1>7
      <3>4. QED
        BY <1>5, <1>6, <3>1, <3>2, <3>3
    <2>5. QED
      BY <1>6, <2>1, <2>2, <2>3, <2>4
  <1>10. CASE ~MovesHead(s, k)
    <2>1. HeadMoves(k)' = I /\ head'[k] = head[k]
      BY <1>4, <1>10, IndicesAppended, CommitPoints
    <2>2. QED
      BY <1>5, <1>6, <1>7, <1>8, <2>1, ZenonT(60)
  <1>11. QED
    BY <1>9, <1>10

\* A commit keeps the deployed versions what the log replays.
LEMMA PointerStep ==
    ASSUME TypeOK, SessionInv, UnderLockInv, OrderlyInv, PointerInv,
           NEW s \in Session, Commit(s)
    PROVE  PointerInv'
  <1>1. PICK n \in Nat : n = Len(log)
    BY EntryCommitted
  <1>2. DOMAIN log = 1..n /\ Len(log') = n + 1
    BY <1>1, EntryCommitted
  <1>3. (\A i \in 1..n : Versions'[i] = Versions[i]) /\ Versions'[n + 1] = PointerTo(s)
    BY <1>1, ValuesAppended
  <1> SUFFICES ASSUME NEW k \in Skill
               PROVE  live'[k] \in Replay(LiveMoves(k)', n + 2, Versions', None)
    <2>1. Len(log') + 1 = n + 2
      BY <1>2
    <2>2. QED
      BY <2>1 DEF PointerInv
  <1>4. PICK I : I = LiveMoves(k)
    OBVIOUS
  <1>5. I \in SUBSET (1..n) /\ live[k] \in Replay(I, n + 1, Versions, None)
    BY <1>1, <1>2, <1>4 DEF PointerInv, LiveMoves
  <1>6. PICK val, new, none : val = Versions /\ new = Versions' /\ none = None
    OBVIOUS
  <1>7. /\ Replay(I \cup {n + 1}, n + 2, new, none) = {new[n + 1]}
        /\ Replay(I, n + 2, new, none) = Replay(I, n + 1, val, none)
    <2>1. I \in SUBSET (1..n) /\ \A i \in 1..n : new[i] = val[i]
      BY <1>3, <1>5, <1>6
    <2>2. Appends(n, I, val, new, none)
      BY <2>1, ReplayAppended
    <2>3. QED
      BY <2>2 DEF Appends
  <1>8. CASE MovesLive(s, k)
    <2>1. LiveMoves(k)' = I \cup {n + 1} /\ live'[k] = PointerTo(s)
      BY <1>1, <1>4, <1>8, IndicesAppended, CommitPoints
    <2>2. QED
      BY <1>3, <1>6, <1>7, <2>1
  <1>9. CASE ~MovesLive(s, k)
    <2>1. LiveMoves(k)' = I /\ live'[k] = live[k]
      BY <1>4, <1>9, IndicesAppended, CommitPoints
    <2>2. QED
      BY <1>5, <1>6, <1>7, <2>1
  <1>10. QED
    BY <1>8, <1>9

-----------------------------------------------------------------------------
(***************************************************************************)
(* What a deployment or rollback has read is still so when it commits,     *)
(* unless another one has committed meanwhile.                             *)
(***************************************************************************)
OutOfDate(s) == \E j \in LiveMoves(SkillOf[subject[s]]) : read[s] < j

\* The entry i of a section's deployment has not been written over.
Intact(x, i) == \A j \in SpecMoves : j > i => SectionOf[log[j].about] # x /\ log[j].read >= i

\* What a deployment, a rollback and an artifact's deployment carry to their
\* commits.
Deploying(s) ==
    op[s] = "deploy" /\ subject[s] \in Skills /\ pc[s] \in {"prior", "skill", "audit", "commit"} /\ ~OutOfDate(s) =>
        /\ Rivals(subject[s]) = {}
        /\ pc[s] # "prior" => seen[s] = live[SkillOf[subject[s]]]
Restoring(s) ==
    op[s] = "rollback" /\ pc[s] \in {"skill", "audit", "commit"} =>
        \/ seen[s] = None
        \/ /\ OutOfDate(s) \/ Contested(SkillOf[subject[s]])
           /\ seen[s] \in Proposal \ {subject[s]} /\ SkillOf[seen[s]] = SkillOf[subject[s]]
           /\ pstate[seen[s]] \in {"deployed", "rolled-back"}
Drafting(s) ==
    op[s] = "deploy" /\ subject[s] \in Artifact /\ pc[s] \in {"write", "audit", "commit"} =>
        /\ draft[s][SectionOf[subject[s]]] = subject[s]
        /\ \A x \in Section \ {SectionOf[subject[s]]} :
              /\ CarriedIn(x) = {} => draft[s][x] = None
              /\ \A i \in CarriedIn(x) : Intact(x, i) /\ i <= read[s] => draft[s][x] = log[i].about
Carried(s) == read[s] <= Len(log) /\ Deploying(s) /\ Restoring(s) /\ Drafting(s)

SpecInv ==
    \A x \in Section :
        /\ CarriedIn(x) = {} => spec[x] = None
        /\ \A i \in CarriedIn(x) : Intact(x, i) => spec[x] = log[i].about

RaceInv == PointerHasProposal /\ SpecInv /\ \A s \in Session : Carried(s)

DeployedKept == \A q \in Skills : pstate'[q] = "deployed" <=> pstate[q] = "deployed"

\* What a proposal's rivals depend on.
LEMMA RivalsFacts ==
    ASSUME NEW p \in Skills
    PROVE  /\ Rivals(p) = {q \in Skills \ {p} : SkillOf[q] = SkillOf[p] /\ pstate[q] = "deployed"}
           /\ DeployedKept => Rivals(p)' = Rivals(p)
  <1>1. \A q \in Proposal : SkillOf[q] = SkillOf[p] => q \in Skills
    BY DEF Skills
  <1>2. Rivals(p) = {q \in Skills \ {p} : SkillOf[q] = SkillOf[p] /\ pstate[q] = "deployed"}
    BY <1>1 DEF Rivals, Skills
  <1>3. Rivals(p)' = {q \in Skills \ {p} : SkillOf[q] = SkillOf[p] /\ pstate'[q] = "deployed"}
    BY <1>1 DEF Rivals, Skills
  <1>4. QED
    BY <1>2, <1>3 DEF DeployedKept

\* A commit that does not deploy or roll back a skill leaves what is live.
LEMMA QuietCommit ==
    ASSUME TypeOK, SessionInv, FreshInv, UnderLockInv, NEW s \in Session,
           CommitGate(s) \/ CommitProposal(s) \/ CommitDecision(s) \/ CommitArtifact(s) \/ CommitRevert(s)
    PROVE  DeployedKept /\ live' = live
  <1>1. pstate \in [Proposal -> State]
    BY DEF TypeOK
  <1>2. Skills \subseteq Proposal
    BY DEF Skills
  <1>3. CASE CommitGate(s)
    <2>1. /\ pstate' = [pstate EXCEPT ![subject[s]] = AfterGate(arg[s])] /\ live' = live
          /\ pstate[subject[s]] = "absent"
      BY <1>3 DEF CommitGate, FreshInv, Creating
    <2>2. AfterGate(arg[s]) # "deployed"
      BY <1>3 DEF CommitGate, Commits, SessionInv, AfterGate, Verdict
    <2>3. QED
      BY <1>1, <1>2, <2>1, <2>2 DEF DeployedKept
  <1>4. CASE CommitProposal(s)
    <2>1. /\ pstate' = [pstate EXCEPT ![subject[s]] = "gate-passed"] /\ live' = live
          /\ pstate[subject[s]] = "absent"
      BY <1>4 DEF CommitProposal, FreshInv, Creating
    <2>2. QED
      BY <1>1, <1>2, <2>1 DEF DeployedKept
  <1>5. CASE CommitDecision(s)
    <2>1. /\ pstate' = [pstate EXCEPT ![subject[s]] = AfterDecision(Ruling(arg[s]))] /\ live' = live
          /\ pstate[subject[s]] = "gate-passed"
      BY <1>5 DEF CommitDecision, Commits, UnderLockInv, Under, Admits, RowLocking
    <2>2. Ruling(arg[s]) \in Decision
      BY <1>5 DEF CommitDecision, Commits, SessionInv, Ruling, Decision
    <2>3. AfterDecision(Ruling(arg[s])) # "deployed"
      BY <2>2 DEF AfterDecision, Decision
    <2>4. QED
      BY <1>1, <1>2, <2>1, <2>3 DEF DeployedKept
  <1>6. CASE CommitArtifact(s)
    <2>1. /\ pstate' = [pstate EXCEPT ![subject[s]] = "deployed"] /\ live' = live
          /\ subject[s] \notin Skills
      BY <1>6 DEF CommitArtifact, Artifact
    <2>2. QED
      BY <1>1, <1>2, <2>1 DEF DeployedKept
  <1>7. CASE CommitRevert(s)
    BY <1>7 DEF CommitRevert, DeployedKept
  <1>8. QED
    BY <1>3, <1>4, <1>5, <1>6, <1>7

-----------------------------------------------------------------------------
\* How a step other than a commit bears on what a session carries: it carries
\* nothing yet or any more, it keeps it, or it reads.
StepShape(s) ==
    \/ op'[s] \notin {"deploy", "rollback"} /\ read'[s] \in {0, read[s]}
    \/ /\ pc'[s] \in {"row", "other", "apply"} \/ (pc'[s] = "prior" /\ op'[s] = "rollback")
       /\ read'[s] \in {0, read[s]}
    \/ /\ pc[s] \in {"skill", "audit", "write"} /\ pc'[s] \in {"audit", "commit"}
       /\ op'[s] = op[s] /\ subject'[s] = subject[s] /\ seen'[s] = seen[s]
       /\ draft'[s] = draft[s] /\ read'[s] = read[s]
    \/ CheckOther(s) /\ ~OtherLive(subject[s])
    \/ ReadPrior(s)
    \/ ReadSpec(s)

\* A transaction that ends carries nothing.
LEMMA EndsShape ==
    ASSUME TypeOK, NEW s \in Session, Ends(s)
    PROVE  op'[s] = "none" /\ read'[s] = 0 /\ StepShape(s)
  BY DEF Ends, TypeOK, StepShape

\* Every step of a session is a commit or has that shape.
LEMMA OwnShape ==
    ASSUME TypeOK, SessionInv, NEW s \in Session,
           Request(s) \/ Statement(s) \/ DeadlockAbort(s) \/ Abort(s), ~Commit(s)
    PROVE  StepShape(s)
  <1>1. ASSUME NEW p \in Proposal, BeginGate(s, p) PROVE StepShape(s)
    BY <1>1 DEF BeginGate, Begin, TypeOK, StepShape
  <1>2. ASSUME NEW p \in Proposal, BeginRunner(s, p) PROVE StepShape(s)
    BY <1>2 DEF BeginRunner, Begin, TypeOK, StepShape
  <1>3. ASSUME NEW p \in Proposal, BeginPropose(s, p) PROVE StepShape(s)
    BY <1>3 DEF BeginPropose, Begin, TypeOK, StepShape
  <1>4. ASSUME NEW p \in Proposal, NEW v \in Decision \cup {"reject-comment"}, BeginDecision(s, p, v) PROVE StepShape(s)
    BY <1>4 DEF BeginDecision, Begin, TypeOK, StepShape
  <1>5. ASSUME NEW p \in Proposal, NEW o \in {"deploy", "rollback"}, BeginDeploy(s, p, o) PROVE StepShape(s)
    BY <1>5 DEF BeginDeploy, Begin, Goto, TypeOK, StepShape
  <1>6. ASSUME NEW v \in Version, BeginRevert(s, v) PROVE StepShape(s)
    BY <1>6 DEF BeginRevert, Begin, TypeOK, StepShape
  <1>7. ASSUME LockWorkflow(s) PROVE StepShape(s)
    <2>1. op[s] = "gate" /\ UNCHANGED <<op, read>>
      BY <1>7 DEF LockWorkflow, SessionInv
    <2>2. QED
      BY <2>1 DEF StepShape
  <1>8. ASSUME InsertTraces(s) PROVE StepShape(s)
    <2>1. op[s] = "runner" /\ UNCHANGED <<op, read>>
      BY <1>8 DEF InsertTraces, SessionInv
    <2>2. QED
      BY <2>1 DEF StepShape
  <1>9. ASSUME AuditClusters(s) PROVE StepShape(s)
    <2>1. op[s] = "runner" /\ UNCHANGED <<op, read>>
      BY <1>9 DEF AuditClusters, SessionInv
    <2>2. QED
      BY <2>1 DEF StepShape
  <1>10. ASSUME SeedEvalCase(s) PROVE StepShape(s)
    <2>1. op[s] = "decide" /\ UNCHANGED <<op, read>>
      BY <1>10 DEF SeedEvalCase, SessionInv
    <2>2. QED
      BY <2>1 DEF StepShape
  <1>11. ASSUME LockRow(s) PROVE StepShape(s)
    <2>1. CASE Admits(s)
      <3>1. op'[s] = op[s] /\ pc'[s] = AfterRow(s) /\ read'[s] = read[s]
        BY <1>11, <2>1 DEF LockRow, Goto, TypeOK
      <3>2. /\ op[s] = "deploy" => AfterRow(s) \in {"other", "apply"}
            /\ op[s] = "rollback" => AfterRow(s) = "prior"
        BY DEF AfterRow
      <3>3. QED
        BY <3>1, <3>2 DEF StepShape
    <2>2. CASE ~Admits(s)
      BY <1>11, <2>2, EndsShape DEF LockRow
    <2>3. QED
      BY <2>1, <2>2
  <1>12. ASSUME CheckOther(s) PROVE StepShape(s)
    BY <1>12, EndsShape DEF CheckOther, StepShape
  <1>13. ASSUME ReadPrior(s) \/ ReadSpec(s) PROVE StepShape(s)
    BY <1>13 DEF StepShape
  <1>14. ASSUME WriteSpec(s) PROVE StepShape(s)
    BY <1>14 DEF WriteSpec, Goto, TypeOK, StepShape
  <1>15. ASSUME LockSkill(s) PROVE StepShape(s)
    <2>1. CASE HeadUnmoved(s)
      <3>1. pc[s] = "skill" /\ pc'[s] = Then(s) /\ UNCHANGED <<op, subject, seen, draft, read>>
        BY <1>15, <2>1 DEF LockSkill, Goto, TypeOK
      <3>2. QED
        BY <3>1 DEF Then, StepShape
    <2>2. CASE ~HeadUnmoved(s)
      BY <1>15, <2>2, EndsShape DEF LockSkill
    <2>3. QED
      BY <2>1, <2>2
  <1>16. ASSUME WriteAudit(s) PROVE StepShape(s)
    <2>1. pc[s] = "audit" /\ pc'[s] = Then(s) /\ UNCHANGED <<op, subject, seen, draft, read>>
      BY <1>16 DEF WriteAudit, Goto, TypeOK
    <2>2. QED
      BY <2>1 DEF Then, StepShape
  <1>17. ASSUME NEW verdict \in Verdict, RunBenchmark(s, verdict) PROVE StepShape(s)
    <2>1. op[s] = "gate" /\ UNCHANGED <<op, read>>
      BY <1>17 DEF RunBenchmark, SessionInv
    <2>2. QED
      BY <2>1 DEF StepShape
  <1>18. ASSUME DeadlockAbort(s) \/ Abort(s) PROVE StepShape(s)
    BY <1>18, EndsShape DEF DeadlockAbort, Abort
  <1>19. QED
    BY <1>1, <1>2, <1>3, <1>4, <1>5, <1>6, <1>7, <1>8, <1>9, <1>10, <1>11, <1>12, <1>13, <1>14, <1>15, <1>16, <1>17, <1>18
    DEF Request, Statement

\* While the rows stay as they are, so does what is said of them.
LEMMA RowsSame ==
    ASSUME UNCHANGED rowVars
    PROVE  /\ pstate' = pstate /\ live' = live /\ spec' = spec /\ log' = log
           /\ SpecMoves' = SpecMoves
           /\ \A k : /\ LiveMoves(k)' = LiveMoves(k)
                     /\ (Contested(k)' <=> Contested(k))
           /\ \A x : CarriedIn(x)' = CarriedIn(x)
           /\ \A x, i : Intact(x, i)' <=> Intact(x, i)
           /\ \A p : Rivals(p)' = Rivals(p)
  <1>1. pstate' = pstate /\ live' = live /\ spec' = spec /\ log' = log
    BY DEF rowVars
  <1>2. SpecMoves' = SpecMoves /\ \A k : LiveMoves(k)' = LiveMoves(k)
    BY <1>1 DEF SpecMoves, LiveMoves
  <1>3. \A k, i : Overtaken(k, i)' <=> Overtaken(k, i)
    BY <1>1, <1>2 DEF Overtaken
  <1>4. QED
    BY <1>1, <1>2, <1>3 DEF Contested, CarriedIn, Intact, Rivals

\* A session's own step keeps what it carries.
LEMMA CarriedOwn ==
    ASSUME TypeOK, SessionInv, UnderLockInv, RaceInv, NEW s \in Session,
           StepShape(s), UNCHANGED rowVars
    PROVE  Carried(s)'
  <1>1. Carried(s) /\ Len(log) \in Nat /\ read[s] \in Nat /\ Len(log') = Len(log)
    BY RowsSame DEF RaceInv, TypeOK
  <1>2. Skills \cap Artifact = {}
    BY DEF Artifact
  <1>3. CASE op'[s] \notin {"deploy", "rollback"} /\ read'[s] \in {0, read[s]}
    BY <1>1, <1>3 DEF Carried, Deploying, Restoring, Drafting
  <1>4. CASE /\ pc'[s] \in {"row", "other", "apply"} \/ (pc'[s] = "prior" /\ op'[s] = "rollback")
             /\ read'[s] \in {0, read[s]}
    BY <1>1, <1>4 DEF Carried, Deploying, Restoring, Drafting
  <1>5. CASE /\ pc[s] \in {"skill", "audit", "write"} /\ pc'[s] \in {"audit", "commit"}
             /\ op'[s] = op[s] /\ subject'[s] = subject[s] /\ seen'[s] = seen[s]
             /\ draft'[s] = draft[s] /\ read'[s] = read[s]
    <2>1. /\ pc[s] = "write" => op[s] = "deploy" /\ subject[s] \in Artifact
          /\ pc[s] = "skill" /\ op[s] = "deploy" => subject[s] \in Skills
      BY DEF SessionInv
    <2>2. OutOfDate(s)' <=> OutOfDate(s)
      BY <1>5, RowsSame DEF OutOfDate
    <2>3. Deploying(s)'
      BY <1>1, <1>2, <1>5, <2>1, <2>2, RowsSame DEF Carried, Deploying
    <2>4. Restoring(s)'
      BY <1>1, <1>5, <2>1, <2>2, RowsSame DEF Carried, Restoring
    <2>5. Drafting(s)'
      BY <1>1, <1>2, <1>5, <2>1, RowsSame DEF Carried, Drafting
    <2>6. QED
      BY <1>1, <1>5, <2>3, <2>4, <2>5 DEF Carried
  <1>6. CASE CheckOther(s) /\ ~OtherLive(subject[s])
    <2>1. /\ op'[s] = "deploy" /\ pc'[s] = "prior" /\ subject'[s] = subject[s] /\ subject[s] \in Skills
          /\ read'[s] = Len(log) /\ Rivals(subject[s]) = {}
      BY <1>6 DEF CheckOther, OtherLive, Goto, Reads, SessionInv, TypeOK
    <2>2. QED
      BY <1>1, <1>2, <2>1, RowsSame DEF Carried, Deploying, Restoring, Drafting
  <1>7. CASE ReadPrior(s)
    <2>1. /\ UNCHANGED <<op, subject, draft>> /\ pc[s] = "prior" /\ pc'[s] = "skill"
          /\ op[s] \in {"deploy", "rollback"} /\ subject[s] \in Skills
      BY <1>7 DEF ReadPrior, Goto, Then, SessionInv, TypeOK
    <2>2. CASE op[s] = "deploy"
      <3>1. seen'[s] = live[SkillOf[subject[s]]] /\ read'[s] = read[s]
        BY <1>7, <2>2 DEF ReadPrior, LiveVersion, TypeOK
      <3>2. OutOfDate(s)' <=> OutOfDate(s)
        BY <2>1, <3>1, RowsSame DEF OutOfDate
      <3>3. Deploying(s)'
        BY <1>1, <2>1, <2>2, <3>1, <3>2, RowsSame DEF Carried, Deploying
      <3>4. QED
        BY <1>1, <1>2, <2>1, <2>2, <3>1, <3>3 DEF Carried, Restoring, Drafting
    <2>3. CASE op[s] = "rollback"
      <3>1. seen'[s] \in PriorDeployment(subject[s]) /\ read'[s] = Len(log)
        BY <1>7, <2>3 DEF ReadPrior, Reads, TypeOK
      <3>2. pstate[subject[s]] = "deployed"
        BY <2>1, <2>3 DEF Admits, RowLocking, UnderLockInv, Under
      <3>3. ASSUME seen'[s] # None
            PROVE  /\ seen'[s] \in Rivals(subject[s])
                   /\ Contested(SkillOf[subject[s]])
        <4>1. PriorEntries(subject[s]) # {} /\ \A v \in PriorDeployment(subject[s]) : v \in Rivals(subject[s])
          BY <3>1, <3>3 DEF PriorDeployment, PriorEntries, Latest
        <4>2. \E q \in Proposal : q # subject[s] /\ SkillOf[q] = SkillOf[subject[s]] /\ pstate[q] = "deployed"
          BY <3>1, <4>1 DEF Rivals
        <4>3. SkillOf[subject[s]] \in Skill /\ subject[s] \in Proposal
          BY <2>1, SkillFacts
        <4>4. Contested(SkillOf[subject[s]])
          BY <3>2, <4>2, <4>3 DEF RaceInv, PointerHasProposal
        <4>5. QED
          BY <3>1, <4>1, <4>4
      <3>4. Restoring(s)'
        BY <2>1, <3>3, RowsSame DEF Restoring, Rivals
      <3>5. QED
        BY <1>1, <2>1, <2>3, <3>1, <3>4 DEF Carried, Deploying, Drafting
    <2>4. QED
      BY <2>1, <2>2, <2>3
  <1>8. CASE ReadSpec(s)
    <2>1. /\ UNCHANGED <<op, subject>> /\ pc'[s] = "write" /\ op[s] = "deploy" /\ subject[s] \in Artifact
          /\ draft'[s] = [spec EXCEPT ![SectionOf[subject[s]]] = subject[s]] /\ read'[s] = Len(log)
      BY <1>8 DEF ReadSpec, Reads, Goto, SessionInv, TypeOK
    <2>2. spec \in [Section -> Proposal \cup {None}] /\ SectionOf[subject[s]] \in Section
      BY <2>1, SkillFacts DEF TypeOK, Views
    <2>3. /\ draft'[s][SectionOf[subject[s]]] = subject[s]
          /\ \A x \in Section \ {SectionOf[subject[s]]} : draft'[s][x] = spec[x]
      BY <2>1, <2>2
    <2>4. Drafting(s)'
      BY <2>1, <2>3, RowsSame DEF RaceInv, SpecInv, Drafting
    <2>5. QED
      BY <1>1, <1>2, <2>1, <2>4 DEF Carried, Deploying, Restoring
  <1>9. QED
    BY <1>3, <1>4, <1>5, <1>6, <1>7, <1>8 DEF StepShape

-----------------------------------------------------------------------------
\* What a commit makes of the moves of the pointers.
LEMMA MovesFacts ==
    ASSUME TypeOK, SessionInv, UnderLockInv, OrderlyInv, NEW s \in Session, Commit(s), NEW k \in Skill,
           NEW n \in Nat, n = Len(log)
    PROVE  /\ \A i \in LiveMoves(k) : i \in 1..n /\ (Overtaken(k, i)' <=> Overtaken(k, i))
           /\ MovesLive(s, k) => /\ LiveMoves(k)' = LiveMoves(k) \cup {n + 1}
                                 /\ (Overtaken(k, n + 1)' <=> OutOfDate(s))
                                 /\ (Contested(k)' <=> Contested(k) \/ OutOfDate(s))
           /\ ~MovesLive(s, k) => LiveMoves(k)' = LiveMoves(k) /\ (Contested(k)' <=> Contested(k))
  <1>1. n = Len(log)
    OBVIOUS
  <1>2. /\ DOMAIN log = 1..n /\ \A i \in 1..n : log'[i] = log[i]
        /\ log'[n + 1].read = read[s]
    <2>1. /\ DOMAIN log = 1..n /\ \A i \in 1..n : log'[i] = log[i]
          /\ log'[n + 1] = Committed(s)
      BY <1>1, EntryCommitted
    <2>2. QED
      BY <2>1 DEF Committed
  <1>3. LiveMoves(k) \subseteq 1..n
    BY <1>2 DEF LiveMoves
  <1>4. LiveMoves(k)' = IF MovesLive(s, k) THEN LiveMoves(k) \cup {n + 1} ELSE LiveMoves(k)
    BY <1>1, IndicesAppended
  <1>5. ASSUME NEW i \in LiveMoves(k) PROVE Overtaken(k, i)' <=> Overtaken(k, i)
    <2>1. i \in 1..n /\ log'[i] = log[i] /\ ~(n + 1 < i)
      BY <1>2, <1>3
    <2>2. QED
      BY <1>4, <2>1 DEF Overtaken
  <1>6. ASSUME MovesLive(s, k) PROVE Overtaken(k, n + 1)' <=> OutOfDate(s)
    <2>1. LiveMoves(k)' = LiveMoves(k) \cup {n + 1} /\ k = SkillOf[subject[s]]
      BY <1>4, <1>6 DEF MovesLive
    <2>2. \A j \in LiveMoves(k) : j < n + 1
      BY <1>3
    <2>3. ~(n + 1 < n + 1)
      OBVIOUS
    <2>4. QED
      BY <1>2, <2>1, <2>2, <2>3 DEF Overtaken, OutOfDate
  <1>7. ASSUME MovesLive(s, k) PROVE Contested(k)' <=> Contested(k) \/ OutOfDate(s)
    <2>1. LiveMoves(k)' = LiveMoves(k) \cup {n + 1}
      BY <1>4, <1>7
    <2>2. Overtaken(k, n + 1)' <=> OutOfDate(s)
      BY <1>6, <1>7
    <2>3. QED
      BY <1>5, <2>1, <2>2 DEF Contested
  <1>8. ASSUME ~MovesLive(s, k) PROVE Contested(k)' <=> Contested(k)
    <2>1. LiveMoves(k)' = LiveMoves(k)
      BY <1>4, <1>8
    <2>2. QED
      BY <1>5, <2>1 DEF Contested
  <1>9. QED
    BY <1>3, <1>4, <1>5, <1>6, <1>7, <1>8

\* A commit contests a skill only by an overtaken move of its pointer.
LEMMA ContestedMoves ==
    ASSUME TypeOK, SessionInv, UnderLockInv, OrderlyInv, NEW s \in Session, Commit(s), NEW k \in Skill
    PROVE  Contested(k)' <=> Contested(k) \/ (MovesLive(s, k) /\ OutOfDate(s))
  <1>1. PICK n \in Nat : n = Len(log)
    BY EntryCommitted
  <1>2. QED
    BY <1>1, MovesFacts

\* A commit that does not move a skill's pointer leaves its deployed proposals.
LEMMA SkillKept ==
    ASSUME TypeOK, SessionInv, FreshInv, UnderLockInv, NEW s \in Session, Commit(s),
           NEW k \in Skill, ~MovesLive(s, k)
    PROVE  /\ live'[k] = live[k]
           /\ \A p \in Proposal : SkillOf[p] = k => (pstate'[p] = "deployed" <=> pstate[p] = "deployed")
  <1>1. live'[k] = live[k]
    BY CommitPoints
  <1>2. CASE CommitDeploy(s) \/ CommitRollback(s)
    <2>1. op[s] \in {"deploy", "rollback"} /\ SkillOf[subject[s]] # k
      BY <1>2 DEF MovesLive, CommitDeploy, CommitRollback
    <2>2. QED
      BY <1>1, <2>1, CommitMoves DEF Decides
  <1>3. CASE ~(CommitDeploy(s) \/ CommitRollback(s))
    <2>1. DeployedKept
      BY <1>3, QuietCommit DEF Commit
    <2>2. ASSUME NEW p \in Proposal, SkillOf[p] = k PROVE p \in Skills
      <3>1. SkillOf[p] # None
        BY <2>2, LifecycleAssumption
      <3>2. QED
        BY <3>1, SkillFacts
    <2>3. QED
      BY <1>1, <2>1, <2>2 DEF DeployedKept
  <1>4. QED
    BY <1>2, <1>3

\* What a deployment finds when it commits, if it is not out of date.
LEMMA DeployFacts ==
    ASSUME TypeOK, SessionInv, UnderLockInv, RaceInv, NEW s \in Session, CommitDeploy(s)
    PROVE  /\ subject[s] \in Skills /\ SkillOf[subject[s]] \in Skill /\ MovesLive(s, SkillOf[subject[s]])
           /\ pstate[subject[s]] = "approved-awaiting-deploy"
           /\ ~OutOfDate(s) =>
                 /\ \A q \in Proposal : SkillOf[q] = SkillOf[subject[s]] => pstate[q] # "deployed"
                 /\ seen[s] = live[SkillOf[subject[s]]]
                 /\ ~Contested(SkillOf[subject[s]]) => live[SkillOf[subject[s]]] = None
  <1>1. pc[s] = "commit" /\ op[s] = "deploy" /\ subject[s] \in Skills
    BY DEF CommitDeploy, Commits
  <1>2. SkillOf[subject[s]] \in Skill
    BY <1>1, SkillFacts
  <1>3. pstate[subject[s]] = "approved-awaiting-deploy"
    BY <1>1 DEF UnderLockInv, Under, Admits, RowLocking
  <1>4. ~OutOfDate(s) => Rivals(subject[s]) = {} /\ seen[s] = live[SkillOf[subject[s]]]
    BY <1>1 DEF RaceInv, Carried, Deploying
  <1>5. ~OutOfDate(s) => \A q \in Proposal : SkillOf[q] = SkillOf[subject[s]] => pstate[q] # "deployed"
    BY <1>3, <1>4 DEF Rivals
  <1>6. ~OutOfDate(s) /\ ~Contested(SkillOf[subject[s]]) => live[SkillOf[subject[s]]] = None
    BY <1>2, <1>5 DEF RaceInv, PointerHasProposal
  <1>7. QED
    BY <1>1, <1>2, <1>3, <1>4, <1>5, <1>6 DEF MovesLive

\* What a rollback finds when it commits.
LEMMA RollbackFacts ==
    ASSUME TypeOK, SessionInv, UnderLockInv, RaceInv, NEW s \in Session, CommitRollback(s)
    PROVE  /\ subject[s] \in Skills /\ SkillOf[subject[s]] \in Skill /\ MovesLive(s, SkillOf[subject[s]])
           /\ pstate[subject[s]] = "deployed"
           /\ \/ seen[s] = None
              \/ /\ OutOfDate(s) \/ Contested(SkillOf[subject[s]])
                 /\ seen[s] \in Proposal \ {subject[s]} /\ SkillOf[seen[s]] = SkillOf[subject[s]]
                 /\ pstate[seen[s]] \in {"deployed", "rolled-back"}
           /\ ~Contested(SkillOf[subject[s]]) =>
                 /\ live[SkillOf[subject[s]]] = subject[s]
                 /\ \A q \in Proposal : SkillOf[q] = SkillOf[subject[s]] /\ pstate[q] = "deployed" => q = subject[s]
  <1>1. pc[s] = "commit" /\ op[s] = "rollback"
    BY DEF CommitRollback, Commits
  <1>2. subject[s] \in Skills /\ pstate[subject[s]] = "deployed"
    BY <1>1 DEF UnderLockInv, Under, Admits, RowLocking
  <1>3. SkillOf[subject[s]] \in Skill /\ subject[s] \in Proposal
    BY <1>2, SkillFacts
  <1>4. \/ seen[s] = None
        \/ /\ OutOfDate(s) \/ Contested(SkillOf[subject[s]])
           /\ seen[s] \in Proposal \ {subject[s]} /\ SkillOf[seen[s]] = SkillOf[subject[s]]
           /\ pstate[seen[s]] \in {"deployed", "rolled-back"}
    BY <1>1 DEF RaceInv, Carried, Restoring
  <1>5. ASSUME ~Contested(SkillOf[subject[s]])
        PROVE  /\ live[SkillOf[subject[s]]] = subject[s]
               /\ \A q \in Proposal : SkillOf[q] = SkillOf[subject[s]] /\ pstate[q] = "deployed" => q = subject[s]
    <2>1. {p \in Proposal : SkillOf[p] = SkillOf[subject[s]] /\ pstate[p] = "deployed"}
              = {live[SkillOf[subject[s]]]} \ {None}
      BY <1>3, <1>5 DEF RaceInv, PointerHasProposal
    <2>2. QED
      BY <1>2, <1>3, <2>1
  <1>6. QED
    BY <1>1, <1>2, <1>3, <1>4, <1>5 DEF MovesLive

\* A commit keeps the pointer of a skill that is not contested.
LEMMA LiveStep ==
    ASSUME TypeOK, SessionInv, FreshInv, UnderLockInv, OrderlyInv, RaceInv, NEW s \in Session, Commit(s)
    PROVE  PointerHasProposal'
  <1> SUFFICES ASSUME NEW k \in Skill, ~Contested(k)'
               PROVE  {p \in Proposal : SkillOf[p] = k /\ pstate'[p] = "deployed"} = {live'[k]} \ {None}
    BY DEF PointerHasProposal
  <1>1. pstate \in [Proposal -> State] /\ live \in [Skill -> Version \cup {None}] /\ None \notin Version
    BY LifecycleAssumption DEF TypeOK
  <1>2. ~Contested(k) /\ (MovesLive(s, k) => ~OutOfDate(s))
    BY ContestedMoves
  <1>3. {p \in Proposal : SkillOf[p] = k /\ pstate[p] = "deployed"} = {live[k]} \ {None}
    BY <1>2 DEF RaceInv, PointerHasProposal
  <1>4. CASE ~MovesLive(s, k)
    BY <1>3, <1>4, SkillKept
  <1>5. CASE MovesLive(s, k) /\ CommitDeploy(s)
    <2>1. k = SkillOf[subject[s]] /\ subject[s] \in Proposal /\ subject[s] # None
      BY <1>1, <1>5, DeployFacts, SkillFacts DEF MovesLive
    <2>2. \A q \in Proposal : SkillOf[q] = k => pstate[q] # "deployed"
      BY <1>2, <1>5, <2>1, DeployFacts
    <2>3. /\ pstate' = [pstate EXCEPT ![subject[s]] = "deployed"]
          /\ live' = [live EXCEPT ![k] = subject[s]]
      BY <1>5, <2>1 DEF CommitDeploy
    <2>4. QED
      BY <1>1, <2>1, <2>2, <2>3
  <1>6. CASE MovesLive(s, k) /\ CommitRollback(s)
    <2>1. k = SkillOf[subject[s]] /\ subject[s] \in Proposal /\ seen[s] = None
      BY <1>2, <1>6, RollbackFacts, SkillFacts DEF MovesLive
    <2>2. \A q \in Proposal : SkillOf[q] = k /\ pstate[q] = "deployed" => q = subject[s]
      BY <1>2, <1>6, <2>1, RollbackFacts
    <2>3. /\ pstate' = [pstate EXCEPT ![subject[s]] = "rolled-back"]
          /\ live' = [live EXCEPT ![k] = None]
      BY <1>6, <2>1 DEF CommitRollback
    <2>4. QED
      BY <1>1, <2>1, <2>2, <2>3
  <1>7. MovesLive(s, k) => CommitDeploy(s) \/ CommitRollback(s)
    BY SkillFacts, LifecycleAssumption DEF MovesLive, Commit, CommitGate, CommitProposal, CommitDecision, CommitDeploy,
       CommitRollback, CommitArtifact, CommitRevert
  <1>8. QED
    BY <1>4, <1>5, <1>6, <1>7

\* A commit keeps the spec what the intact deployments carried.
LEMMA SpecStep ==
    ASSUME TypeOK, SessionInv, UnderLockInv, OrderlyInv, RaceInv, NEW s \in Session, Commit(s)
    PROVE  SpecInv'
  <1>1. PICK n \in Nat : n = Len(log)
    BY EntryCommitted
  <1>2. /\ DOMAIN log = 1..n /\ \A i \in 1..n : log'[i] = log[i]
        /\ log'[n + 1].about = subject[s] /\ log'[n + 1].read = read[s]
    <2>1. /\ DOMAIN log = 1..n /\ \A i \in 1..n : log'[i] = log[i]
          /\ log'[n + 1] = Committed(s)
      BY <1>1, EntryCommitted
    <2>2. QED
      BY <2>1 DEF Committed
  <1>3. \A x : CarriedIn(x) \subseteq SpecMoves /\ SpecMoves \subseteq 1..n
    BY <1>2 DEF CarriedIn, SpecMoves
  <1>4. SpecMoves' = IF WritesSpec(s) THEN SpecMoves \cup {n + 1} ELSE SpecMoves
    BY <1>1, IndicesAppended
  <1>5. ASSUME NEW x \in Section, NEW i \in CarriedIn(x), Intact(x, i)'
        PROVE  /\ Intact(x, i)
               /\ WritesSpec(s) => SectionOf[subject[s]] # x /\ read[s] >= i
    <2>1. \A j \in SpecMoves : log'[j] = log[j]
      BY <1>2, <1>3
    <2>2. i \in 1..n /\ n + 1 > i
      BY <1>3
    <2>3. QED
      BY <1>2, <1>4, <1>5, <2>1, <2>2 DEF Intact
  <1> SUFFICES ASSUME NEW x \in Section
               PROVE  /\ CarriedIn(x)' = {} => spec'[x] = None
                      /\ \A i \in CarriedIn(x)' : Intact(x, i)' => spec'[x] = log'[i].about
    BY DEF SpecInv
  <1>6. /\ CarriedIn(x) = {} => spec[x] = None
        /\ \A i \in CarriedIn(x) : Intact(x, i) => spec[x] = log[i].about
    BY DEF RaceInv, SpecInv
  <1>7. \A i \in CarriedIn(x) : log'[i] = log[i]
    BY <1>2, <1>3
  <1>8. CASE WritesSpec(s)
    <2>1. CommitArtifact(s) /\ op[s] = "deploy" /\ subject[s] \in Artifact /\ pc[s] = "commit"
      BY <1>8, EntryCommitted DEF WritesSpec, Commit, CommitGate, CommitProposal, CommitDecision, CommitDeploy,
         CommitRollback, CommitArtifact, CommitRevert, Artifact
    <2>2. spec' = draft[s]
      BY <2>1 DEF CommitArtifact, Written
    <2>3. Drafting(s) /\ read[s] \in Nat
      BY DEF RaceInv, Carried, TypeOK
    <2>4. CASE SectionOf[subject[s]] = x
      <3>1. CarriedIn(x)' = CarriedIn(x) \cup {n + 1}
        BY <1>1, <1>8, <2>4, IndicesAppended DEF WritesTo
      <3>2. spec'[x] = subject[s]
        BY <2>1, <2>2, <2>3, <2>4 DEF Drafting
      <3>3. \A i \in CarriedIn(x) : ~Intact(x, i)'
        BY <1>5, <1>8, <2>4
      <3>4. QED
        BY <1>2, <3>1, <3>2, <3>3
    <2>5. CASE SectionOf[subject[s]] # x
      <3>1. CarriedIn(x)' = CarriedIn(x)
        BY <1>8, <2>5, IndicesAppended DEF WritesTo
      <3>2. /\ CarriedIn(x) = {} => draft[s][x] = None
            /\ \A i \in CarriedIn(x) : Intact(x, i) /\ i <= read[s] => draft[s][x] = log[i].about
        BY <2>1, <2>3, <2>5 DEF Drafting
      <3>3. \A i \in CarriedIn(x) : i \in Nat
        BY <1>3
      <3>4. \A i \in CarriedIn(x) : Intact(x, i)' => Intact(x, i) /\ i <= read[s]
        BY <1>5, <1>8, <2>3, <3>3
      <3>5. QED
        BY <1>7, <2>2, <3>1, <3>2, <3>4
    <2>6. QED
      BY <2>4, <2>5
  <1>9. CASE ~WritesSpec(s)
    <2>1. spec' = spec
      BY <1>9 DEF WritesSpec, Commit, CommitGate, CommitProposal, CommitDecision, CommitDeploy,
         CommitRollback, CommitArtifact, CommitRevert
    <2>2. CarriedIn(x)' = CarriedIn(x)
      BY <1>9, IndicesAppended DEF WritesTo
    <2>3. QED
      BY <1>5, <1>6, <1>7, <2>1, <2>2
  <1>10. QED
    BY <1>8, <1>9

\* A proposal that was deployed is deployed or rolled back for ever.
LEMMA DeployedStays ==
    ASSUME TypeOK, SessionInv, FreshInv, UnderLockInv, NEW s \in Session, Commit(s), NEW q \in Proposal,
           pstate[q] \in {"deployed", "rolled-back"}
    PROVE  pstate'[q] \in {"deployed", "rolled-back"}
  <1>1. CASE ~Decides(s, q)
    BY <1>1, CommitMoves
  <1>2. CASE Decides(s, q)
    <2>1. pstate'[q] = StateAfter(Committed(s)) /\ pstate[q] = StateBefore(Committed(s))
      BY <1>2, CommitMoves DEF Decides
    <2>2. Committed(s).kind = op[s] /\ op[s] \in Op \ {"none", "revert"}
      BY <1>2, EntryCommitted DEF Committed, Decides, TypeOK
    <2>3. op[s] = "rollback"
      BY <2>1, <2>2 DEF StateBefore, Op
    <2>4. QED
      BY <2>1, <2>2, <2>3 DEF StateAfter
  <1>3. QED
    BY <1>1, <1>2

\* A commit of another session keeps what a session carries, or leaves it out
\* of date.
LEMMA CarriedOther ==
    ASSUME TypeOK, SessionInv, FreshInv, UnderLockInv, OrderlyInv, RaceInv,
           NEW s \in Session, Commit(s), OthersKept(s), NEW u \in Session \ {s}
    PROVE  Carried(u)'
  <1>1. PICK n \in Nat : n = Len(log) /\ Len(log') = n + 1
    BY EntryCommitted
  <1>2. /\ op'[u] = op[u] /\ subject'[u] = subject[u] /\ pc'[u] = pc[u]
        /\ seen'[u] = seen[u] /\ draft'[u] = draft[u] /\ read'[u] = read[u]
    BY DEF OthersKept
  <1>3. Carried(u) /\ read[u] \in Nat /\ read[u] <= n
    BY <1>1 DEF RaceInv, Carried, TypeOK
  <1>4. ASSUME SkillOf[subject[u]] \in Skill
        PROVE  /\ OutOfDate(u) => OutOfDate(u)'
               /\ MovesLive(s, SkillOf[subject[u]]) => OutOfDate(u)'
               /\ Contested(SkillOf[subject[u]]) => Contested(SkillOf[subject[u]])'
    <2>1. read[u] < n + 1
      BY <1>3
    <2>2. QED
      BY <1>1, <1>2, <1>4, <2>1, MovesFacts DEF OutOfDate
  <1>5. Deploying(u)'
    <2> SUFFICES ASSUME op[u] = "deploy", subject[u] \in Skills, pc[u] \in {"prior", "skill", "audit", "commit"},
                        ~OutOfDate(u)'
                 PROVE  /\ Rivals(subject[u])' = {}
                        /\ pc[u] # "prior" => seen[u] = live'[SkillOf[subject[u]]]
      BY <1>2 DEF Deploying
    <2>1. SkillOf[subject[u]] \in Skill
      BY SkillFacts
    <2>2. ~OutOfDate(u) /\ ~MovesLive(s, SkillOf[subject[u]])
      BY <1>4, <2>1
    <2>3. Rivals(subject[u]) = {} /\ (pc[u] # "prior" => seen[u] = live[SkillOf[subject[u]]])
      BY <1>3, <2>2 DEF Carried, Deploying
    <2>4. /\ live'[SkillOf[subject[u]]] = live[SkillOf[subject[u]]]
          /\ \A p \in Proposal : SkillOf[p] = SkillOf[subject[u]] =>
                (pstate'[p] = "deployed" <=> pstate[p] = "deployed")
      BY <2>1, <2>2, SkillKept
    <2>5. Rivals(subject[u])' = Rivals(subject[u])
      <3>1. subject'[u] = subject[u]
        BY <1>2
      <3>2. QED
        BY <2>4, <3>1 DEF Rivals
    <2>6. QED
      BY <2>3, <2>4, <2>5
  <1>6. Restoring(u)'
    <2> SUFFICES ASSUME op[u] = "rollback", pc[u] \in {"skill", "audit", "commit"}, seen[u] # None
                 PROVE  /\ OutOfDate(u)' \/ Contested(SkillOf[subject[u]])'
                        /\ seen[u] \in Proposal \ {subject[u]} /\ SkillOf[seen[u]] = SkillOf[subject[u]]
                        /\ pstate'[seen[u]] \in {"deployed", "rolled-back"}
      BY <1>2 DEF Restoring
    <2>1. /\ OutOfDate(u) \/ Contested(SkillOf[subject[u]])
          /\ seen[u] \in Proposal \ {subject[u]} /\ SkillOf[seen[u]] = SkillOf[subject[u]]
          /\ pstate[seen[u]] \in {"deployed", "rolled-back"}
      BY <1>3 DEF Carried, Restoring
    <2>2. SkillOf[subject[u]] \in Skill
      BY SkillFacts DEF SessionInv
    <2>3. QED
      BY <1>4, <2>1, <2>2, DeployedStays
  <1>7. Drafting(u)'
    <2> SUFFICES ASSUME op[u] = "deploy", subject[u] \in Artifact, pc[u] \in {"write", "audit", "commit"}
                 PROVE  /\ draft[u][SectionOf[subject[u]]] = subject[u]
                        /\ \A x \in Section \ {SectionOf[subject[u]]} :
                              /\ CarriedIn(x)' = {} => draft[u][x] = None
                              /\ \A i \in CarriedIn(x)' : Intact(x, i)' /\ i <= read[u] => draft[u][x] = log'[i].about
      BY <1>2 DEF Drafting
    <2>1. /\ draft[u][SectionOf[subject[u]]] = subject[u]
          /\ \A x \in Section \ {SectionOf[subject[u]]} :
                /\ CarriedIn(x) = {} => draft[u][x] = None
                /\ \A i \in CarriedIn(x) : Intact(x, i) /\ i <= read[u] => draft[u][x] = log[i].about
      BY <1>3 DEF Carried, Drafting
    <2>2. DOMAIN log = 1..n /\ \A i \in 1..n : log'[i] = log[i]
      BY <1>1, EntryCommitted
    <2>3. \A x : CarriedIn(x) \subseteq 1..n /\ SpecMoves \subseteq 1..n
      BY <2>2 DEF CarriedIn, SpecMoves
    <2>4. SpecMoves \subseteq SpecMoves'
      BY IndicesAppended
    <2>5. ASSUME NEW x \in Section \ {SectionOf[subject[u]]}, NEW i \in CarriedIn(x)', i <= read[u], Intact(x, i)'
          PROVE  i \in CarriedIn(x) /\ Intact(x, i) /\ log'[i] = log[i]
      <3>1. CarriedIn(x)' \subseteq CarriedIn(x) \cup {n + 1}
        BY <1>1, IndicesAppended
      <3>2. i # n + 1
        BY <1>3, <2>5
      <3>3. i \in CarriedIn(x)
        BY <2>5, <3>1, <3>2
      <3>4. Intact(x, i)
        BY <2>2, <2>3, <2>4, <2>5 DEF Intact
      <3>5. QED
        BY <2>2, <2>3, <3>3, <3>4
    <2>6. \A x \in Section : CarriedIn(x) \subseteq CarriedIn(x)'
      BY IndicesAppended
    <2>7. QED
      BY <2>1, <2>5, <2>6
  <1>8. read'[u] <= Len(log')
    BY <1>1, <1>2, <1>3
  <1>9. QED
    BY <1>5, <1>6, <1>7, <1>8 DEF Carried

\* Every step keeps RaceInv.
LEMMA RaceStep ==
    ASSUME TypeOK, SessionInv, LockInv, FreshInv, UnderLockInv, OrderlyInv, RaceInv, [Next]_vars
    PROVE  RaceInv'
  <1>1. ASSUME NEW s \in Session, Commit(s) PROVE RaceInv'
    <2>1. PointerHasProposal' /\ SpecInv'
      BY <1>1, LiveStep, SpecStep
    <2>2. Request(s) \/ Statement(s) \/ DeadlockAbort(s) \/ Abort(s)
      BY <1>1 DEF Statement
    <2>3. \A u \in Session \ {s} : Carried(u)'
      BY <1>1, <2>2, Frame, CarriedOther
    <2>4. Ends(s)
      BY <1>1, CommitShape
    <2>5. Carried(s)'
      <3>1. op'[s] = "none" /\ read'[s] = 0 /\ Len(log') \in Nat
        BY <1>1, <2>4, EndsShape, EntryCommitted
      <3>2. QED
        BY <3>1 DEF Carried, Deploying, Restoring, Drafting
    <2>6. QED
      BY <2>1, <2>3, <2>5 DEF RaceInv
  <1>2. ASSUME UNCHANGED rowVars, NEW s \in Session,
               Request(s) \/ Statement(s) \/ DeadlockAbort(s) \/ Abort(s), ~Commit(s)
        PROVE  RaceInv'
    <2>1. Carried(s)'
      BY <1>2, OwnShape, CarriedOwn
    <2>2. ASSUME NEW u \in Session \ {s} PROVE Carried(u)'
      <3>1. /\ op'[u] = op[u] /\ subject'[u] = subject[u] /\ pc'[u] = pc[u]
            /\ seen'[u] = seen[u] /\ draft'[u] = draft[u] /\ read'[u] = read[u]
        BY <1>2, Frame DEF OthersKept
      <3>2. OutOfDate(u)' <=> OutOfDate(u)
        BY <1>2, <3>1, RowsSame DEF OutOfDate
      <3>3. Carried(u)
        BY DEF RaceInv
      <3>4. Deploying(u)' /\ Restoring(u)'
        BY <1>2, <3>1, <3>2, <3>3, RowsSame DEF Carried, Deploying, Restoring
      <3>5. Drafting(u)'
        BY <1>2, <3>1, <3>3, RowsSame DEF Carried, Drafting
      <3>6. QED
        BY <1>2, <3>1, <3>3, <3>4, <3>5, RowsSame DEF Carried
    <2>3. PointerHasProposal' /\ SpecInv'
      BY <1>2, RowsSame DEF RaceInv, PointerHasProposal, SpecInv
    <2>4. QED
      BY <2>1, <2>2, <2>3 DEF RaceInv
  <1>3. ASSUME UNCHANGED vars PROVE RaceInv'
    <2>1. UNCHANGED rowVars /\ UNCHANGED <<op, subject, pc, seen, draft, read>>
      BY <1>3 DEF vars, rowVars
    <2>2. ASSUME NEW u \in Session PROVE Carried(u)'
      <3>1. OutOfDate(u)' <=> OutOfDate(u)
        BY <2>1, RowsSame DEF OutOfDate
      <3>2. Carried(u)
        BY DEF RaceInv
      <3>3. Deploying(u)' /\ Restoring(u)'
        BY <2>1, <3>1, <3>2, RowsSame DEF Carried, Deploying, Restoring
      <3>4. Drafting(u)'
        BY <2>1, <3>2, RowsSame DEF Carried, Drafting
      <3>5. QED
        BY <2>1, <3>2, <3>3, <3>4, RowsSame DEF Carried
    <2>3. PointerHasProposal' /\ SpecInv'
      BY <2>1, RowsSame DEF RaceInv, PointerHasProposal, SpecInv
    <2>4. QED
      BY <2>2, <2>3 DEF RaceInv
  <1>4. QED
    BY <1>1, <1>2, <1>3, OnlyCommitsWrite DEF Next

\* The version that a deployment's or rollback's entry names as replaced.
LineageInv ==
    \A k \in Skill : \A i \in LiveMoves(k) :
        \/ log[i].prior \in Replay(LiveMoves(k), i, Versions, None)
        \/ Overtaken(k, i)
        \/ log[i].kind = "rollback" /\ \E j \in LiveMoves(k) : j < i /\ Overtaken(k, j)

\* It is the one that was live, but for a race.
LEMMA NamesLive ==
    ASSUME TypeOK, SessionInv, UnderLockInv, RaceInv,
           NEW s \in Session, Commit(s), NEW k \in Skill, MovesLive(s, k)
    PROVE  \/ PointerFrom(s) = live[k]
           \/ OutOfDate(s)
           \/ op[s] = "rollback" /\ Contested(k)
  <1>1. op[s] \in {"deploy", "rollback"} /\ SkillOf[subject[s]] = k /\ pc[s] = "commit"
    BY EntryCommitted DEF MovesLive
  <1>2. CASE op[s] = "deploy"
    <2>1. subject[s] \in Skills /\ CommitDeploy(s)
      BY <1>1, <1>2, SkillFacts, LifecycleAssumption DEF Commit, CommitGate, CommitProposal, CommitDecision,
         CommitDeploy, CommitRollback, CommitArtifact, CommitRevert
    <2>2. QED
      BY <1>1, <1>2, <2>1, DeployFacts DEF PointerFrom
  <1>3. CASE op[s] = "rollback"
    <2>1. CommitRollback(s)
      BY <1>3 DEF Commit, CommitGate, CommitProposal, CommitDecision,
         CommitDeploy, CommitRollback, CommitArtifact, CommitRevert
    <2>2. QED
      BY <1>1, <1>3, <2>1, RollbackFacts DEF PointerFrom
  <1>4. QED
    BY <1>1, <1>2, <1>3

\* A commit keeps the lineage.
LEMMA LineageStep ==
    ASSUME TypeOK, SessionInv, UnderLockInv, OrderlyInv, RaceInv, PointerInv, LineageInv,
           NEW s \in Session, Commit(s)
    PROVE  LineageInv'
  <1>1. PICK n \in Nat : n = Len(log)
    BY EntryCommitted
  <1>2. /\ DOMAIN log = 1..n
        /\ \A i \in 1..n : log'[i] = log[i]
        /\ log'[n + 1] = Committed(s)
    BY <1>1, EntryCommitted
  <1>3. \A i \in 1..n : Versions'[i] = Versions[i]
    BY <1>1, ValuesAppended
  <1> SUFFICES ASSUME NEW k \in Skill, NEW i \in LiveMoves(k)'
               PROVE  \/ log'[i].prior \in Replay(LiveMoves(k)', i, Versions', None)
                      \/ Overtaken(k, i)'
                      \/ log'[i].kind = "rollback" /\ \E j \in LiveMoves(k)' : j < i /\ Overtaken(k, j)'
    BY DEF LineageInv
  <1>4. PICK I : I = LiveMoves(k)
    OBVIOUS
  <1>5. /\ I \in SUBSET (1..n)
        /\ live[k] \in Replay(I, n + 1, Versions, None)
    BY <1>1, <1>2, <1>4 DEF PointerInv, LiveMoves
  <1>6. PICK val, new, none : val = Versions /\ new = Versions' /\ none = None
    OBVIOUS
  <1>7. /\ \A j \in Nat : j <= n + 1 => Replay(I \cup {n + 1}, j, new, none) = Replay(I, j, val, none)
        /\ \A j \in Nat : Replay(I, j, new, none) = Replay(I, j, val, none)
    <2>1. I \in SUBSET (1..n) /\ \A j \in 1..n : new[j] = val[j]
      BY <1>3, <1>5, <1>6
    <2>2. Appends(n, I, val, new, none)
      BY <2>1, ReplayAppended
    <2>3. QED
      BY <2>2 DEF Appends
  <1>8. \A j \in I : j \in Nat /\ j < n + 1 /\ log'[j] = log[j] /\ (Overtaken(k, j)' <=> Overtaken(k, j))
    BY <1>2, <1>4, <1>5, MovesFacts
  <1>9. I \subseteq LiveMoves(k)'
    BY <1>4, IndicesAppended
  <1>10. CASE i \in I
    <2>1. \/ log[i].prior \in Replay(I, i, val, none)
          \/ Overtaken(k, i)
          \/ log[i].kind = "rollback" /\ \E j \in I : j < i /\ Overtaken(k, j)
      BY <1>4, <1>6, <1>10 DEF LineageInv
    <2>2. Replay(LiveMoves(k)', i, new, none) = Replay(I, i, val, none)
      <3>1. i \in Nat /\ i <= n + 1
        BY <1>8, <1>10
      <3>2. LiveMoves(k)' = I \/ LiveMoves(k)' = I \cup {n + 1}
        BY <1>1, <1>4, IndicesAppended
      <3>3. QED
        BY <1>7, <3>1, <3>2
    <2>3. QED
      BY <1>6, <1>8, <1>9, <1>10, <2>1, <2>2
  <1>11. CASE i \notin I
    <2>1. MovesLive(s, k) /\ i = n + 1 /\ LiveMoves(k)' = I \cup {n + 1}
      BY <1>1, <1>4, <1>11, IndicesAppended
    <2>2. log'[i].prior = PointerFrom(s) /\ log'[i].kind = op[s]
      BY <1>2, <2>1 DEF Committed
    <2>3. CASE PointerFrom(s) = live[k]
      <3>1. n + 1 \in Nat /\ n + 1 <= n + 1
        OBVIOUS
      <3>2. Replay(I \cup {n + 1}, n + 1, new, none) = Replay(I, n + 1, val, none)
        BY <1>7, <3>1, Zenon
      <3>3. QED
        BY <1>5, <1>6, <2>1, <2>2, <2>3, <3>2
    <2>4. CASE OutOfDate(s)
      <3>1. Overtaken(k, n + 1)'
        BY <1>1, <2>1, <2>4, MovesFacts
      <3>2. QED
        BY <2>1, <3>1
    <2>5. CASE op[s] = "rollback" /\ Contested(k)
      <3>1. PICK j \in I : Overtaken(k, j)
        BY <1>4, <2>5 DEF Contested
      <3>2. QED
        BY <1>8, <1>9, <2>1, <2>2, <2>5, <3>1
    <2>6. QED
      BY <2>1, <2>3, <2>4, <2>5, NamesLive
  <1>12. QED
    BY <1>10, <1>11

-----------------------------------------------------------------------------
(***************************************************************************)
(* Theorems about the log.                                                 *)
(***************************************************************************)
History == OrderlyInv /\ LifeInv /\ HeadInv /\ PointerInv

\* Without a commit the log tells what it told.
LEMMA HistoryKept ==
    ASSUME UNCHANGED rowVars
    PROVE  /\ LifeInv => LifeInv'
           /\ HeadInv => HeadInv'
           /\ PointerInv => PointerInv'
           /\ LineageInv => LineageInv'
  <1>1. /\ pstate' = pstate /\ head' = head /\ live' = live /\ log' = log
        /\ Afters' = Afters /\ Versions' = Versions
    BY DEF rowVars, Afters, Versions, StateAfter
  <1>2. /\ \A p : About(p)' = About(p)
        /\ \A k : HeadMoves(k)' = HeadMoves(k) /\ LiveMoves(k)' = LiveMoves(k)
    BY <1>1 DEF About, HeadMoves, LiveMoves
  <1>3. LifeInv => LifeInv'
    BY <1>1, <1>2 DEF LifeInv, StateBefore
  <1>4. (HeadInv => HeadInv') /\ (PointerInv => PointerInv')
    BY <1>1, <1>2 DEF HeadInv, PointerInv
  <1>5. LineageInv => LineageInv'
    <2>1. \A k, i : Overtaken(k, i)' <=> Overtaken(k, i)
      BY <1>1, <1>2 DEF Overtaken
    <2>2. QED
      BY <1>1, <1>2, <2>1 DEF LineageInv
  <1>6. QED
    BY <1>3, <1>4, <1>5

\* The history is true of the initial states.
LEMMA InitHistory == Init => History /\ LineageInv /\ RaceInv
  <1> SUFFICES ASSUME Init PROVE History /\ LineageInv /\ RaceInv
    OBVIOUS
  <1>1. log = <<>> /\ DOMAIN log = {} /\ Len(log) = 0
    BY DEF Init
  <1>2. /\ \A p : About(p) = {}
        /\ \A k : HeadMoves(k) = {} /\ LiveMoves(k) = {}
        /\ \A x : CarriedIn(x) = {}
    BY <1>1 DEF About, HeadMoves, LiveMoves, CarriedIn, SpecMoves
  <1>3. ASSUME NEW n, NEW val, NEW initial PROVE Replay({}, n, val, initial) = {initial}
    BY DEF Replay, LastIn
  <1>4. OrderlyInv
    BY DEF Init, OrderlyInv, Orderly, Operators
  <1>5. LifeInv
    BY <1>2, <1>3, ZenonT(60) DEF Init, LifeInv
  <1>6. HeadInv
    BY <1>2, <1>3, ZenonT(60) DEF Init, HeadInv
  <1>7. PointerInv
    BY <1>2, <1>3, ZenonT(60) DEF Init, PointerInv
  <1>8. LineageInv
    BY <1>2 DEF LineageInv
  <1>9. SpecInv
    BY <1>2 DEF Init, SpecInv, NoViews
  <1>10. PointerHasProposal
    BY DEF Init, PointerHasProposal
  <1>11. \A s \in Session : Carried(s)
    BY <1>1 DEF Init, Carried, Deploying, Restoring, Drafting
  <1>12. QED
    BY <1>4, <1>5, <1>6, <1>7, <1>8, <1>9, <1>10, <1>11 DEF History, RaceInv

\* The order of the locks and the history the log tells hold throughout.
THEOREM HistoryInvariance == Spec => []History
  <1>1. Init => History
    BY InitHistory
  <1>2. IInv /\ History /\ [Next]_vars => History'
    <2> SUFFICES ASSUME IInv, History, [Next]_vars PROVE History'
      OBVIOUS
    <2> USE DEF IInv, History
    <2>1. OrderlyInv'
      BY OrderlyStep
    <2>2. CASE UNCHANGED rowVars
      BY <2>1, <2>2, HistoryKept
    <2>3. ASSUME NEW s \in Session, Commit(s) PROVE LifeInv' /\ HeadInv' /\ PointerInv'
      BY <2>3, LifeStep, HeadStep, PointerStep
    <2>4. UNCHANGED rowVars \/ \E s \in Session : Commit(s)
      BY OnlyCommitsWrite DEF Next, rowVars, vars
    <2>5. QED
      BY <2>1, <2>2, <2>3, <2>4
  <1>3. QED
    BY <1>1, <1>2, Invariance, PTL DEF Spec

\* Whoever deploys and rolls back, and whenever, what the races leave holds
\* throughout.
THEOREM RaceInvariance == Spec => []RaceInv
  <1>1. Init => RaceInv
    BY InitHistory
  <1>2. IInv /\ History /\ RaceInv /\ [Next]_vars => RaceInv'
    BY RaceStep DEF IInv, History
  <1>3. QED
    BY <1>1, <1>2, Invariance, HistoryInvariance, PTL DEF Spec

\* So does the lineage.
THEOREM LineageInvariance == Spec => []LineageInv
  <1>1. Init => LineageInv
    BY InitHistory
  <1>2. IInv /\ History /\ RaceInv /\ LineageInv /\ [Next]_vars => LineageInv'
    <2> SUFFICES ASSUME IInv, History, RaceInv, LineageInv, [Next]_vars PROVE LineageInv'
      OBVIOUS
    <2> USE DEF IInv, History
    <2>1. CASE UNCHANGED rowVars
      BY <2>1, HistoryKept
    <2>2. ASSUME NEW s \in Session, Commit(s) PROVE LineageInv'
      BY <2>2, LineageStep
    <2>3. UNCHANGED rowVars \/ \E s \in Session : Commit(s)
      BY OnlyCommitsWrite DEF Next, rowVars, vars
    <2>4. QED
      BY <2>1, <2>2, <2>3
  <1>3. QED
    BY <1>1, <1>2, Invariance, HistoryInvariance, RaceInvariance, PTL DEF Spec

\* What an export shows as the latest entry before a number is the last one.
LEMMA ExportFacts ==
    ASSUME TypeOK, LogInv, NEW I \in SUBSET (DOMAIN log)
    PROVE  /\ \A n \in Nat : LatestBefore(I, n) = LastIn(I, n)
           /\ LatestBefore(I, End) = LastIn(I, Len(log) + 1)
           /\ \A initial : \A n \in Nat : Replayed(I, n, initial) = Replay(I, n, Versions, initial)
           /\ \A initial : Replayed(I, End, initial) = Replay(I, Len(log) + 1, Versions, initial)
           /\ I # {} => LastIn(I, Len(log) + 1) # {}
  <1>1. PICK N \in Nat : N = Len(log) /\ DOMAIN log = 1..N
    BY DEF TypeOK
  <1>2. End \in Nat /\ End > N /\ N + 1 \in Nat /\ N + 1 > N
    <2>1. PICK c \in Nat : c = Cardinality(Session)
      BY LifecycleAssumption, FS_CardinalityType
    <2>2. QED
      BY <1>1, <2>1 DEF End
  <1>3. \A i \in I : log[i].seq = i
    BY DEF LogInv
  <1>4. \A n \in Nat : LatestBefore(I, n) = LastIn(I, n)
    BY <1>3, LatestIsLast
  <1>5. LastIn(I, End) = LastIn(I, N + 1)
    <2>1. \A n, m \in Nat : n > N /\ m > N => LastIn(I, n) = LastIn(I, m)
      <3>1. I \in SUBSET (1..N)
        BY <1>1
      <3>2. QED
        BY <3>1, LastAppended
    <2>2. QED
      BY <1>2, <2>1
  <1>6. LatestBefore(I, End) = LastIn(I, N + 1)
    BY <1>2, <1>4, <1>5
  <1>7. \A i \in I : Versions[i] = log[i].version
    BY DEF Versions
  <1>8. \A n : LastIn(I, n) \subseteq I
    BY DEF LastIn
  <1>9. \A initial : \A n \in Nat : Replayed(I, n, initial) = Replay(I, n, Versions, initial)
    BY <1>4, <1>7, <1>8 DEF Replayed, Replay
  <1>10. \A initial : Replayed(I, End, initial) = Replay(I, N + 1, Versions, initial)
    BY <1>6, <1>7, <1>8 DEF Replayed, Replay
  <1>11. ASSUME NEW k \in I PROVE LastIn(I, N + 1) # {}
    <2>1. k \in Nat /\ k < N + 1
      BY <1>1
    <2>2. QED
      BY <1>1, <1>2, <2>1, LastExists
  <1>12. QED
    BY <1>1, <1>4, <1>6, <1>9, <1>10, <1>11

\* Read in seq order, the entries about a proposal are a path through the
\* lifecycle that ends in its state.
THEOREM AuditTells == Spec => []AuditTellsLife
  <1>1. IInv /\ History => AuditTellsLife
    <2> SUFFICES ASSUME IInv, History, NEW p \in Proposal
                 PROVE  /\ pstate[p] \in IF About(p) = {} THEN {"absent"}
                                          ELSE {StateAfter(log[i]) : i \in LatestBefore(About(p), End)}
                        /\ \A i \in About(p) :
                              StateBefore(log[i]) \in
                                  IF LatestBefore(About(p), log[i].seq) = {} THEN {"absent"}
                                  ELSE {StateAfter(log[j]) : j \in LatestBefore(About(p), log[i].seq)}
      BY DEF AuditTellsLife
    <2>1. About(p) \subseteq DOMAIN log /\ \A n : LastIn(About(p), n) \subseteq About(p)
      BY DEF About, LastIn
    <2>2. \A i \in About(p) : Afters[i] = StateAfter(log[i])
      BY <2>1 DEF Afters
    <2>3. \A i \in About(p) : i \in Nat /\ log[i].seq = i
      BY <2>1 DEF IInv, LogInv, TypeOK
    <2>4. /\ \A n \in Nat : LatestBefore(About(p), n) = LastIn(About(p), n)
          /\ LatestBefore(About(p), End) = LastIn(About(p), Len(log) + 1)
          /\ About(p) # {} => LastIn(About(p), Len(log) + 1) # {}
      BY <2>1, ExportFacts DEF IInv
    <2>5. /\ pstate[p] \in Replay(About(p), Len(log) + 1, Afters, "absent")
          /\ \A i \in About(p) : StateBefore(log[i]) \in Replay(About(p), i, Afters, "absent")
      BY DEF History, LifeInv
    <2>6. \A n : {Afters[i] : i \in LastIn(About(p), n)} = {StateAfter(log[i]) : i \in LastIn(About(p), n)}
      BY <2>1, <2>2
    <2>7. pstate[p] \in IF About(p) = {} THEN {"absent"}
                         ELSE {StateAfter(log[i]) : i \in LatestBefore(About(p), End)}
      BY <2>1, <2>4, <2>5, <2>6 DEF Replay
    <2>8. ASSUME NEW i \in About(p)
          PROVE  StateBefore(log[i]) \in
                     IF LatestBefore(About(p), log[i].seq) = {} THEN {"absent"}
                     ELSE {StateAfter(log[j]) : j \in LatestBefore(About(p), log[i].seq)}
      <3>1. LatestBefore(About(p), log[i].seq) = LastIn(About(p), i)
        BY <2>3, <2>4
      <3>2. QED
        BY <2>5, <2>6, <3>1 DEF Replay
    <2>9. QED
      BY <2>7, <2>8
  <1>2. QED
    BY <1>1, Invariance, HistoryInvariance, PTL

\* Replaying the log gives the deployed version and the head of every skill.
THEOREM AuditReplays == Spec => []AuditReconstructs
  <1>1. IInv /\ History => AuditReconstructs
    <2> SUFFICES ASSUME IInv, History, NEW k \in Skill
                 PROVE  /\ live[k] \in Replayed(LiveMoves(k), End, None)
                        /\ head[k] \in Replayed(HeadMoves(k), End, BaseOf[k])
      BY DEF AuditReconstructs
    <2>1. LiveMoves(k) \subseteq DOMAIN log /\ HeadMoves(k) \subseteq DOMAIN log
      BY DEF LiveMoves, HeadMoves
    <2>2. /\ Replayed(LiveMoves(k), End, None) = Replay(LiveMoves(k), Len(log) + 1, Versions, None)
          /\ Replayed(HeadMoves(k), End, BaseOf[k]) = Replay(HeadMoves(k), Len(log) + 1, Versions, BaseOf[k])
      BY <2>1, ExportFacts DEF IInv
    <2>3. QED
      BY <2>2 DEF History, HeadInv, PointerInv
  <1>2. QED
    BY <1>1, Invariance, HistoryInvariance, PTL

\* The version a revert's entry names as replaced is the head the log replays.
THEOREM RevertNamesTheHead == Spec => []RevertSawTheHead
  <1>1. IInv /\ History => RevertSawTheHead
    <2> SUFFICES ASSUME IInv, History, NEW k \in Skill, NEW i \in HeadMoves(k), log[i].kind = "revert"
                 PROVE  log[i].prior \in Replayed(HeadMoves(k), log[i].seq, BaseOf[k])
      BY DEF RevertSawTheHead
    <2>1. HeadMoves(k) \subseteq DOMAIN log
      BY DEF HeadMoves
    <2>2. i \in Nat /\ log[i].seq = i
      BY <2>1 DEF IInv, LogInv, TypeOK
    <2>3. Replayed(HeadMoves(k), i, BaseOf[k]) = Replay(HeadMoves(k), i, Versions, BaseOf[k])
      BY <2>1, <2>2, ExportFacts DEF IInv
    <2>4. QED
      BY <2>2, <2>3 DEF History, HeadInv
  <1>2. QED
    BY <1>1, Invariance, HistoryInvariance, PTL

\* Decisions, deployments, rollbacks, reverts and artifact proposals take their
\* locks in one order, and so are never in a cycle with each other.
THEOREM DeadlockFreedom == Spec => []OperatorsNeverDeadlock
  <1>1. IInv /\ History => OperatorsNeverDeadlock
    BY OrderlyNeverDeadlock DEF IInv, History
  <1>2. QED
    BY <1>1, Invariance, HistoryInvariance, PTL

\* For any number of deploying sessions, the pointer of a skill is the version
\* of its one deployed proposal, unless a deployment or rollback was overtaken.
THEOREM PointerFollowsProposal == Spec => []PointerHasProposal
  <1>1. RaceInv => PointerHasProposal
    BY DEF RaceInv
  <1>2. QED
    BY <1>1, RaceInvariance, PTL

\* The prior version in the entry of a deployment or rollback is the one that
\* was live, unless it was overtaken (or a rollback follows a move that was).
THEOREM Lineage == Spec => []LineageHolds
  <1>1. IInv /\ LineageInv => LineageHolds
    <2> SUFFICES ASSUME IInv, LineageInv, NEW k \in Skill, NEW i \in LiveMoves(k)
                 PROVE  \/ log[i].prior \in Replayed(LiveMoves(k), log[i].seq, None)
                        \/ Overtaken(k, i)
                        \/ log[i].kind = "rollback" /\ \E j \in LiveMoves(k) : j < i /\ Overtaken(k, j)
      BY DEF LineageHolds
    <2>1. LiveMoves(k) \subseteq DOMAIN log
      BY DEF LiveMoves
    <2>2. i \in Nat /\ log[i].seq = i
      BY <2>1 DEF IInv, LogInv, TypeOK
    <2>3. Replayed(LiveMoves(k), i, None) = Replay(LiveMoves(k), i, Versions, None)
      BY <2>1, <2>2, ExportFacts DEF IInv
    <2>4. QED
      BY <2>2, <2>3 DEF LineageInv
  <1>2. QED
    BY <1>1, Invariance, LineageInvariance, PTL

\* A section of the spec is the one its latest deployed proposal carried, unless
\* a deployment that had read the spec before wrote it over.
THEOREM SpecFollowsDeployments == Spec => []SpecIsWhatWasDeployed
  <1>1. RaceInv => SpecIsWhatWasDeployed
    BY DEF RaceInv, SpecInv, Intact, SpecIsWhatWasDeployed
  <1>2. QED
    BY <1>1, RaceInvariance, PTL

-----------------------------------------------------------------------------
(***************************************************************************)
(* The contract.                                                           *)
(***************************************************************************)
Raced == {k \in Skill : Contested(k)}

\* A commit that moves no pointer races for none.
LEMMA RacedKept ==
    ASSUME TypeOK, SessionInv, UnderLockInv, OrderlyInv, NEW s \in Session, Commit(s),
           \A k \in Skill : ~MovesLive(s, k)
    PROVE  Raced' = Raced
  BY ContestedMoves DEF Raced

\* A commit that moves one races for that one, if it is out of date.
LEMMA RacedStep ==
    ASSUME TypeOK, SessionInv, UnderLockInv, OrderlyInv, NEW s \in Session, Commit(s),
           NEW k \in Skill, MovesLive(s, k)
    PROVE  /\ Raced' = IF OutOfDate(s) THEN Raced \cup {k} ELSE Raced
           /\ k \in Raced' <=> Contested(k) \/ OutOfDate(s)
  <1>1. Contested(k)' <=> Contested(k) \/ OutOfDate(s)
    BY ContestedMoves
  <1>2. \A m \in Skill : m # k => (Contested(m)' <=> Contested(m))
    BY ContestedMoves DEF MovesLive
  <1>3. QED
    BY <1>1, <1>2 DEF Raced

\* A commit of a transaction is an operation of the contract.
LEMMA ContractStep ==
    ASSUME TypeOK, SessionInv, FreshInv, UnderLockInv, OrderlyInv, RaceInv, NEW s \in Session, Commit(s)
    PROVE  Contract!Next
  <1>0. op[s] \notin {"none", "revert"} => subject[s] \in Proposal
    BY SkillFacts DEF SessionInv, TypeOK, Op, RowLocking
  <1>1. op[s] \notin {"deploy", "rollback"} => Raced' = Raced
    BY RacedKept DEF MovesLive
  <1>2. CASE CommitGate(s)
    <2>1. /\ pstate' = [pstate EXCEPT ![subject[s]] = AfterGate(arg[s])]
          /\ pstate[subject[s]] = "absent" /\ head' = HeadAfterGate(s) /\ UNCHANGED <<live, Raced>>
          /\ subject[s] \in Proposal /\ SkillOf[subject[s]] # None
      BY <1>0, <1>1, <1>2 DEF CommitGate, FreshInv, Creating, SessionInv, Skills
    <2>2. arg[s] \in Verdict
      BY <1>2 DEF CommitGate, Commits, SessionInv
    <2>3. CASE arg[s] = "pass"
      BY <2>1, <2>3 DEF AfterGate, HeadAfterGate, Contract!Next, Contract!Propose, Contract!Moves, Raced
    <2>4. CASE arg[s] # "pass"
      <3>1. AfterGate(arg[s]) \in {"gate-passed", "rejected", "gate-failed"} /\ UNCHANGED <<head, live, Raced>>
        BY <2>1, <2>2, <2>4 DEF AfterGate, HeadAfterGate, Verdict
      <3>2. QED
        BY <2>1, <3>1 DEF Contract!Next, Contract!Propose, Contract!Moves, Raced
    <2>5. QED
      BY <2>3, <2>4
  <1>3. CASE CommitProposal(s)
    <2>1. /\ pstate' = [pstate EXCEPT ![subject[s]] = "gate-passed"]
          /\ pstate[subject[s]] = "absent" /\ UNCHANGED <<head, live, Raced>> /\ subject[s] \in Proposal
      BY <1>0, <1>1, <1>3 DEF CommitProposal, FreshInv, Creating
    <2>2. QED
      BY <2>1 DEF Contract!Next, Contract!Propose, Contract!Moves, Raced
  <1>4. CASE CommitDecision(s)
    <2>1. /\ pstate' = [pstate EXCEPT ![subject[s]] = AfterDecision(Ruling(arg[s]))]
          /\ pstate[subject[s]] = "gate-passed" /\ UNCHANGED <<head, live, Raced>> /\ subject[s] \in Proposal
      BY <1>0, <1>1, <1>4 DEF CommitDecision, Commits, UnderLockInv, Under, Admits, RowLocking
    <2>2. Ruling(arg[s]) \in Decision
      BY <1>4 DEF CommitDecision, Commits, SessionInv, Ruling, Decision
    <2>3. AfterDecision(Ruling(arg[s])) \in {"approved-awaiting-deploy", "rejected", "changes-requested"}
      BY <2>2 DEF AfterDecision, Decision
    <2>4. QED
      BY <2>1, <2>3 DEF Contract!Next, Contract!Decide, Contract!Moves, Raced
  <1>5. CASE CommitDeploy(s)
    <2> DEFINE k == SkillOf[subject[s]]
    <2>1. /\ pstate' = [pstate EXCEPT ![subject[s]] = "deployed"] /\ UNCHANGED head
          /\ live' = [live EXCEPT ![k] = subject[s]]
      BY <1>5 DEF CommitDeploy
    <2>2. /\ subject[s] \in Proposal /\ k # None /\ k \in Skill /\ MovesLive(s, k)
          /\ pstate[subject[s]] = "approved-awaiting-deploy"
      BY <1>5, DeployFacts DEF Skills
    <2>3. /\ Raced' = IF OutOfDate(s) THEN Raced \cup {k} ELSE Raced
          /\ k \in Raced' <=> Contested(k) \/ OutOfDate(s)
      BY <2>2, RacedStep
    <2>4. k \notin Raced' => /\ live[k] = None
                             /\ \A q \in Proposal : SkillOf[q] = k => pstate[q] # "deployed"
      BY <1>5, <2>3, DeployFacts
    <2>5. Contract!Deploy(subject[s])
      BY <2>1, <2>2, <2>3, <2>4 DEF Contract!Deploy, Contract!Moves, Raced
    <2>6. QED
      BY <2>2, <2>5 DEF Contract!Next
  <1>6. CASE CommitRollback(s)
    <2> DEFINE k == SkillOf[subject[s]]
    <2>1. /\ pstate' = [pstate EXCEPT ![subject[s]] = "rolled-back"] /\ UNCHANGED head
          /\ live' = [live EXCEPT ![k] = seen[s]]
      BY <1>6 DEF CommitRollback
    <2>2. /\ subject[s] \in Proposal /\ k # None /\ k \in Skill /\ MovesLive(s, k)
          /\ pstate[subject[s]] = "deployed"
      BY <1>6, RollbackFacts DEF Skills
    <2>3. /\ Raced' = IF OutOfDate(s) THEN Raced \cup {k} ELSE Raced
          /\ k \in Raced' <=> Contested(k) \/ OutOfDate(s)
      BY <2>2, RacedStep
    <2>4. \/ seen[s] = None /\ (k \in Raced' \/ live[k] = subject[s])
          \/ /\ k \in Raced' /\ seen[s] \in Proposal \ {subject[s]} /\ SkillOf[seen[s]] = k
             /\ pstate[seen[s]] \in {"deployed", "rolled-back"}
      BY <1>6, <2>3, RollbackFacts
    <2>5. Raced' \in {Raced, Raced \cup {k}}
      BY <2>3
    <2>6. Contract!Rollback(subject[s])
      BY <2>1, <2>2, <2>4, <2>5 DEF Contract!Rollback, Contract!Moves, Raced
    <2>7. QED
      BY <2>2, <2>6 DEF Contract!Next
  <1>7. CASE CommitArtifact(s)
    <2>1. /\ pstate' = [pstate EXCEPT ![subject[s]] = "deployed"] /\ UNCHANGED <<head, live>>
          /\ pstate[subject[s]] = "approved-awaiting-deploy"
          /\ subject[s] \in Proposal /\ SkillOf[subject[s]] = None
      BY <1>0, <1>7, SkillFacts DEF CommitArtifact, Commits, UnderLockInv, Under, Admits, RowLocking
    <2>2. Raced' = Raced
      BY <2>1, RacedKept, LifecycleAssumption DEF MovesLive
    <2>3. QED
      BY <2>1, <2>2 DEF Contract!Next, Contract!Deploy, Contract!Moves, Raced
  <1>8. CASE CommitRevert(s)
    <2>1. /\ head' = [head EXCEPT ![SkillOf[subject[s]]] = subject[s]] /\ UNCHANGED <<pstate, live, Raced>>
          /\ subject[s] \in Version /\ SkillOf[subject[s]] \in Skill /\ seen[s] # subject[s]
      BY <1>1, <1>8 DEF CommitRevert, SessionInv
    <2>2. head[SkillOf[subject[s]]] = seen[s]
      BY <1>8 DEF CommitRevert, Commits, UnderLockInv, Under
    <2>3. QED
      BY <2>1, <2>2 DEF Contract!Next, Contract!Revert, Raced
  <1>9. QED
    BY <1>2, <1>3, <1>4, <1>5, <1>6, <1>7, <1>8 DEF Commit

\* The interleaved transactions of any number of sessions implement the
\* indivisible operations of ProposalContract.
THEOREM Refinement == Spec => ImplementsContract
  <1>1. Init => Contract!Init
    BY DEF Init, Contract!Init, Contested, LiveMoves
  <1>2. IInv /\ History /\ RaceInv /\ [Next]_vars => [Contract!Next]_(Contract!vars)
    <2> SUFFICES ASSUME IInv, History, RaceInv, [Next]_vars PROVE [Contract!Next]_(Contract!vars)
      OBVIOUS
    <2>1. ASSUME NEW s \in Session, Commit(s) PROVE Contract!Next
      BY <2>1, ContractStep DEF IInv, History
    <2>2. (\E s \in Session : Commit(s)) \/ UNCHANGED rowVars
      BY OnlyCommitsWrite DEF IInv, Next, rowVars, vars
    <2>3. UNCHANGED rowVars => UNCHANGED (Contract!vars)
      BY RowsSame DEF rowVars, Contract!vars
    <2>4. QED
      BY <2>1, <2>2, <2>3
  <1>3. QED
    BY <1>1, <1>2, Invariance, HistoryInvariance, RaceInvariance, PTL DEF Spec, ImplementsContract, Contract!Spec

=============================================================================
