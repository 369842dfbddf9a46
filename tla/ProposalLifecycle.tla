------------------------- MODULE ProposalLifecycle --------------------------
(***************************************************************************)
(* The life of a proposal, from the gate run or loop iteration that        *)
(* creates it to its decision, deployment and rollback, for the proposals  *)
(* of one workflow: gate/persistence.py, iteration_runner.py (phase 3),    *)
(* approvals/service.py, approvals/deploy.py, approvals/apply.py, the      *)
(* artifact-proposal routes, scripts/revert_skill.py and audit/writer.py.  *)
(*                                                                         *)
(* Every operation is one database transaction under READ COMMITTED, and   *)
(* every statement of it that reads shared state or takes a lock is a      *)
(* step: a statement sees what is committed when it runs, waits for the    *)
(* lock it needs, and keeps the lock until the transaction ends.  The      *)
(* writes of a transaction show when it commits.                           *)
(***************************************************************************)
EXTENDS Naturals, Sequences, FiniteSets, SequencesExt

CONSTANTS
    Proposal,     \* proposals, and the skill versions they register
    Baseline,     \* skill versions that precede every proposal
    Skill,
    SkillOf,      \* the skill of a version; None for an artifact proposal
    BaseOf,       \* the baseline version a skill starts from
    Section,      \* parts of workflows.spec that artifact proposals replace
    SectionOf,    \* the section an artifact proposal replaces, else None
    Session,      \* database sessions: HTTP requests, loop and gate runs
    MaxProposals, \* bound: proposals that are opened in a behaviour
    MaxReverts,   \* bound: head reverts in a behaviour
    None

Version  == Proposal \cup Baseline
Skills   == {p \in Proposal : SkillOf[p] # None}
Artifact == Proposal \ Skills

Decision == {"approve", "reject", "request-changes"}
Verdict  == {"pass", "fail", "error"}

ASSUME LifecycleAssumption ==
    /\ SkillOf \in [Version -> Skill \cup {None}]
    /\ BaseOf \in [Skill -> Baseline]
    /\ \A k \in Skill : SkillOf[BaseOf[k]] = k
    /\ \A b \in Baseline : SkillOf[b] \in Skill
    /\ SectionOf \in [Proposal -> Section \cup {None}]
    /\ \A p \in Artifact : SectionOf[p] \in Section
    /\ Proposal \cap Baseline = {}
    /\ None \notin Version \cup Skill \cup Section \cup Session \cup Verdict
    /\ IsFiniteSet(Session)
    /\ MaxProposals \in Nat
    /\ MaxReverts \in Nat

VARIABLES
    pstate,    \* proposals.state; "absent" before the row is inserted
    approval,  \* approvals.decision, UNIQUE(proposal_id)
    head,      \* skills.head_version_id
    live,      \* skills.deployed_version_id
    spec,      \* workflows.spec: who wrote each section last
    log,       \* committed audit_entries, in commit order
    op,        \* what a session's transaction does
    subject,   \* the proposal (or, for a revert, the version) it is about
    arg,       \* the verdict it carries
    pc,        \* its next statement
    seen,      \* the version it has read
    draft,     \* the spec it has read and edited
    read,      \* how much of the log was committed when it first read, without
               \* a lock, what its update rests on; an auxiliary variable
    seq,       \* the audit seq it has drawn, 0 before
    held       \* the locks it holds

rowVars     == <<pstate, approval, head, live, spec, log>>
sessionVars == <<op, subject, arg, pc, seen, draft, read, seq, held>>
vars        == <<pstate, approval, head, live, spec, log,
                 op, subject, arg, pc, seen, draft, read, seq, held>>

State    == {"absent", "gate-passed", "gate-failed", "rejected", "changes-requested",
             "approved-awaiting-deploy", "deployed", "rolled-back"}
Op       == {"none", "gate", "runner", "propose", "decide", "deploy", "rollback", "revert"}
PC       == {"idle", "row", "other", "prior", "apply", "write", "seed", "workflow",
             "traces", "clusters", "bench", "skill", "audit", "commit"}

Views    == [Section -> Proposal \cup {None}]

\* An audit entry: what its kind and payload tell of the transaction.
Entry == [seq: Nat, kind: Op, about: Version, verdict: Verdict \cup Decision \cup {None},
          version: Version \cup {None},   \* the version a pointer was set to
          prior: Version \cup {None},     \* the version it pointed to before
          read: Nat]                      \* read[s] of its transaction (auxiliary)

\* Locks: <<what, which, mode>>.  A row locked FOR UPDATE ("X") excludes every
\* other lock; a plain UPDATE ("N") leaves out the FOR KEY SHARE ("S") of a
\* foreign-key check.
Row_unlocked(p) == <<"proposal", p, "S">>
Row(p)       == <<"proposal", p, "X">>
SkillRow(k)  == <<"skill", k, "N">>
Workflow(m)  == <<"workflow", None, m>>
AuditChain_perCall == <<"audit", None, "S">>
AuditChain   == <<"audit", None, "X">>
Lock == {Row(p) : p \in Proposal} \cup {SkillRow(k) : k \in Skill}
            \cup {Workflow(m) : m \in {"X", "N", "S"}} \cup {AuditChain}

Clash(l, m) ==
    /\ l[1] = m[1] /\ l[2] = m[2]
    /\ "X" \in {l[3], m[3]} \/ (l[3] = "N" /\ m[3] = "N")

TypeOK ==
    /\ pstate   \in [Proposal -> State]
    /\ approval \in [Proposal -> Decision \cup {None}]
    /\ head     \in [Skill -> Version]
    /\ live     \in [Skill -> Version \cup {None}]
    /\ spec     \in Views
    /\ log      \in Seq(Entry)
    /\ op       \in [Session -> Op]
    /\ subject  \in [Session -> Version \cup {None}]
    /\ arg      \in [Session -> Verdict \cup Decision \cup {"reject-comment", None}]
    /\ pc       \in [Session -> PC]
    /\ seen     \in [Session -> Version \cup {None}]
    /\ draft    \in [Session -> Views]
    /\ read     \in [Session -> Nat]
    /\ seq      \in [Session -> Nat]
    /\ held     \in [Session -> SUBSET Lock]

NoViews == [x \in Section |-> None]

Init ==
    /\ pstate   = [p \in Proposal |-> "absent"]
    /\ approval = [p \in Proposal |-> None]
    /\ head     = BaseOf
    /\ live     = [k \in Skill |-> None]
    /\ spec     = NoViews
    /\ log      = <<>>
    /\ op       = [s \in Session |-> "none"]
    /\ subject  = [s \in Session |-> None]
    /\ arg      = [s \in Session |-> None]
    /\ pc       = [s \in Session |-> "idle"]
    /\ seen     = [s \in Session |-> None]
    /\ draft    = [s \in Session |-> NoViews]
    /\ read     = [s \in Session |-> 0]
    /\ seq      = [s \in Session |-> 0]
    /\ held     = [s \in Session |-> {}]

-----------------------------------------------------------------------------
(***************************************************************************)
(* Transactions.                                                           *)
(***************************************************************************)
\* The locks the next statement of a transaction cannot run without.
Wants(s) ==
    CASE pc[s] = "row"                    -> {Row(subject[s])}
      [] pc[s] = "workflow"               -> {Workflow("X")}
      [] pc[s] \in {"traces", "seed"}     -> {Workflow("S")}
      [] pc[s] = "write"                  -> {Workflow("N")}
      [] pc[s] = "skill"                  -> {SkillRow(SkillOf[subject[s]])}
      [] pc[s] \in {"clusters", "audit"}  -> {AuditChain}
      [] OTHER                            -> {}

WaitsFor(s, t) ==
    /\ s # t
    /\ \E l \in Wants(s), m \in held[t] : Clash(l, m)

\* The statement gets its lock, which the transaction then keeps.
Locks(s) ==
    /\ \A t \in Session : ~WaitsFor(s, t)
    /\ held' = [held EXCEPT ![s] = @ \cup Wants(s)]

Goto(s, next) == pc' = [pc EXCEPT ![s] = next]

\* A plain SELECT: another transaction may commit before this one does.
Reads(s) == read' = [read EXCEPT ![s] = Len(log)]

\* COMMIT or ROLLBACK: every lock goes, the advisory lock of the audit chain
\* with them.
LocksKept_session(s) == held[s] \cap {AuditChain}
LocksKept(s) == {}
Ends(s) ==
    /\ op'      = [op EXCEPT ![s] = "none"]
    /\ subject' = [subject EXCEPT ![s] = None]
    /\ arg'     = [arg EXCEPT ![s] = None]
    /\ pc'      = [pc EXCEPT ![s] = "idle"]
    /\ seen'    = [seen EXCEPT ![s] = None]
    /\ draft'   = [draft EXCEPT ![s] = NoViews]
    /\ read'    = [read EXCEPT ![s] = 0]
    /\ seq'     = [seq EXCEPT ![s] = 0]
    /\ held'    = [held EXCEPT ![s] = LocksKept(s)]

\* A cycle of transactions that wait for each other.
Cycle(C) == C # {} /\ \A s \in C : \E t \in C : WaitsFor(s, t)
Deadlocked(s) ==
    \E C \in SUBSET Session :
        /\ s \in C /\ Cycle(C)
        /\ \A D \in SUBSET C : Cycle(D) => D = C

\* Postgres rolls back one transaction of a cycle.
DeadlockAbort(s) ==
    /\ Deadlocked(s)
    /\ Ends(s)
    /\ UNCHANGED rowVars

\* A statement fails (the gate's lock_timeout, a serialization of the payload,
\* a lost connection) or the process dies: the transaction is rolled back.
Abort(s) ==
    /\ op[s] # "none"
    /\ Ends(s)
    /\ UNCHANGED rowVars

Begin(s, o, x, a, first) ==
    /\ op[s] = "none"
    /\ op' = [op EXCEPT ![s] = o]
    /\ subject' = [subject EXCEPT ![s] = x]
    /\ arg' = [arg EXCEPT ![s] = a]
    /\ Goto(s, first)
    /\ UNCHANGED <<rowVars, draft, read, seq, held>>

\* Ids are generated: a proposal is inserted by one transaction only.
Fresh(p) == pstate[p] = "absent" /\ \A s \in Session : subject[s] # p
MayOpen  == Cardinality({q \in Proposal : ~Fresh(q)}) < MaxProposals

\* nextval under the advisory lock; numbers lost to rolled-back transactions
\* are not counted.
NextSeq == Len(log) + 1 + Cardinality({s \in Session : seq[s] # 0})

\* The order in which a transaction takes the skill's row and the audit chain.
Then_auditFirst(s) ==
    CASE pc[s] = "prior" -> "audit"
      [] pc[s] = "skill" -> IF op[s] \in {"revert", "runner"} THEN "audit" ELSE "commit"
      [] pc[s] = "audit" -> IF op[s] = "gate" THEN "bench"
                            ELSE IF op[s] \in {"deploy", "rollback"} /\ subject[s] \in Skills
                                 THEN "skill" ELSE "commit"
Then(s) ==
    CASE pc[s] = "prior" -> "skill"
      [] pc[s] = "skill" -> IF op[s] = "gate" THEN "commit" ELSE "audit"
      [] pc[s] = "audit" -> IF op[s] = "gate" THEN "bench" ELSE "commit"

\* append_audit_entry, called before the last writes of every transaction: it
\* waits for the chain's advisory lock and draws the seq.
WriteAudit(s) ==
    /\ pc[s] = "audit"
    /\ Locks(s)
    /\ seq' = [seq EXCEPT ![s] = NextSeq]
    /\ Goto(s, Then(s))
    /\ UNCHANGED <<rowVars, op, subject, arg, seen, draft, read>>

\* UPDATE skills waits for the skill's row.  The head revert updates only if
\* head_version_id is still what it has read.
HeadUnmoved_unchecked(s) == TRUE
HeadUnmoved(s) == op[s] = "revert" => head[SkillOf[subject[s]]] = seen[s]
LockSkill(s) ==
    /\ pc[s] = "skill"
    /\ IF HeadUnmoved(s)
          THEN /\ Locks(s)
               /\ Goto(s, Then(s))
               /\ UNCHANGED <<op, subject, arg, seen, draft, read, seq>>
          ELSE /\ \A t \in Session : ~WaitsFor(s, t)
               /\ Ends(s)
    /\ UNCHANGED rowVars

\* approvals.decision, and the audit payload's, with or without a comment.
Ruling(a) == IF a = "reject-comment" THEN "reject" ELSE a

\* The transaction commits with its audit entry.
Commits(s, version, prior) ==
    /\ pc[s] = "commit"
    /\ log' = Append(log, [seq |-> seq[s], kind |-> op[s], about |-> subject[s],
                           verdict |-> Ruling(arg[s]),
                           version |-> version, prior |-> prior,
                           read |-> read[s]])
    /\ Ends(s)

-----------------------------------------------------------------------------
(***************************************************************************)
(* persist_gate_run: one transaction around the whole benchmark, with the  *)
(* workflow's row and the audit chain locked.  Its started and completed   *)
(* entries have nothing between them; one stands for both.                 *)
(***************************************************************************)
BeginGate(s, p) ==
    /\ p \in Skills /\ Fresh(p) /\ MayOpen
    /\ Begin(s, "gate", p, None, "workflow")
    /\ UNCHANGED seen

LockWorkflow(s) ==
    /\ pc[s] = "workflow"
    /\ Locks(s)
    /\ Goto(s, "audit")
    /\ UNCHANGED <<rowVars, op, subject, arg, seen, draft, read, seq>>

RunBenchmark(s, verdict) ==
    /\ pc[s] = "bench"
    /\ arg' = [arg EXCEPT ![s] = verdict]
    /\ Goto(s, IF verdict = "pass" THEN "skill" ELSE "commit")
    /\ UNCHANGED <<rowVars, op, subject, seen, draft, read, seq, held>>

\* _DECISION_TO_PROPOSAL_STATE
AfterGate(verdict) ==
    CASE verdict = "pass"  -> "gate-passed"
      [] verdict = "fail"  -> "rejected"
      [] verdict = "error" -> "gate-failed"

\* head_version_id advances on a pass only.
HeadAfterGate_always(s) == [head EXCEPT ![SkillOf[subject[s]]] = subject[s]]
HeadAfterGate(s) ==
    IF arg[s] = "pass" THEN [head EXCEPT ![SkillOf[subject[s]]] = subject[s]] ELSE head

CommitGate(s) ==
    /\ op[s] = "gate"
    /\ Commits(s, IF arg[s] = "pass" THEN subject[s] ELSE None, None)
    /\ pstate' = [pstate EXCEPT ![subject[s]] = AfterGate(arg[s])]
    /\ head' = HeadAfterGate(s)
    /\ UNCHANGED <<approval, live, spec>>

-----------------------------------------------------------------------------
(***************************************************************************)
(* Phase 3 of run_workflow_iteration, which registers a skill version and  *)
(* inserts its proposal as 'gate-passed'; and the routes that create an    *)
(* artifact proposal in the same state.                                    *)
(***************************************************************************)
BeginRunner(s, p) ==
    /\ p \in Skills /\ Fresh(p) /\ MayOpen
    /\ Begin(s, "runner", p, None, "traces")
    /\ UNCHANGED seen

\* INSERT INTO traces checks the workflow's row; failures may have clusters.
InsertTraces(s) ==
    /\ pc[s] = "traces"
    /\ Locks(s)
    /\ \E next \in {"clusters", "skill"} : Goto(s, next)
    /\ UNCHANGED <<rowVars, op, subject, arg, seen, draft, read, seq>>

\* Each cluster is audited, before the skill version is registered.
AuditClusters(s) ==
    /\ pc[s] = "clusters"
    /\ Locks(s)
    /\ Goto(s, "skill")
    /\ UNCHANGED <<rowVars, op, subject, arg, seen, draft, read, seq>>

BeginPropose(s, p) ==
    /\ p \in Artifact /\ Fresh(p) /\ MayOpen
    /\ Begin(s, "propose", p, None, "audit")
    /\ UNCHANGED seen

CommitProposal(s) ==
    /\ op[s] \in {"runner", "propose"}
    /\ Commits(s, None, None)
    /\ pstate' = [pstate EXCEPT ![subject[s]] = "gate-passed"]
    /\ UNCHANGED <<approval, head, live, spec>>

-----------------------------------------------------------------------------
(***************************************************************************)
(* The transactions that start by locking a proposal's row: _decide,       *)
(* deploy_proposal and rollback_proposal.                                  *)
(***************************************************************************)
BeginDecision(s, p, verdict) ==
    /\ pstate[p] # "absent"
    /\ Begin(s, "decide", p, verdict, "row")
    /\ UNCHANGED seen

BeginDeploy(s, p, o) ==
    /\ pstate[p] # "absent"
    /\ o \in {"deploy", "rollback"}
    /\ Begin(s, o, p, None, "row")
    /\ UNCHANGED seen

\* The state check under the row lock; rollback is for skill proposals only.
Admits_anyDeploy(s) ==
    CASE op[s] = "decide"   -> pstate[subject[s]] = "gate-passed"
      [] op[s] = "deploy"   -> pstate[subject[s]] \in {"gate-passed", "approved-awaiting-deploy"}
      [] op[s] = "rollback" -> pstate[subject[s]] = "deployed" /\ subject[s] \in Skills
Admits(s) ==
    CASE op[s] = "decide"   -> pstate[subject[s]] = "gate-passed"
      [] op[s] = "deploy"   -> pstate[subject[s]] = "approved-awaiting-deploy"
      [] op[s] = "rollback" -> pstate[subject[s]] = "deployed" /\ subject[s] \in Skills

AfterRow(s) ==
    CASE op[s] = "decide"   -> IF arg[s] = "reject-comment" THEN "seed" ELSE "audit"
      [] op[s] = "deploy"   -> IF subject[s] \in Skills THEN "other" ELSE "apply"
      [] op[s] = "rollback" -> "prior"

LockRow(s) ==
    /\ pc[s] = "row"
    /\ IF Admits(s)
          THEN /\ Locks(s)
               /\ Goto(s, AfterRow(s))
               /\ UNCHANGED <<op, subject, arg, seen, draft, read, seq>>
          ELSE /\ \A t \in Session : ~WaitsFor(s, t)
               /\ Ends(s)
    /\ UNCHANGED rowVars

\* A rejection with a comment inserts an eval case, whose foreign key waits
\* for a gate run on the workflow.
SeedEvalCase(s) ==
    /\ pc[s] = "seed"
    /\ Locks(s)
    /\ Goto(s, "audit")
    /\ UNCHANGED <<rowVars, op, subject, arg, seen, draft, read, seq>>

AfterDecision(decision) ==
    CASE decision = "approve"         -> "approved-awaiting-deploy"
      [] decision = "reject"          -> "rejected"
      [] decision = "request-changes" -> "changes-requested"

CommitDecision(s) ==
    /\ op[s] = "decide"
    /\ approval[subject[s]] = None
    /\ Commits(s, None, None)
    /\ approval' = [approval EXCEPT ![subject[s]] = Ruling(arg[s])]
    /\ pstate' = [pstate EXCEPT ![subject[s]] = AfterDecision(Ruling(arg[s]))]
    /\ UNCHANGED <<head, live, spec>>

\* deploy_proposal: is another proposal on the skill deployed?
Rivals(p) == {q \in Proposal \ {p} : SkillOf[q] = SkillOf[p] /\ pstate[q] = "deployed"}
OtherLive_never(p) == FALSE
OtherLive(p) == Rivals(p) # {}
CheckOther(s) ==
    /\ pc[s] = "other"
    /\ IF OtherLive(subject[s])
          THEN Ends(s)
          ELSE /\ Goto(s, "prior")
               /\ Reads(s)
               /\ UNCHANGED <<op, subject, arg, seen, draft, seq, held>>
    /\ UNCHANGED rowVars

\* rollback_proposal walks the audit log backwards to the latest deployment of
\* another proposal on the skill that is still deployed.
PriorEntries_anyState(p) ==
    {i \in DOMAIN log : /\ log[i].kind = "deploy" /\ log[i].about # p
                        /\ SkillOf[log[i].about] = SkillOf[p]}
PriorEntries(p) ==
    {i \in DOMAIN log : log[i].kind = "deploy" /\ log[i].about \in Rivals(p)}
Latest(I) == {i \in I : \A j \in I : log[j].seq <= log[i].seq}
PriorDeployment(p) ==
    IF PriorEntries(p) = {} THEN {None}
    ELSE {log[i].about : i \in Latest(PriorEntries(p))}

LiveVersion_head(p) == head[SkillOf[p]]
LiveVersion(p) == live[SkillOf[p]]

ReadPrior(s) ==
    /\ pc[s] = "prior"
    /\ \E v \in IF op[s] = "deploy" THEN {LiveVersion(subject[s])}
                 ELSE PriorDeployment(subject[s]) :
          seen' = [seen EXCEPT ![s] = v]
    /\ IF op[s] = "rollback" THEN Reads(s) ELSE UNCHANGED read
    /\ Goto(s, Then(s))
    /\ UNCHANGED <<rowVars, op, subject, arg, draft, seq, held>>

CommitDeploy(s) ==
    /\ op[s] = "deploy" /\ subject[s] \in Skills
    /\ Commits(s, subject[s], seen[s])
    /\ pstate' = [pstate EXCEPT ![subject[s]] = "deployed"]
    /\ live' = [live EXCEPT ![SkillOf[subject[s]]] = subject[s]]
    /\ UNCHANGED <<approval, head, spec>>

CommitRollback(s) ==
    /\ op[s] = "rollback"
    /\ Commits(s, seen[s], subject[s])
    /\ pstate' = [pstate EXCEPT ![subject[s]] = "rolled-back"]
    /\ live' = [live EXCEPT ![SkillOf[subject[s]]] = seen[s]]
    /\ UNCHANGED <<approval, head, spec>>

\* An artifact's apply function reads workflows.spec, replaces its section and
\* writes the whole value back.
ReadSpec(s) ==
    /\ pc[s] = "apply"
    /\ draft' = [draft EXCEPT ![s] = [spec EXCEPT ![SectionOf[subject[s]]] = subject[s]]]
    /\ Reads(s)
    /\ Goto(s, "write")
    /\ UNCHANGED <<rowVars, op, subject, arg, seen, seq, held>>

WriteSpec(s) ==
    /\ pc[s] = "write"
    /\ Locks(s)
    /\ Goto(s, "audit")
    /\ UNCHANGED <<rowVars, op, subject, arg, seen, draft, read, seq>>

\* What _write_spec stores.
Written_emptied(s) == [NoViews EXCEPT ![SectionOf[subject[s]]] = subject[s]]
Written(s) == draft[s]

CommitArtifact(s) ==
    /\ op[s] = "deploy" /\ subject[s] \in Artifact
    /\ Commits(s, None, None)
    /\ pstate' = [pstate EXCEPT ![subject[s]] = "deployed"]
    /\ spec' = Written(s)
    /\ UNCHANGED <<approval, head, live>>

-----------------------------------------------------------------------------
(***************************************************************************)
(* scripts/revert_skill.py: the head is read before the transaction, the   *)
(* update is conditional on it.                                            *)
(***************************************************************************)
BeginRevert(s, v) ==
    /\ SkillOf[v] # None /\ head[SkillOf[v]] # v
    /\ v \in Proposal => pstate[v] # "absent"
    /\ Cardinality({i \in DOMAIN log : log[i].kind = "revert"})
         + Cardinality({t \in Session : op[t] = "revert"}) < MaxReverts
    /\ Begin(s, "revert", v, None, "skill")
    /\ seen' = [seen EXCEPT ![s] = head[SkillOf[v]]]

CommitRevert(s) ==
    /\ op[s] = "revert"
    /\ Commits(s, subject[s], seen[s])
    /\ head' = [head EXCEPT ![SkillOf[subject[s]]] = subject[s]]
    /\ UNCHANGED <<pstate, approval, live, spec>>

-----------------------------------------------------------------------------
Commit(s) ==
    \/ CommitGate(s) \/ CommitProposal(s) \/ CommitDecision(s) \/ CommitDeploy(s)
    \/ CommitRollback(s) \/ CommitArtifact(s) \/ CommitRevert(s)

Statement(s) ==
    \/ LockWorkflow(s) \/ InsertTraces(s) \/ AuditClusters(s) \/ LockRow(s)
    \/ SeedEvalCase(s) \/ CheckOther(s) \/ ReadPrior(s) \/ ReadSpec(s) \/ WriteSpec(s)
    \/ LockSkill(s) \/ WriteAudit(s)
    \/ \E verdict \in Verdict : RunBenchmark(s, verdict)
    \/ Commit(s)

Request(s) ==
    \/ \E p \in Proposal :
          \/ BeginGate(s, p) \/ BeginRunner(s, p) \/ BeginPropose(s, p)
          \/ \E v \in Decision \cup {"reject-comment"} : BeginDecision(s, p, v)
          \/ \E o \in {"deploy", "rollback"} : BeginDeploy(s, p, o)
    \/ \E v \in Version : BeginRevert(s, v)

Next == \E s \in Session : Request(s) \/ Statement(s) \/ DeadlockAbort(s) \/ Abort(s)

Spec == Init /\ [][Next]_vars

\* A client goes on with its transaction; a lock is granted in the order it
\* was asked for, so nobody is overtaken for ever; cycles are broken.
Fairness == \A s \in Session : SF_vars(Statement(s)) /\ WF_vars(DeadlockAbort(s))

FairSpec == Spec /\ Fairness

-----------------------------------------------------------------------------
(***************************************************************************)
(* Properties.                                                             *)
(***************************************************************************)
\* The state an entry leaves its proposal in, and the one it found it in.
StateAfter(e) ==
    CASE e.kind = "gate"                  -> AfterGate(e.verdict)
      [] e.kind \in {"runner", "propose"} -> "gate-passed"
      [] e.kind = "decide"                -> AfterDecision(e.verdict)
      [] e.kind = "deploy"                -> "deployed"
      [] e.kind = "rollback"              -> "rolled-back"
StateBefore(e) ==
    CASE e.kind \in {"gate", "runner", "propose"} -> "absent"
      [] e.kind = "decide"                        -> "gate-passed"
      [] e.kind = "deploy"                        -> "approved-awaiting-deploy"
      [] e.kind = "rollback"                      -> "deployed"

\* Entries in the order an export lists them: the latest of I before seq n.
LatestBefore(I, n) == Latest({i \in I : log[i].seq < n})
End == Len(log) + Cardinality(Session) + 1

About(p)    == {i \in DOMAIN log : log[i].about = p /\ log[i].kind # "revert"}
LiveMoves(k) == {i \in DOMAIN log : log[i].kind \in {"deploy", "rollback"} /\ SkillOf[log[i].about] = k}
HeadMoves(k) ==
    {i \in DOMAIN log : /\ log[i].kind = "revert" \/ log[i].verdict = "pass"
                        /\ SkillOf[log[i].about] = k}
Replayed(I, n, initial) ==
    IF LatestBefore(I, n) = {} THEN {initial} ELSE {log[i].version : i \in LatestBefore(I, n)}

\* "Every state transition writes an audit_entries row" (STATE_MACHINES.md):
\* read in seq order, the entries about a proposal are a path through the
\* lifecycle that ends in the proposal's state, whoever raced whom.
AuditTellsLife ==
    \A p \in Proposal :
        /\ pstate[p] \in IF About(p) = {} THEN {"absent"}
                          ELSE {StateAfter(log[i]) : i \in LatestBefore(About(p), End)}
        /\ \A i \in About(p) :
              StateBefore(log[i]) \in
                  IF LatestBefore(About(p), log[i].seq) = {} THEN {"absent"}
                  ELSE {StateAfter(log[j]) : j \in LatestBefore(About(p), log[i].seq)}

\* "the audit chain alone reconstructs which version was production-live at
\* any point in time" (deploy.py), and likewise the gate-validated head.
AuditReconstructs ==
    \A k \in Skill : /\ live[k] \in Replayed(LiveMoves(k), End, None)
                     /\ head[k] \in Replayed(HeadMoves(k), End, BaseOf[k])

\* seq is "guaranteed monotonic for export ordering" (migration 0001): a
\* transaction never commits an entry below one that a reader has seen, so an
\* export that goes on from since_seq misses nothing.
AuditOrderIsCommitOrder ==
    \A i, j \in DOMAIN log : i < j => log[i].seq < log[j].seq

\* A reverted head was, when the revert committed, the version its audit entry
\* names: no gate pass is overwritten unseen (revert_skill.py, exit code 4).
RevertSawTheHead ==
    \A k \in Skill : \A i \in HeadMoves(k) :
        log[i].kind = "revert" => log[i].prior \in Replayed(HeadMoves(k), log[i].seq, BaseOf[k])

\* A proposal goes live only with the approval that approvals records.
ApprovalBacksState ==
    \A p \in Proposal :
        /\ pstate[p] \in {"approved-awaiting-deploy", "deployed", "rolled-back"} => approval[p] = "approve"
        /\ pstate[p] = "changes-requested" => approval[p] = "request-changes"
        /\ approval[p] # None => pstate[p] \notin {"absent", "gate-passed", "gate-failed"}

\* "at most one proposal per skill may be in state='deployed' at a time"
\* (deploy.py).
AtMostOneDeployed ==
    \A p, q \in Skills :
        pstate[p] = "deployed" /\ pstate[q] = "deployed" /\ SkillOf[p] = SkillOf[q] => p = q

\* deploy_proposal and rollback_proposal read without a lock what they decide
\* on: such a move of a skill's pointer was overtaken when another one on the
\* skill committed between that read and its own commit.
Overtaken(k, i) == \E j \in LiveMoves(k) : log[i].read < j /\ j < i
Contested(k)    == \E i \in LiveMoves(k) : Overtaken(k, i)

\* Whoever deploys and rolls back: unless a move of the skill was overtaken,
\* the pointer names the one deployed proposal of the skill, so it never is
\* "non-null with no matching deployed proposal" (rollback_proposal), nor null
\* while one is deployed, nor are two deployed.
PointerHasProposal ==
    \A k \in Skill :
        ~Contested(k) => {p \in Proposal : SkillOf[p] = k /\ pstate[p] = "deployed"}
                           = {live[k]} \ {None}

\* The prior version in a deployment's audit entry is the one that was live,
\* unless this very deployment was overtaken; the one a rollback names, unless
\* it or an earlier move was.
LineageHolds ==
    \A k \in Skill : \A i \in LiveMoves(k) :
        \/ log[i].prior \in Replayed(LiveMoves(k), log[i].seq, None)
        \/ Overtaken(k, i)
        \/ log[i].kind = "rollback" /\ \E j \in LiveMoves(k) : j < i /\ Overtaken(k, j)

\* "The spec's other shape ... is left untouched", "Sections not in the
\* payload are left untouched" (apply.py): a section of the spec is the one
\* its latest deployed proposal carried.  Only a deployment of another section
\* that had read the spec before that one committed can take it away.
SpecMoves  == {i \in DOMAIN log : log[i].kind = "deploy" /\ log[i].about \in Artifact}
CarriedIn(x) == {i \in SpecMoves : SectionOf[log[i].about] = x}
SpecIsWhatWasDeployed ==
    \A x \in Section :
        /\ CarriedIn(x) = {} => spec[x] = None
        /\ \A i \in CarriedIn(x) :
              (\A j \in SpecMoves : j > i => SectionOf[log[j].about] # x /\ log[j].read >= i)
                  => spec[x] = log[i].about

\* Decisions, deployments, rollbacks and reverts take their locks in one
\* order (proposal, workflow, skill, audit chain): no set of them deadlocks.
\* Only a gate run or a loop iteration, which lock the chain before the skill,
\* can be part of a cycle.
OperatorsNeverDeadlock ==
    ~\E C \in SUBSET {s \in Session : op[s] \in {"propose", "decide", "deploy", "rollback", "revert"}} :
        Cycle(C)

Contract == INSTANCE ProposalContract WITH raced <- {k \in Skill : Contested(k)}

\* The interleaved transactions of any number of sessions have the effect of
\* the contract's indivisible operations; on a skill with an overtaken move
\* they keep only what the contract leaves to a raced one.
ImplementsContract == Contract!Spec

\* Every transaction ends, although they wait for each other's locks.
EveryTransactionEnds == \A s \in Session : op[s] # "none" ~> op[s] = "none"

=============================================================================
