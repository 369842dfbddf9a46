--------------------------- MODULE IterationRunner --------------------------
(***************************************************************************)
(* The improvement iterations of one workflow: iteration_runner.py in its  *)
(* three phases, started by the API route or by the job worker;            *)
(* gate/persistence.py's single transaction, run from a script; and the    *)
(* startup sweep of jobs/orphan_reaper.py.                                 *)
(*                                                                         *)
(* A runner inserts its row, gives the connection back while the LLM       *)
(* works, and finishes the row in a second transaction; the gate's row     *)
(* appears when its transaction commits.  Locks are held by position: the  *)
(* definitions Excludes, Shares and HoldsChain say who holds what.         *)
(***************************************************************************)
EXTENDS Naturals, FiniteSets, FiniteSetsExt

CONSTANTS
    Run,        \* calls of the runner or the gate
    KindOf,     \* "request", "job" or "gate"
    Process,    \* kernel instances
    ProcessOf,  \* the instance that serves a request or a job
    Score,      \* ranks of val_score, before and after it is stored; 0 is NULL
    Stored,     \* what numeric(10,6) keeps of a score
    MaxCrashes  \* bound: crashes of kernel instances

ASSUME IterationAssumption ==
    /\ KindOf \in [Run -> {"request", "job", "gate"}]
    /\ ProcessOf \in [Run -> Process]
    /\ Score \subseteq Nat \ {0}
    /\ Stored \in [Score -> Score]
    /\ \A s \in Score : Stored[Stored[s]] = Stored[s]
    /\ \A s, t \in Score : s <= t => Stored[s] <= Stored[t]
    /\ IsFiniteSet(Run)
    /\ MaxCrashes \in Nat

VARIABLES
    state,     \* iterations.state; "absent" before the row shows
    index,     \* iterations.iteration_index
    before,    \* best_ever_score_before
    after,     \* best_ever_score_after
    proposal,  \* is there a proposal of the iteration
    audited,   \* the audit entries about it
    mode,      \* of a kernel instance: "boot", "up" or "down"
    pc,        \* the next statement of a run
    idx,       \* the index it has read
    best,      \* the best-ever score it has read
    plan,      \* what the LLM phase or the benchmark gave
    crashes,
    abandoned  \* rows that a failure has left running, with nobody at work on
               \* them, until a sweep closes them; an auxiliary variable

rowVars == <<state, index, before, after, proposal, audited>>
runVars == <<pc, idx, best, plan>>
vars    == <<state, index, before, after, proposal, audited,
             mode, pc, idx, best, plan, crashes, abandoned>>

State == {"absent", "running", "gate-pass", "gate-blocked", "sandbox-error"}
PC    == {"idle", "index", "insert", "started", "llm", "mark", "traces", "clusters", "best",
          "complete", "workflow", "audit", "bench", "commit", "done"}
Ended == {"gate-pass", "gate-blocked", "sandbox-error"}
Null  == 0

\* The columns are numeric(10,6): a float is rounded as it is written.
Written  == {Stored[s] : s \in Score}
Store(x) == IF x = Null THEN Null ELSE Stored[x]

\* The val_score, whether the proposer edited the instruction and whether
\* failures were clustered; of a gate run, its decision.
Cycle    == [score: Score, edit: BOOLEAN, clusters: BOOLEAN, decision: {"none"}]
Decision == [score: Score, edit: {FALSE}, clusters: {FALSE}, decision: {"pass", "fail"}]
                \cup [score: {Null}, edit: {FALSE}, clusters: {FALSE}, decision: {"error"}]
NoPlan   == [score |-> Null, edit |-> FALSE, clusters |-> FALSE, decision |-> "none"]

TypeOK ==
    /\ state    \in [Run -> State]
    /\ index    \in [Run -> Nat]
    /\ before   \in [Run -> Written \cup {Null}]
    /\ after    \in [Run -> Written \cup {Null}]
    /\ proposal \in [Run -> BOOLEAN]
    /\ audited  \in [Run -> SUBSET {"started", "completed", "reaped"}]
    /\ mode     \in [Process -> {"boot", "up", "down"}]
    /\ pc       \in [Run -> PC]
    /\ idx      \in [Run -> Nat]
    /\ best     \in [Run -> Written \cup {Null}]
    /\ plan     \in [Run -> Cycle \cup Decision \cup {NoPlan}]
    /\ crashes  \in 0..MaxCrashes
    /\ abandoned \subseteq Run

Init ==
    /\ state    = [r \in Run |-> "absent"]
    /\ index    = [r \in Run |-> 0]
    /\ before   = [r \in Run |-> Null]
    /\ after    = [r \in Run |-> Null]
    /\ proposal = [r \in Run |-> FALSE]
    /\ audited  = [r \in Run |-> {}]
    /\ mode     = [p \in Process |-> "boot"]
    /\ pc       = [r \in Run |-> "idle"]
    /\ idx      = [r \in Run |-> 0]
    /\ best     = [r \in Run |-> Null]
    /\ plan     = [r \in Run |-> NoPlan]
    /\ crashes  = 0
    /\ abandoned = {}

-----------------------------------------------------------------------------
(***************************************************************************)
(* What the statements read, and the locks.                                *)
(***************************************************************************)
Rows == {r \in Run : state[r] # "absent"}

\* COALESCE(MAX(iteration_index), -1) + 1
NextIndex_fromOne == Max({index[r] : r \in Rows} \cup {0}) + 1
NextIndex == IF Rows = {} THEN 0 ELSE Max({index[r] : r \in Rows}) + 1

Larger(a, b) == IF a < b THEN b ELSE a

\* MAX(best_ever_score_after): the gate reads every row, the runner the rows
\* that have ended, without its own.
BestOf(S) == Max({after[r] : r \in S} \cup {Null})
BestForGate_latest == BestOf({r \in Rows : index[r] + 1 = NextIndex})
BestForGate        == BestOf(Rows)
BestForRunner(r)   == BestOf({q \in Rows \ {r} : state[q] # "running"})

\* The workflow's row: the gate locks it FOR UPDATE, a foreign-key check of
\* a runner's third phase shares it to the end of the transaction.
Excludes(r) == KindOf[r] = "gate" /\ pc[r] \in {"audit", "bench", "commit"}
Shares_not(r) == FALSE
Shares(r)   == KindOf[r] # "gate" /\ pc[r] \in {"clusters", "best", "complete"}

\* The audit chain's advisory lock, kept to the end of the transaction.
HoldsChain_perCall(r) == KindOf[r] = "gate" /\ pc[r] \in {"bench", "commit"}
HoldsChain(r) ==
    \/ KindOf[r] = "gate" /\ pc[r] \in {"bench", "commit"}
    \/ KindOf[r] # "gate" /\ pc[r] \in {"best", "complete"} /\ (plan[r].edit \/ plan[r].clusters)

WorkflowUnlocked == \A q \in Run : ~Excludes(q)
ChainFree(r)     == \A q \in Run \ {r} : ~HoldsChain(q)

Goto(r, next) == pc' = [pc EXCEPT ![r] = next] /\ UNCHANGED <<idx, best, plan>>

\* The call returns or raises.
Returns(r) ==
    /\ pc'   = [pc EXCEPT ![r] = "done"]
    /\ idx'  = [idx EXCEPT ![r] = 0]
    /\ best' = [best EXCEPT ![r] = Null]
    /\ plan' = [plan EXCEPT ![r] = NoPlan]

\* A step of a request or a job, in an instance that is up.
Alive(r) == KindOf[r] # "gate" /\ mode[ProcessOf[r]] = "up"

-----------------------------------------------------------------------------
(***************************************************************************)
(* Phase 1: autocommitted statements on one connection.                    *)
(***************************************************************************)
\* The route refuses a request while an iteration is running; the connection
\* of this check is given back before the runner starts.  A job is not checked.
Admits(r) == KindOf[r] = "request" => \A q \in Run : state[q] # "running"
Start(r) ==
    /\ Alive(r) /\ pc[r] = "idle"
    /\ IF Admits(r) THEN Goto(r, "index") ELSE Returns(r)
    /\ UNCHANGED <<rowVars, mode, crashes, abandoned>>

ReadIndex(r) ==
    /\ Alive(r) /\ pc[r] = "index"
    /\ idx' = [idx EXCEPT ![r] = NextIndex]
    /\ pc' = [pc EXCEPT ![r] = "insert"]
    /\ UNCHANGED <<rowVars, mode, best, plan, crashes, abandoned>>

\* UNIQUE (workflow_id, iteration_index); the foreign-key check waits for a
\* gate's FOR UPDATE.
Taken_never(r) == FALSE
Taken(r) == \E q \in Rows : index[q] = idx[r]
InsertRow(r) ==
    /\ Alive(r) /\ pc[r] = "insert"
    /\ WorkflowUnlocked
    /\ IF Taken(r)
          THEN /\ Returns(r)
               /\ UNCHANGED <<state, index>>
          ELSE /\ state' = [state EXCEPT ![r] = "running"]
               /\ index' = [index EXCEPT ![r] = idx[r]]
               /\ Goto(r, "started")
    /\ UNCHANGED <<before, after, proposal, audited, mode, crashes, abandoned>>

AuditStarted(r) ==
    /\ Alive(r) /\ pc[r] = "started"
    /\ ChainFree(r)
    /\ audited' = [audited EXCEPT ![r] = @ \cup {"started"}]
    /\ Goto(r, "llm")
    /\ UNCHANGED <<state, index, before, after, proposal, mode, crashes, abandoned>>

-----------------------------------------------------------------------------
(***************************************************************************)
(* Phase 2: the agent and the proposer, without a connection.              *)
(***************************************************************************)
RunLoop(r, cycle) ==
    /\ Alive(r) /\ pc[r] = "llm"
    /\ plan' = [plan EXCEPT ![r] = cycle]
    /\ pc' = [pc EXCEPT ![r] = "traces"]
    /\ UNCHANGED <<rowVars, mode, idx, best, crashes, abandoned>>

\* The router, the loop or its fallback raises, or the task is cancelled.
LoopFails(r) ==
    /\ Alive(r) /\ pc[r] = "llm"
    /\ Goto(r, "mark")
    /\ UNCHANGED <<rowVars, mode, crashes, abandoned>>

\* UPDATE iterations SET state = 'sandbox-error' WHERE id = $1
MarkError(r) ==
    /\ Alive(r) /\ pc[r] = "mark"
    /\ state' = [state EXCEPT ![r] = "sandbox-error"]
    /\ Returns(r)
    /\ UNCHANGED <<index, before, after, proposal, audited, mode, crashes, abandoned>>

-----------------------------------------------------------------------------
(***************************************************************************)
(* Phase 3: one transaction.                                               *)
(***************************************************************************)
PersistTraces(r) ==
    /\ Alive(r) /\ pc[r] = "traces"
    /\ WorkflowUnlocked
    /\ Goto(r, IF plan[r].edit \/ plan[r].clusters THEN "clusters" ELSE "best")
    /\ UNCHANGED <<rowVars, mode, crashes, abandoned>>

\* Clusters, skill version and proposal, each with its audit entry.
WriteProposal(r) ==
    /\ Alive(r) /\ pc[r] = "clusters"
    /\ ChainFree(r)
    /\ Goto(r, "best")
    /\ UNCHANGED <<rowVars, mode, crashes, abandoned>>

ReadBest(r) ==
    /\ Alive(r) /\ pc[r] = "best"
    /\ best' = [best EXCEPT ![r] = BestForRunner(r)]
    /\ pc' = [pc EXCEPT ![r] = "complete"]
    /\ UNCHANGED <<rowVars, mode, idx, plan, crashes, abandoned>>

\* The row's update, the last audit entry and the commit.
CommitRun(r) ==
    /\ Alive(r) /\ pc[r] = "complete"
    /\ ChainFree(r)
    /\ state'    = [state EXCEPT ![r] = IF plan[r].edit THEN "gate-pass" ELSE "gate-blocked"]
    /\ before'   = [before EXCEPT ![r] = best[r]]
    /\ after'    = [after EXCEPT ![r] = Store(Larger(best[r], plan[r].score))]
    /\ proposal' = [proposal EXCEPT ![r] = plan[r].edit]
    /\ audited'  = [audited EXCEPT ![r] = @ \cup {"completed"}]
    /\ Returns(r)
    /\ UNCHANGED <<index, mode, crashes, abandoned>>

\* A statement fails or the task is cancelled: the transaction is rolled back
\* and the row is marked on the same connection.
PersistFails_unmarked(r) ==
    /\ Alive(r) /\ pc[r] \in {"traces", "clusters", "best", "complete"}
    /\ Returns(r)
    /\ UNCHANGED <<rowVars, mode, crashes, abandoned>>
PersistFails(r) ==
    /\ Alive(r) /\ pc[r] \in {"traces", "clusters", "best", "complete"}
    /\ Goto(r, "mark")
    /\ UNCHANGED <<rowVars, mode, crashes, abandoned>>

\* What no handler covers: a statement of phase 1, in particular the audit
\* entry, which the statement_timeout ends when a gate holds the chain; the
\* connection for the replay or for phase 3; the marking itself; the task is
\* cancelled there.  The row stays as it is.
FailsUnmarked(r) ==
    /\ Alive(r)
    /\ pc[r] \in {"index", "insert", "started", "llm", "mark", "traces"}
    /\ abandoned' = IF state[r] = "running" THEN abandoned \cup {r} ELSE abandoned
    /\ Returns(r)
    /\ UNCHANGED <<rowVars, mode, crashes>>

-----------------------------------------------------------------------------
(***************************************************************************)
(* persist_gate_run.                                                       *)
(***************************************************************************)
BeginGate(r) ==
    /\ KindOf[r] = "gate" /\ pc[r] = "idle"
    /\ Goto(r, "workflow")
    /\ UNCHANGED <<rowVars, mode, crashes, abandoned>>

\* The workflow's row, the next index and the best-ever score under it.
LockWorkflow(r) ==
    /\ pc[r] = "workflow"
    /\ WorkflowUnlocked
    /\ \A q \in Run : ~Shares(q)
    /\ idx' = [idx EXCEPT ![r] = NextIndex]
    /\ best' = [best EXCEPT ![r] = BestForGate]
    /\ pc' = [pc EXCEPT ![r] = "audit"]
    /\ UNCHANGED <<rowVars, mode, plan, crashes, abandoned>>

AuditGate(r) ==
    /\ pc[r] = "audit"
    /\ ChainFree(r)
    /\ Goto(r, "bench")
    /\ UNCHANGED <<rowVars, mode, crashes, abandoned>>

\* run_gate: a score above the best-ever passes, unless the prior suite
\* regressed; a runner that errs decides nothing.
RunBenchmark(r, outcome) ==
    /\ pc[r] = "bench"
    /\ outcome.decision = "pass" => outcome.score > best[r]
    /\ plan' = [plan EXCEPT ![r] = outcome]
    /\ pc' = [pc EXCEPT ![r] = "commit"]
    /\ UNCHANGED <<rowVars, mode, idx, best, crashes, abandoned>>

AfterGate(decision) ==
    CASE decision = "pass"  -> "gate-pass"
      [] decision = "fail"  -> "gate-blocked"
      [] decision = "error" -> "sandbox-error"

\* best_ever_score_after of a gate run.
NewBest(r) == IF plan[r].decision = "pass" THEN Larger(best[r], plan[r].score) ELSE best[r]

CommitGate(r) ==
    /\ pc[r] = "commit"
    /\ state'    = [state EXCEPT ![r] = AfterGate(plan[r].decision)]
    /\ index'    = [index EXCEPT ![r] = idx[r]]
    /\ before'   = [before EXCEPT ![r] = best[r]]
    /\ after'    = [after EXCEPT ![r] = Store(NewBest(r))]
    /\ proposal' = [proposal EXCEPT ![r] = plan[r].decision = "pass"]
    /\ audited'  = [audited EXCEPT ![r] = {"started", "completed"}]
    /\ Returns(r)
    /\ UNCHANGED <<mode, crashes, abandoned>>

\* lock_timeout, an error in the transaction, or the script is killed.
AbortGate(r) ==
    /\ KindOf[r] = "gate" /\ pc[r] \notin {"idle", "done"}
    /\ Returns(r)
    /\ UNCHANGED <<rowVars, mode, crashes, abandoned>>

-----------------------------------------------------------------------------
(***************************************************************************)
(* The kernel instance: crash, boot and the sweep before it serves.        *)
(***************************************************************************)
InFlight(r) == pc[r] \notin {"idle", "done"}
Dies(r, p)  == KindOf[r] # "gate" /\ ProcessOf[r] = p /\ InFlight(r)

Crash(p) ==
    /\ mode[p] # "down"
    /\ crashes < MaxCrashes
    /\ crashes' = crashes + 1
    /\ mode' = [mode EXCEPT ![p] = "down"]
    /\ pc'   = [r \in Run |-> IF Dies(r, p) THEN "done" ELSE pc[r]]
    /\ idx'  = [r \in Run |-> IF Dies(r, p) THEN 0 ELSE idx[r]]
    /\ best' = [r \in Run |-> IF Dies(r, p) THEN Null ELSE best[r]]
    /\ plan' = [r \in Run |-> IF Dies(r, p) THEN NoPlan ELSE plan[r]]
    /\ UNCHANGED <<rowVars, abandoned>>

Boot(p) ==
    /\ mode[p] = "down"
    /\ mode' = [mode EXCEPT ![p] = "boot"]
    /\ UNCHANGED <<rowVars, runVars, crashes, abandoned>>

\* The rows that the sweep closes.
Orphans_audited == {r \in Run : state[r] = "running" /\ "started" \in audited[r]}
Orphans == {r \in Run : state[r] = "running"}

\* reap_orphaned_iterations: one transaction, an audit entry for every row.
Sweep(p) ==
    /\ mode[p] = "boot"
    /\ Orphans # {} => \A q \in Run : ~HoldsChain(q)
    /\ state' = [r \in Run |-> IF r \in Orphans THEN "sandbox-error" ELSE state[r]]
    /\ audited' = [r \in Run |-> IF r \in Orphans THEN audited[r] \cup {"reaped"} ELSE audited[r]]
    /\ mode' = [mode EXCEPT ![p] = "up"]
    /\ abandoned' = abandoned \ Orphans
    /\ UNCHANGED <<index, before, after, proposal, runVars, crashes>>

\* The reaper must not block startup: a sweep that fails, or times out behind
\* the audit chain, is logged.
SweepFails(p) ==
    /\ mode[p] = "boot"
    /\ mode' = [mode EXCEPT ![p] = "up"]
    /\ abandoned' = abandoned \cup {r \in Run : state[r] = "running" /\ ~InFlight(r)}
    /\ UNCHANGED <<rowVars, runVars, crashes>>

-----------------------------------------------------------------------------
Step(r) ==
    \/ Start(r) \/ ReadIndex(r) \/ InsertRow(r) \/ AuditStarted(r)
    \/ LoopFails(r) \/ MarkError(r)
    \/ PersistTraces(r) \/ WriteProposal(r) \/ ReadBest(r) \/ CommitRun(r)
    \/ BeginGate(r) \/ LockWorkflow(r) \/ AuditGate(r) \/ CommitGate(r)
    \/ \E cycle \in Cycle : RunLoop(r, cycle)
    \/ \E outcome \in Decision : RunBenchmark(r, outcome)

Fault(r) == PersistFails(r) \/ FailsUnmarked(r) \/ AbortGate(r)

Next ==
    \/ \E r \in Run : Step(r) \/ Fault(r)
    \/ \E p \in Process : Crash(p) \/ Boot(p) \/ Sweep(p) \/ SweepFails(p)

Spec == Init /\ [][Next]_vars

\* Tasks go on, locks are granted in turn, an instance that is down is started
\* again and sweeps, unless the sweep fails.
Fairness ==
    /\ \A r \in Run : SF_vars(Step(r))
    /\ \A p \in Process : WF_vars(Boot(p)) /\ SF_vars(Sweep(p))

FairSpec == Spec /\ Fairness

-----------------------------------------------------------------------------
(***************************************************************************)
(* Properties.                                                             *)
(***************************************************************************)
\* The indices are the positions 0, 1, 2, ... of the iterations: nobody skips
\* or shares one, although a runner reads the next index without a lock and
\* inserts in a later statement.
IndicesArePositions ==
    {index[r] : r \in Rows} = {n \in 0..Cardinality(Run) : n < Cardinality(Rows)}

\* "the iteration_index allocation below is collision-free", "concurrent
\* callers always gate against the latest committed score" (persist_gate_run):
\* what the gate has read under the lock is still so when it commits, runners
\* that never lock the workflow notwithstanding.
GateViewIsCurrent ==
    \A r \in Run : Excludes(r) => idx[r] = NextIndex /\ best[r] = BestForGate

\* A runner that brings a proposal records the best-ever score that holds when
\* it commits.
ProposalSawTheBest ==
    \A r \in Run :
        KindOf[r] # "gate" /\ pc[r] = "complete" /\ plan[r].edit => best[r] = BestForRunner(r)

\* An iteration has a proposal that passed exactly when its own state says so.
ProposalMeansPass == \A r \in Run : proposal[r] <=> state[r] = "gate-pass"

\* A pass of the gate beats every earlier gate run, whatever runners did
\* between the two.  Only because a score is compared before it is rounded, and
\* with one that was, may a score that rounding lowers pass without raising the
\* bar.
PassesRaiseTheBar ==
    \A q, r \in Rows :
        KindOf[q] = "gate" /\ KindOf[r] = "gate" /\ index[q] < index[r] /\ state[r] = "gate-pass" =>
            \/ after[q] < after[r]
            \/ after[q] = after[r] /\ \E s \in Score : after[r] < s /\ Stored[s] = after[r]

\* A row is running only while its runner works on it, or until the sweep
\* because its instance has crashed, or because of one of the failures that
\* FailsUnmarked and SweepFails name: no other path leaves the route's guard
\* shut.
RunningHasRunner ==
    \A r \in Run : state[r] = "running" => InFlight(r) \/ mode[ProcessOf[r]] # "up" \/ r \in abandoned

\* "iterations are immutable once ended" (STATE_MACHINES.md).
EndedForGood == [][\A r \in Run : state[r] \in Ended => state'[r] = state[r]]_vars

\* "One running iteration per workflow at a time" (the route's guard).
OneRunning == \A q, r \in Run : state[q] = "running" /\ state[r] = "running" => q = r

\* Every iteration that has started ends, across crashes, unless one of these
\* failures abandons its row.
EveryIterationEnds ==
    \A r \in Run : state[r] = "running" ~> state[r] # "running" \/ r \in abandoned

Contract == INSTANCE IterationContract

\* With one kernel instance, the phases, crashes and sweeps have the effect of
\* the contract's two steps.
ImplementsContract == Contract!Spec

=============================================================================
