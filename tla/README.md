# TLA+ models of the ownEvo kernel

The kernel (`src/apps/kernel/src/ownevo_kernel`) runs an improvement loop: an
agent is run on a workflow's evaluation cases, its failures are clustered, an
edit of its skill is proposed, gated, decided on by a person, deployed and, if
need be, rolled back or shipped to where the agent runs, all of it in Postgres
tables with a hash-chained audit log. Around the loop are the queue that starts
it, the triggers and trace ingestion that feed it, the agent and evaluation
loops inside it, and the tenants, credentials and pages it is operated through.
This directory holds TLA+ models of these parts, TLC runs on small instances and
TLAPS proofs for instances of every size.

Paths below are relative to `src/apps/kernel/src/ownevo_kernel` unless they
start with `src/`.

## Inventory

| Component | Code | State | Operations | Hard behaviour | What makes it correct | Module |
|---|---|---|---|---|---|---|
| Job queue | `jobs/queue.py`, migration 0040 | `jobs` rows | enqueue, claim (`SKIP LOCKED`), heartbeat, complete, fail with backoff, re-queue stale | crash of a worker, lost heartbeat or report, a stolen claim | one active job per workflow, a live worker keeps its claim, settled jobs stay so, every job settles | `JobQueue` |
| Job worker | `jobs/worker.py` | loop, heartbeat task, stop flag | tick over workspaces, poll, execute, stop, cancel | cancellation leaves a heartbeat task, workspace deleted between list and poll | as above | `JobQueue` |
| Iteration runner | `iteration_runner.py` | `iterations`, `proposals`, `traces` | three phases on separate connections | the LLM window between the phases; failures at every statement | numbering, verdict and proposal agree; ended rows are not touched; every row ends | `IterationRunner` |
| Orphan reaper | `jobs/orphan_reaper.py`, `api/app.py` | - | sweep at boot | races an iteration of another instance | closes what nobody works on | `IterationRunner` |
| Gate persistence | `gate/persistence.py` | `iterations`, `proposals`, skill head | one transaction around the benchmark | lock order; index and best-ever score against the runner | verdict, head and score are those of the latest state | `IterationRunner`, `ProposalLifecycle` |
| Gate decision | `gate/runner.py` | - | verdict from scores | missing, invalid, equal and rounded scores | only a score above the stored best-ever one passes | `ImprovementDriver` |
| Decisions | `approvals/service.py`, `api/routes/proposals.py` | `approvals`, proposal state | approve, reject, request changes | two deciders, a decision racing a deploy | a state past approval has its approval | `ProposalLifecycle` |
| Deploy and rollback | `approvals/deploy.py`, `approvals/apply.py` | `skills.deployed_version_id`, `workflows.spec` | deploy, rollback, apply an artifact | check-then-act on different rows under READ COMMITTED | one live proposal per skill, pointer and lineage right, no section of the spec lost | `ProposalLifecycle` |
| Head revert | `src/apps/kernel/scripts/revert_skill.py` | `skills.head_version_id` | conditional revert | a gate pass in between | overwrites only the head it has read | `ProposalLifecycle` |
| Audit writer, export, verification | `audit/writer.py`, `api/routes/audit.py` | `audit_entries`, seq | append under an advisory lock, export, verify | seq numbers lost on rollback or drawn by other tenants; lock held through a benchmark | order of seq is order of commits; the log retells every row; an honest chain verifies, a damaged one does not | `ProposalLifecycle`, `AuditChain` |
| Skill registry | `skills/registry.py` | `skills`, `skill_versions` | register a version | `MAX + 1` and parent read before the lock | versions are numbered without gap | `SkillRegistry` |
| Fix delivery | `api/routes/proposals.py`, `middleware/langsmith_push/client.py` | audit log, external prompt | ship-langsmith, ship-copilot-studio | state read before the lock; crash after the push | delivered once, with its own text | `FixDelivery` |
| Agent loop | `middleware/claude_sdk` | message history, trace | request, stream, dispatch, compact, recover | rejected and cut-off responses, failing tools, archived results | every request is well formed; the last good version goes to the gate | `AgentLoop` |
| Evaluation | `nl_gen/loop.py`, `eval_runner`, `nl_gen/metric_compute.py` | answers, cycles, tokens | predict, score, cluster, propose | malformed edits, timeouts, budgets | the proposal fits the record; spend is bounded; it ends | `EvalCycles` |
| Sandbox | `sandbox/local_docker.py` | admission slots, containers | run, time out, kill, remove, cancel | a kill before the container exists, a cancel at every await | a container has a slot | `Sandbox` |
| Improvement drivers | `src/apps/kernel/scripts/run_*_loop.py`, `replay` | series of runs | seed, write, gate, approve, grow | conditions share a skill, runs are killed | head and scores follow the passes | `ImprovementDriver` |
| Triggers and ingesters | `triggers` | definitions, next times, edges, cursors, in memory | tick, reload, poll, dispatch | edits behind the cache, restarts, failing fetches | nothing fires twice, what is off stops | `TriggerScheduler` |
| OTel receiver, clustering trigger | `middleware/otel_receiver`, `clustering` | `traces`, pending signals, the pass | upsert a batch, signal, drain, enqueue, read, insert | signal while the pass runs, enqueue failing after the pop | failures reach a pass | `TraceIngest` |
| Workflow routes | `api/routes/workflows.py` | the workflow's rows | eval cases, generate, model, try, delete | a deletion statement by statement beside inserts | a workflow goes whole or stays whole | `Workbench`, `IterationRunner` |
| Tenancy and invites | `tenant_session.py`, `api/deps.py`, `api/routes/internal_*.py` | users, identities, members, invites | sign in, create, invite, redeem, revoke, bind | redeem racing revoke and delete, stale sessions | members have founded or were invited | `Tenancy`, `IterationRunner` |
| MCP client | `mcp_client`, `api/routes/mcp*.py` | credentials, OAuth state | connect, register, call, refresh, save | two refreshes with rotating tokens | a stored credential stays usable | `McpAuth` |
| Discovery interview | `api/routes/design_agent.py`, `api/routes/nl_gen.py`, `src/apps/web/app/workspaces/[wsId]/workflows/new/design` | page, requests, quota | ask, answer, retry, generate | lost answers, retries, quota charged at the end | a question is asked twice at most once; the overshoot is bounded | `DesignSession` |
| Usage limits | `eval_runner/token_budget.py`, `api/_demo_*.py` | counters | check, record | checked before, charged after | bounded overshoot | `EvalCycles`, `DesignSession` |
| API application | `api/app.py`, `db.py` | pools, tasks | boot, sweep, serve | a sweep that fails | boots all the same | `IterationRunner` (boot) |
| Other | graceful shutdown, loop-stuck detector, connectors, judges' prompts, benchmarks' scoring, emitters, web pages | - | - | - | not about state, see *Not modelled* | - |

How they interact: a request, a trigger or the clustering trigger enqueues a
job; a worker claims it and calls the iteration runner, which a request may also
call directly; the runner and the drivers run the agent and evaluation loops and
write iterations, skill versions and proposals; the routes decide on, deploy,
roll back and ship proposals; every one of these transactions appends to the
audit log under one advisory lock. Beyond the memory of the scheduler, of the
clustering trigger and of a page, the rows and locks of the database are all
the state the parts share.

## Modules

| Module | Models | Used by |
|---|---|---|
| `JobQueue` | `jobs/queue.py` and `jobs/worker.py` | `MCJobQueue`, `JobQueueProofs` |
| `JobContract` | what an enqueuer relies on, without workers and claims | `JobQueue!Contract` |
| `ProposalLifecycle` | the transactions that create, decide, deploy, roll back and revert, statement by statement, with their locks and audit entries | `MCProposalLifecycle`, `MCControlPlane`, `ProposalLifecycleProofs` |
| `ProposalContract` | the same operations, each indivisible | `ProposalLifecycle!Contract` |
| `IterationRunner` | runner, gate and sweep on the iterations of one workflow | `MCIterationRunner`, `IterationRunnerProofs` |
| `IterationContract` | an iteration appears with the next index and ends once | `IterationRunner!Contract` |
| `AgentLoop` | the agent's tool-use loop over the three wire formats | `MCAgentPlane`, `AgentProofs` |
| `EvalCycles` | the evaluation and improvement cycles of an iteration | `MCAgentPlane`, `EvaluationProofs` |
| `Sandbox` | runs in containers | `MCAgentPlane`, `AgentProofs` |
| `DesignSession` | discovery interview and generation | `MCAgentPlane`, `WorkspaceProofs` |
| `McpAuth` | the credential of an MCP server | `MCAgentPlane`, `AgentProofs` |
| `TriggerScheduler` | scheduler, dispatcher and pollers | `MCControlPlane`, `IngestProofs` |
| `TraceIngest` | span batches to clustering pass | `MCControlPlane`, `IngestProofs` |
| `SkillRegistry` | versions of a skill | `MCControlPlane`, `RecordProofs` |
| `AuditChain` | hash chain, export, verification | `MCControlPlane`, `RecordProofs` |
| `FixDelivery` | shipping a deployed fix | `MCControlPlane`, `RecordProofs` |
| `ImprovementDriver` | the drivers of the gate and its decision | `MCControlPlane`, `EvaluationProofs` |
| `Tenancy` | sign-in, workspaces, invites, connections | `MCControlPlane`, `WorkspaceProofs` |
| `Workbench` | editing and deleting a workflow | `MCControlPlane`, `WorkspaceProofs` |
| `*Proofs` | theorems about the modules above that name them | |

Definitions with a suffix (`Row_unlocked`, `Shipped_outside`, ...) are mutants: a
plausible bug in the definition that follows them. Each property is run
against one, to see that it can fail.

`MCAgentPlane` and `MCControlPlane` instantiate several modules at once. Their
`part` says which module a behaviour runs; the others stay in one of their
initial states. At this level of detail they share no state, so their products
would only multiply states. Where parts do share rows, they are in one module:
the queue with its workers, the lifecycle with gate, runner and revert, ingest
with trigger and pass, the registry with gate passes, delivery with deploy and
rollback, deletion with runs and decisions.

### JobQueue

The state is the `jobs` table (`status`, `key`, `attempts`, `claimedBy`, `age`
of the heartbeat, and `ready`, the queued rows whose `available_at` has passed,
in its order), the deleted workspaces and, for each worker, its place in
`_tick`/`_poll_workspace`/`_execute`. Every SQL statement is one action:
`EnqueueJob`, `RequeueStale`, `ClaimNextJob`, `Heartbeat`, `CompleteJob`,
`FailJob`. Between them come `HandlerEnds`, `ReportLost` (no connection for the
report), `StopRequested`, `StopTimesOut` (cancellation: the row is not reported
and the heartbeat task lives on, pc `"zombie"`), `Crash`, `Restart` and
`DeleteWorkspace`. `Tick` is one heartbeat interval. The report statements match
by id and status only, as in the code (`MayReport`). Abstracted: payload and
result, the backoff's length (`BackoffElapses` happens whenever it likes), the
handlers' own work.

### ProposalLifecycle

A session runs one transaction at a time; `op`, `subject`, `arg` say which, `pc`
names its next statement. `Wants(s)` gives the lock that statement needs, `Clash`
is Postgres' conflict table for the modes that occur (`FOR UPDATE` "X", a plain
`UPDATE` "N", the `FOR KEY SHARE` of a foreign-key check "S", the advisory lock),
`held` are the locks kept to the end. A statement reads what is committed when it
runs; writes show at `Commits`, together with the audit entry. `Abort` (an
error, a `lock_timeout`, a lost connection) is possible at every statement;
`DeadlockAbort` is Postgres rolling back one transaction of a cycle.

| Actions | Code |
|---|---|
| `BeginGate`, `LockWorkflow`, `WriteAudit`, `RunBenchmark`, `LockSkill`, `CommitGate` | `gate/persistence.py` |
| `BeginRunner`, `InsertTraces`, `AuditClusters`, `LockSkill`, `WriteAudit`, `CommitProposal` | `iteration_runner.py`, phase 3 |
| `BeginPropose`, `WriteAudit`, `CommitProposal` | the artifact-proposal routes |
| `BeginDecision`, `LockRow`, `SeedEvalCase`, `WriteAudit`, `CommitDecision` | `approvals/service.py` |
| `BeginDeploy`, `LockRow`, `CheckOther`, `ReadPrior`, `LockSkill`, `CommitDeploy`, `CommitRollback` | `approvals/deploy.py` |
| `ReadSpec`, `WriteSpec`, `CommitArtifact` | `approvals/apply.py` |
| `BeginRevert`, `LockSkill`, `CommitRevert` | `src/apps/kernel/scripts/revert_skill.py` |

A transaction's several audit entries that have nothing between them are one
entry. Sequence numbers lost to rollbacks are not counted here (they are in
`AuditChain`): only their order matters to the properties.

Any session may deploy and roll back. `deploy_proposal` and `rollback_proposal` read
without a lock what they decide on (the check for another deployed proposal, the
version to restore, the spec), so two of them on one skill can overtake each other.
`read[s]` is an auxiliary variable: how many entries the log had when `s` read this
way (`Reads`); the entry of the transaction keeps it, and no guard looks at it. With
it the properties name the races: a move of a skill's pointer is `Overtaken` if
another move of that pointer committed between its read and its commit.
`PointerHasProposal`, `LineageHolds` and `SpecIsWhatWasDeployed` say what holds in
every interleaving, what an overtaken transaction may spoil, and that nothing else
spoils it. `ProposalContract` likewise leaves a deployment or a rollback more room
only on a `raced` skill.

### IterationRunner

Each `Run` is one call: a request (refused while an iteration is running), a job
(not checked) or a gate run. `pc` names its next statement. Phase 1 statements
commit on their own, phase 2 has no connection, phase 3 and the gate are one
transaction each; the gate's row shows at its commit. Locks are held by
position: `Excludes` (the gate's `FOR UPDATE` of the workflow row), `Shares` (the
foreign-key check of phase 3's inserts), `HoldsChain` (the audit lock). The
runner's last UPDATE, audit entry and commit are one step, because the UPDATE
reads nothing. Failures: `LoopFails`, `PersistFails` (rolled back, then marked),
`AbortGate`, and `Crash` of an instance, which ends its requests and jobs; `Boot` and
`Sweep` bring it back. `FailsUnmarked` is what no handler of the runner covers: a
statement of phase 1 (its audit entry runs into the `statement_timeout` while a gate
holds the audit lock through its benchmark), no connection for the next phase or for
the marking. It may happen at every such statement of every run, without a bound, and
leaves a committed row running; so does `SweepFails`, a sweep at boot that fails or
times out and is logged. The auxiliary variable `abandoned` has the rows that these two
leave behind, until a later sweep closes them; no guard looks at it. Gate runs are
processes of their own. Scores are ranks, 0 is NULL, and are rounded as they are written:
`Stored` says what numeric(10,6) keeps of each, `Store` applies it. The gate compares its
unrounded score with the stored best one. A bootstrap `best_ever` passed by the gate's
caller is left at NULL.

### AgentLoop

One run of the tool-use loop. `wire` picks the runner (Anthropic, OpenAI or
Ollama shape); `history` is the message list with the calls and replies each
message carries, `blocks` and `finished` the response that streams in. `Request`
compacts first (`Compact`, `ToArchive` of `conversation_compaction.py`) and then
sends; `OpenCall` and `CloseCall` are the event router's blocks; the `End...`
actions finish a response in the three shapes (a block that is `Whole` becomes a
call), with `EndCutOff` for an OpenAI
stream without a finish reason and `Recover` for a rejected tool call;
`Dispatch` runs the next tool with an outcome of `Outcomes`, `EndTurn` appends
the results; `Conclude` is the choice of the version for the gate in the driver
scripts. The size of a history is the number of tool results it carries in full.
`RequestIsAnswerable` asks of each wire what its provider asks: on Anthropic's, user and
assistant messages that alternate; on the others, `tool` messages that directly follow
the message whose calls they answer, one for each, in order. It asks for answers to the
calls that have started. On the Anthropic wire a block without an id or a name (not
`whole`) never starts, nor does one that is cut off with the stream (`Unclosed` is not
empty), but the code keeps both in the assistant message beside the calls it dispatches:
the history has them unanswered. On the OpenAI wire they are filtered out, and every call
of the history has started.

### EvalCycles

Phase 2 of an iteration and the smoke test with a token budget. `tier` says where
predictions come from; `Predict` answers cases in any order (`asyncio.gather`),
`PredictNext` one by one under the budget, `PredictMock` and `PredictReplay` at
once. `Score` ends a cycle or asks the proposer; `Propose`, `ProposerFlakes`
(start over with one cycle), `ProposerFails` and `Expires` are what may come of
it; `Persist` is what phase 3 takes from the report. Metrics are exact fractions
(`MetricValue`), clusters are the two hints that exist with the default stages,
gated as in `clustering/quality.py`. `WorstFirst` is the one order of a set of cases by
`Severity`: held-out cases first, then by number. A text is a sequence of units, so that
trimming and appending are visible.

### Sandbox

Each `Call` of `LocalDockerSandbox.run` has a place `at`, a docker client and a
container `box` that the daemon starts whenever it likes (external: `Start`,
`Exit`, `ClientExits`). `Cancel` is a `CancelledError` at any await, with the
docker command under way sent or not. `missed` marks the calls whose kill did not
reach a container: the known gap.

### DesignSession

`page` is the state of `design-flow.tsx` and what it waits for, `requests` are the
kernel's handlers, which go on when the page has given up. `Open`, `RetryFirst`,
`Answer`, `Scan` and `Generate` are the page's, `NextQuestion`, `CallLLM` (one
attempt of one generation stage) and `Insert` the kernel's; `CallBreaks` loses an
answer; `Record` charges the quota, best effort, after the work. There are finitely
many pages and dimensions, and a template has no more questions than there are
dimensions: the templates have at most five, the dimensions are seven.

### McpAuth

The row of one server, the app's credentials, the nonces of the connect flow and
the clients, each with a cache and at most one call. A refresh is `ReadSecret`,
`Refresh` (the provider's answer, which may be lost) and `SaveSecret` (by id,
whatever the row holds by then). `rotates` says whether the provider rotates
refresh tokens and ends a consent whose old one turns up again. `mishaps` names
what went wrong since the server was registered; the property says that nothing
else can.

### TriggerScheduler

Time is counted in poll intervals. The definitions (`row`), metric and messages
are the world; `sched` is the place in `_run`: `Wake`, `Reload` or `ReloadFails`,
one visit for each loaded trigger (`VisitCron`, `VisitEarly`, `PollThreshold`,
`PollSlack`, `PollEmail`, `PollCalendar`, `PollFails`), `Act`, `Record`,
`EndTick`. `Restart` clears what is only in memory. The code imports
`jsonb_to_dict`, which does not exist, in `_maybe_reload`, so at this commit no
trigger is ever loaded (run `trigger_reload`, `Binds = FALSE`); `Binds = TRUE` is
the behaviour of the rest once the name is there. `acted` is a history of what a
process has acted on.

### TraceIngest

Span batches (`Receive`, `CheckCap`, `Upsert` in batch order under row locks,
`CommitBatch`, `AbortBatch`, `Signal`, `HintsFail`, `Resend`), the in-memory
trigger (`Poll`, `Drain`, `Enqueue`, `EnqueueFails`) and the job with its pass
(`Claim`, `ReadTraces`, `InsertClusters`, `JobFails`). `dropped` records, for each
trace, how far a known loss of a signal reaches; the property says that failures
beyond it are always on their way to a pass.

### SkillRegistry, AuditChain, FixDelivery

`SkillRegistry` has one action per statement of `register_skill`, with the row lock
that the first write takes and `MoveHead` for a gate pass in between.
`AuditChain` has the appends of transactions of several workspaces under
row-level security (`LockChain`, `ReadPrev`, `ClaimSeq`, `InsertEntry`, a refused
insert after a savepoint, commit and rollback), damage to rows (`AlterEntry`,
`RemoveEntry`), and the export and verification as operators; the hash is the
tuple of what is hashed. `FixDelivery` has the requests of ship-langsmith and
ship-copilot-studio from their first read to the record, deploys and rollbacks
beside them, pushes that fail before or after the commit is made, and pushes
whose request is gone (`strays`). `unrecorded` counts the commits whose record
was lost.

### ImprovementDriver

A `Driver` is a series of runs for one condition: `Seed`, `Write`, `AgentEnds`,
`Smoke`, `LockFlow`, `RunGate`, `Approve`, `Grow` and their failures, `Kill` at any
point, a human who decides first. `GateVerdict` is `gate/runner.py` with its
order of checks. The 7-day replay (`ModeOf = "replay"`) reads its priors before
the lock and grows its suite after a pass; at most one series is a replay, as `suite`
is its own. Benchmarks report any reward for any
subset of the tasks; a run's score is the fraction of the tasks reported. It is compared
as it is (`GateVerdict`) and written rounded to whole 1/`ScoreUnit` (`Numeric`; the unit
of the columns is 10^-6), and the best-ever score is read back so (`BestEver`).

### Tenancy

`slot` holds the requests under way: sign-in (`FindIdentity`, `LinkIdentity`),
workspace creation (count, then insert), invites (`LockInvite` is `SELECT ... FOR
UPDATE`, `RedeemInvite`, `RevokeInvite`), and the binding of a connection
(`CheckMember`, `SetWorkspace`, `ReleaseConn`). `session` is what the web was last
told and may be old. `RedeemVerdict` and `PreviewStatus` are the two decision
procedures over an invite. Removal of a member and soft delete are an operator's,
as no route calls them.

### Workbench

Rows are known by their table and foreign keys (`TableOf`, `Refers`). `ForeignKeys`
has, for each table, the tables its rows refer to in the migrations, and `Schema` says
that the rows keep to it (a proposal of an artifact need not have a skill); it is an
assumption on the constants (`BenchAssumption`), so
that the proofs hold for any rows the migrations admit. The inserts
of runs, decisions and requests are one step each; `delete_workflow` is one action
for each statement in `DeleteOrder`, refused as a whole by a foreign key.
Generation reads before and writes after the model call; `UpdateModel` and
`AppendModelChange` are the two statements of one transaction; `TryCase` is the
lock that is asked before it is taken. One deletion at a time: a second one at the
same time answers success with zero counts.

## Runs

All runs need less than five minutes with two workers.

| Run | Shows |
|---|---|
| `job_live` | Two workers, two jobs on two workflows of a tenant that may be deleted, one fault. With heartbeats inside the staleness threshold (`MaxSilence < Stale`) no live worker loses its claim (`ClaimIsExclusive`), every job settles (`EveryJobSettles`) and the enqueuer's contract is implemented (`ImplementsContract`). |
| `job_attempts` | Violation: a job whose worker dies each time is claimed more than `max_attempts` times. |
| `life_reverts` | Three sessions, a skill with two older versions, gate, runner, decisions, deploys, rollbacks and a revert: the audit log retells each proposal's life (`AuditTellsLife`) and both pointers (`AuditReconstructs`), a revert overwrites only the head it saw (`RevertSawTheHead`), operators' transactions alone never deadlock (`OperatorsNeverDeadlock`), every transaction ends (`EveryTransactionEnds`). |
| `life_serial` | Two proposals on a skill and an artifact proposal, two sessions that both decide, deploy and roll back, racing each other: order of the log (`AuditOrderIsCommitOrder`), `ApprovalBacksState`, the pointer and the lineage but for overtaken moves (`PointerHasProposal`, `LineageHolds`), and the transactions implement `ProposalContract`. |
| `life_skew` | Violation: two proposals on a skill end up deployed. |
| `iter_single` | A request, a job and a gate run, a crash, unmarked failures: indices are positions (`IndicesArePositions`), a recorded best-ever score is current (`ProposalSawTheBest`), `IterationContract` is implemented. |
| `iter_gates` | Two gate runs and a job, a crash: the gate's view holds to its commit (`GateViewIsCurrent`), passes raise the bar, but for ties by rounding (`PassesRaiseTheBar`), a running row has a runner, awaits the sweep or was abandoned by a named failure (`RunningHasRunner`), every other iteration ends (`EveryIterationEnds`). |
| `iter_two` | Violation: two requests pass the guard before either inserts its row. |
| `agent_plane` | Agent loop: requests are well formed and every call that started is answered (`RequestIsAnswerable`), a result reaches the model before it is archived (`FreshResultsReachTheModel`), the version for the gate is the last good one (`CandidateIsLastGoodWrite`). Evaluation: `ProposalFitsTheRecord`, `FixingACaseNeverLowersTheScore`, `SpendIsBounded`, `EveryEvaluationEnds`. And `RunningHoldsASlot` (sandbox), `InterviewsEnd` (interview), `CredentialHolds` (MCP). |
| `eval_head` | Violation: an iteration of a workflow with an accepted instruction is started from an empty one. |
| `control_plane` | Two sessions that deploy artifact proposals on two sections of a spec (`SpecIsWhatWasDeployed`), triggers (`NothingFiresTwice`, `DisabledStopsSoon`), ingest (`FailuresReachAPass`), registry (`VersionsAreNumbered`), verification (`VerifyTells`), delivery (`DeliveredOnce`), drivers with rounded scores (`OnlyPassesCount`), tenants (`MembershipIsEarned`), deletion (`WorkflowStaysWhole`). |
| `trigger_reload` | Violation: no trigger is ever in force, as each reload fails on its import. |

### Bounds

Queue: two workers and two jobs are what a stolen claim needs; `Stale` is 2
intervals, so that a lapse of one is tolerated and a lapse of two is not. One
fault per behaviour already puts a crash, stop or lost report at every statement.
`AttemptsCap` saturates the counter above `MaxAttempts`, so that what happens
beyond it is seen. Lifecycle: two sessions and two proposals on one skill are the
least in which check and act interleave; deadlocks and reverts run with three
sessions, where a cycle of three is possible. Iterations: two scores
tell a better from a worse; `iter_gates` has three, one of which is stored as the one below
it, so that a score ties with itself by rounding.

Agent plane: three turns of up to two calls with `KeepLastK = 1` compact a
history once with results before and after it; four cases give each metric a
vanishing and a proper denominator and clusters that are too small, balanced and
mega; two calls compete for one slot with two cancels; two pages share a quota of
two calls, with one break; two clients share two tokens beyond the consent's, with
one administrator.

Control plane: three batches carry two traces in crossing orders up to a cap of
two, with one mishap; four calls of which one has another kind take all
orders of the registry's reads and writes; one workspace appends twice beside
another's append, with an export cap of three rows; three requests race for two
fixes; three tasks with scores stored in tenths, so that 1/3 is stored as 0.3 and 2/3 as
0.7, one rounded down and one up; two conditions of two rounds, or one beside a run by hand on the same
workflow, share a skill of at most two versions; four requests in two slots for two people, three workspaces and one invite; up to two
writes and two requests beside a deletion that starts from four stocks of rows;
one trigger whose kind is any of the six, for twice its interval, with two edits and
a restart.
Behaviours of these parts end at their bounds, so these two runs and the
iteration runs say `CHECK_DEADLOCK FALSE`; the queue and lifecycle runs check for
deadlock.

The runs check no type invariant: the proofs have those of all modules for every
instance. `PlaneTypeOK` and `ControlTypeOK` join those of a plane, for use with TLC
when a model is changed.

### Fairness

- Queue: `WF` on worker steps, heartbeats, lost reports, exits, restarts, backoff
  and time. The event loop runs ready tasks, the platform restarts a dead
  process. Nothing makes anyone enqueue, crash, stop or delete.
- Lifecycle: `SF` on a session's statements, because a lock wanted by a statement
  may come and go; Postgres grants locks in the order they were asked for, so a
  waiter is not overtaken for ever. `WF` on breaking a cycle.
- Iterations: `SF` on a run's steps and on the sweep for the same reason, `WF`
  on starting an instance that is down.
- Evaluation: `WF` on the runner's own steps and on its timer (`RunnerStep`). An
  LLM need never answer; that an evaluation ends is the timer's doing.
- The others have safety properties only. A docker daemon or an MCP server may
  hang for good, and no timeout of the code covers each of their calls.

## Proofs

Every invariant and action property that a passing run checks is proved here, as a
theorem of the module's specification, for every value of its constants that meets
the named assumption of the module; what a theorem assumes besides is part of its
statement and said below. A specification's theorems rest on an inductive invariant
(`IInv`, `LoopInv`, ...). The proof modules with several
parts have one section for each module they are about.

### JobQueueProofs

For any numbers of jobs, workers, tenants and faults: `TypeCorrect`;
`ExclusiveClaims`, from the assumption that `MaxSilence < Stale`; `OneActive`;
`SettledForGood`; and `Refinement`, that the queue implements `JobContract` whether
or not heartbeats lapse. Exclusivity is not inductive by itself:
`KeyInv` (a row that exists has a key), `WorkerInv` (a worker has a job exactly
while it executes it or its heartbeat outlives it) and `OwnInv` (the row of an
executing worker is running, claimed by it and, in a live workspace, no older
than the worker's silence) are. With `MaxSilence < Stale` the age bound keeps
every executing worker's row out of the stale scan. `TriedInv` (a running row was
claimed at least once) is what the refinement needs besides.

### ProposalLifecycleProofs

For any numbers of sessions, proposals, skills and sections. The inductive
invariant `IInv` has seven parts: `TypeOK`; `SessionInv`, which position each kind
of transaction can be at and what it then carries; `LockInv`, that no two sessions
hold clashing locks; `FreshInv`, that a
proposal being inserted is nobody else's; `UnderLockInv`, that what was checked
under a lock still holds while the lock is kept; `LogInv`, that the committed
entries are numbered in commit order; and `ApprovalBacksState`.
The last three lean on the second and third: a state read under a row lock cannot
change, because whoever changes it holds the lock at its commit.

`TypeCorrect`, `AuditOrder`, `ApprovalBacks` and `RevertIsConditional` follow for
every interleaving.

The audit log is proved to tell what happened. Under `LogInv` the entry with seq
`i` is the `i`th, so "the latest entry before `n`" is the greatest index below `n`
(`LastIn`, `Replay`, `ExportFacts`); `ReplayAppended` says what an appended entry
does to a replay: it decides what comes after it and nothing before. `History`
then carries four facts from commit to commit: `LifeInv`, the entries about a
proposal lead to its state, each from where the one before left it; `HeadInv` and
`PointerInv`, head and deployed version are what the entries replay; and
`OrderlyInv`, that an operator's transaction holds no lock of a later rank than the
one it waits for, and that only gate runs carry a pass. From it follow
`AuditTells`, `AuditReplays`, `RevertNamesTheHead` and `DeadlockFreedom`, for every
interleaving. The last eliminates ranks from the top: the audit chain is held by
transactions that wait for nothing, so nobody in a cycle waits for it, so nobody
in it holds a skill's row and waits, and so on down to the proposal's row.

`PointerFollowsProposal`, `Lineage`, `SpecFollowsDeployments` and `Refinement` are about
any number of sessions that deploy and roll back at the same time. No lock sees to what
they read, so their invariant, `RaceInv`, has what is still true of it: `Carried` says
of each session what its unlocked read is worth. A deployment that is not `OutOfDate`
(no move of the skill's pointer has committed since it read) has no rival and still
knows the live version (`Deploying`); a rollback finds no version to restore, or is out of date, or follows an overtaken
move (`Restoring`); a draft of the spec has every section
that was committed before it was read, and what was written since is in the log
(`Drafting`). `LiveStep`, `SpecStep` and `CarriedOther` carry this over a commit, which
adds one entry to the log and so can only make others out of date. In `Refinement` each
commit is an operation of the contract (`ContractStep`), and an overtaken one a raced
operation (`RacedStep`).

### IterationRunnerProofs

For any numbers of runs, kernel instances and crashes, any scores and any rounding of them
that is monotone and keeps what it has rounded: `TypeCorrect`,
`Positions`, `GateView`, `Bar`, `PassAndProposal` and `SawTheBest`. `IInv` joins the
six properties with `PcInv` (where each kind of call can be and what its row then
shows; a row that has not ended has no score), `MaxInv` (any rows have a largest
score, so the `Max` of the module is defined), `PosInv` (an index read by a runner
is at most the number of rows), `LockInv` and `ChainInv` (one transaction
excludes, one has the audit chain) and `ModeInv` (only an instance that is up has
runs in flight). The numbering and the gate's view hold each other up: the commit
of a gate writes the index that it read, which is the number of rows only because
no row was inserted under its lock; and that view is the number of rows only
because the rows are numbered without gaps. A runner's index may be taken, but
then the unique constraint refuses it.

`Bar` rests on `StoreFacts`: a score above a stored one is, when stored, above it or equal
to it, and then rounding has lowered it. `RunningIsAlive` holds whatever fails unmarked: a running
row that has no runner in an instance that is up is in `abandoned`.
`EndsForGood` and `Refinement` need a single kernel instance (`ASSUME NEW k, Process
= {k}`): the sweep at boot then meets no runner at work (`WorkInv`); with a second
instance it closes the row of a live one, which later writes its own verdict.

### RecordProofs

*SkillRegistry.* For any number of writers and kinds: `RegistryTypeCorrect` and `Numbered`, the whole of
`VersionsAreNumbered`. The row lock alone does not give it, since `MAX + 1` and
the parent are read before the lock. `HolderInv` says who holds the row;
`CarriedInv` says that the number a call carries is at most one beyond the last,
and its parent an earlier version; the unique constraint then leaves exactly the
next number (`NextSeq` computes it), and a version that is about to be committed
is not taken because its holder keeps everyone else from inserting.

*AuditChain.* For any writers and workspaces, appends, refusals, rollbacks and export
cap, and one row altered or removed at any moment: `AuditTypeCorrect` and
`ChainTells`, that is `VerifyTells`. A row's parent is the hash of the last hashed
row of its workspace before it, *as it stood when the row came* (`EntriesInv`): those
before it that are there, and with them the one removed after it had come (`Behind`). That
is inductive because a row which comes later has a greater number than all those there
are (`FreshSeq`): the advisory lock is held from the first append to the end of the
transaction (`TransInv`), so no number is drawn by one writer and committed after
another's. `RowsInv` says the same of rows not yet committed. Verification recomputes
parents from the rows it sees; it then agrees exactly with `Torn`. The proof needs no
property of the hash but that different entries have different ones, which the model's
tuples give.

*FixDelivery.* For any numbers of proposals and requests: `DeliveryTypeCorrect` and `ShipsOnce`, that is
`DeliveredOnce`. `CallInv` says what a request that goes on has read, `LockInv`
that from the second look at the log to the record a push has its proposal to
itself, so that the look stays true, `TextInv` that what was delivered or is under
way is the proposal's own text, and `CountInv` that each commit is recorded, about
to be recorded, or counted as unrecorded. The advisory lock carries the second,
and only the second look under it makes the last one hold: a mutant that looks
before it (`Shipped_outside`) pushes twice.

### AgentProofs

*Sandbox.* For any number of calls, slots and cancels: `SandboxTypeCorrect` and
`SlotsBoundTheContainers`, that is `RunningHoldsASlot`. `ClientInv` says
that a container that runs has its docker client alive, `SettledInv` that once a
call is past the kill, or has not begun, no container of it runs and none can come,
but for one a kill has missed, and `SlotInv` that no more than `Slots` calls are admitted; the number of
containers follows from it by inclusion.

*McpAuth.* For any numbers of clients, callbacks, nonces, tokens and changes: `McpTypeCorrect`
and `Credentials`, that is `CredentialHolds`. `ConnectInv` follows a nonce to one
callback and then one registration. `BoundInv` says that every token there is was
issued, so that a new one is new; with it `BrowserInv` keeps what a callback
brings apart from every other token, and `NewInv` a rotated token that is still
to be saved. `MintInv` says that a call which has read the row's token is a call
to that row. `HoldInv` is the property itself with what makes it inductive: a
saver that the row waits for brings a token that the provider takes.

*AgentLoop.* For any limits of turns and calls, any threshold and `KeepLastK`:
`LoopTypeCorrect`, `RequestsAnswerable`, `FreshResultsArrive` and `CandidatesGood`.
`TurnInv` gives each block and call of a turn an id of its own and lets results come in
the calls' order. `HistoryInv` has two forms: on the Anthropic wire, messages alternate
and each assistant message has those of its calls that started answered, call by call, by
the next (`Alternates`); on the others each call is answered by its own `tool` message
(`Answers`), except for the last message while its calls are dispatched. `CalledInv` says
that the calls of the history are of turns gone by, so that a call which starts later is
none of them, and the answers that were complete stay so (`StartedKept`,
`AlternatesKept`). Compaction keeps both because it keeps
messages, roles and ids, and archives content only. `FreshInv` says that what follows
the last message with calls is not archived before a request has carried it, where the
latest results are no more than `KeepLastK`: `ToArchive` spares just those. For the
candidate, `TraceInv` gives each call one result at most and `VersionsInv` lists the
versions in the order of their results; the choice of `Conclude` then skips unloadable
ones only. `KillInv` follows a killed sandbox to the end of the run.

### EvaluationProofs

*EvalCycles.* For any cases, labels, families, cluster limits and budgets:
`EvalTypeCorrect`, `SpendBounded`, `FixesCount` and `ProposalsFit`. `CallsInv` ties the
calls to the answers there are, with one run over the cases and one proposer call
behind a restart, and `StageInv` lets the proposer be called once, so that there is one
restart at most. `SpendInv` is the token cap: who overshoots it stops there.
`FixesCount` needs no reachability beyond types, but arithmetic: a metric is a fraction
of counts, and one more right answer moves numerator and denominator in a way that
cannot lower it (lemmas on each family, with their vanishing denominators). For
`ProposalsFit`, `FirstInv` says that the edit of the first cycle was made for the
clusters of its own outcomes and `StoredInv` that the row names their dominant one;
`SortedEnumeration` (a finite set whose elements have distinct keys can be listed by
key) shows that `WorstFirst` exists, and with it that a held-out failure of the cluster
comes before all others and so among the examples.

*ImprovementDriver.* For any drivers, workflows, tasks and rounds: `DriverTypeCorrect`
and `PassesCount`, that is `OnlyPassesCount`. `RunsInv` says that a driver between
`LockFlow` and the gate's commit has the workflow's lock and the best score that still
is the last pass's, or, in the replay, the suite as it stands; `RowsOk` that a row's
best-ever score is that of the last pass up to it, and that each pass outdoes those before
it; this is inductive because outdoing is transitive (`OutdoesTransitive`) and because the
rounding of a score that is above a stored one outdoes it (`NumericFacts`), for any unit;
`HeadIs` that the head is the last pass's version. A kill gives the lock up together
with what was read under it.

### IngestProofs

*TraceIngest.* For any traces, batches, event cap, resends and mishaps:
`IngestTypeCorrect` and `FailuresAreSeen`, that is `FailuresReachAPass`. `OwnerInv`
makes a trace with a bound batch's events the workflow's. The property is not inductive
while the trigger drains: the signal is popped and the job not yet there. `WayInv`
therefore speaks of what is beyond the snapshot at the pop (`SpokenFor`): it has a
signal of its own. When the enqueue succeeds the job has yet to read; when it fails
the snapshot is what was dropped.

*TriggerScheduler.* For any finite set of triggers and any intervals:
`TrigTypeCorrect`, `FiresOnce` (`NothingFiresTwice`) and `DisabledStops`
(`DisabledStopsSoon`). `ActedInv` says for each kind why what was acted on is behind: a
cron time lies before `nextAt`, or is this tick's; a rise has its latch set until the
next fall; a message lies under the cursor or among those handled; a calendar event is
remembered until the prune. `LoadedInv` says that what is loaded and not on was
switched off after the last reload, and what a tick visits no longer than an interval
ago.

### WorkspaceProofs

*Tenancy.* For any numbers of people, logins, workspaces, invites and requests, as long as
they are finite and nobody starts beyond the cap (`TenancyCount`): `TenancyTypeCorrect`
and `Earnings`, that is `MembershipIsEarned`. `HeldInv` says that the row which a
redeem or revoke has read under its lock stays the row, but for its expiry, and
that one request at a time has it; an invite is therefore accepted once.
`MemberInv` and `EnteredInv` give every member, and every request that has passed
the membership check, the founding or the invite it comes from. `CapInv` counts
creations that have been counted and are not done against the cap: workspaces
joined, plus those under way, are at most the cap plus one less than the
slots plus the invites accepted. `SessionInv` is about what the web was told.

*Workbench.* For any rows that the migrations' foreign keys admit, any stocks and any
numbers of requests: `BenchTypeCorrect` and `StaysWhole`, that is `WorkflowStaysWhole`.
`RowsInv` keeps the committed rows closed under references, and those the open deletion
has left as well. `Emptied` follows the deletion: after each statement of `DeleteOrder`
beside which nothing was written, its table is empty, so that the next statement meets
no row that refers to what it deletes, by the tables in `ForeignKeys`. The order of the
statements is what this rests on, and a mutant that deletes the clusters before the
iterations is refused. `DeskInv` is about the requests: the update of the model holds the row until its
audit entry, hence one at a time; who read a metric before the model call sees it still.

*DesignSession.* For any finite pages and dimensions, any template that is no longer
than the dimensions, any retries, quota and failures: `DesignTypeCorrect` and
`InterviewsStayShort`, that is `InterviewsEnd`. `LogInv` splits a log into the kernel's
questions and the findings of the scan in their order. `NextInv` says that the question
on the page has not been asked, or may be repeated, once, because of the retry;
`RequestInv` that the log a question request carries is the page's, or that of
before the retry. An answer that comes late belongs to no page that waits and changes
none. The length follows from the repeats by counting: a log without them maps
one-to-one into the dimensions, or into the template (`Len(Template) <=
Cardinality(Dimension)` is used here). `UsageInv` counts the requests that can
still charge against the quota: one for each page, and one for each break.

### Only model-checked

Liveness under fairness (`EveryJobSettles`, `EveryTransactionEnds`,
`EveryIterationEnds`, `EveryEvaluationEnds`) and anything with ENABLED. The provers
cannot do induction over data either; where a definition would compute by recursion or
a fold what a choice says as well, the modules say it by a choice (`WorstFirst` of
`EvalCycles`, `Ordered` of `TriggerScheduler`, `LastOf` of `AuditChain`), whose existence is
proved by well-founded choice of a least element. No module declares a RECURSIVE
operator. The violations of the next section are TLC's.

## Where the code and its documentation differ

The five violation runs show the first ones; the rest was met while reading.

- `jobs/queue.py:75` promises bounded retries; `claim_next_job` and
  `requeue_stale_jobs` do not look at `max_attempts` (`job_attempts`).
- `approvals/deploy.py` promises one deployed proposal per skill; two deploys of
  different proposals both pass the check (`life_skew`). Afterwards two concurrent
  rollbacks can each restore the version the other rolls back, which leaves
  `deployed_version_id` on a rolled-back proposal, against what `rollback_proposal`
  says of the pointer, and shipping one of the two sends the other's text. The audited
  `prior` of an overtaken deployment is a version that was no longer live.
  `PointerHasProposal` and `LineageHolds` say that only an overtaken move does this.
- The run endpoint promises one running iteration per workflow (`iter_two`); jobs
  are not checked at all.
- The runner reads the accepted head instruction in phase 1 and starts the loop
  with the empty variable of phase 2 (`eval_head`).
- `triggers/scheduler.py:321` imports a name that does not exist, so the reload
  that enabled triggers are said to be picked up by fails each time
  (`trigger_reload`).
- `approvals/apply.py` promises that other sections of a spec are left untouched;
  of two concurrent deploys the later can take away the section of the earlier, having
  read the spec before. `SpecIsWhatWasDeployed` says that a section is lost in no other
  way.

Iterations and gate:

- `src/docs/STATE_MACHINES.md:90` has the gate run on every proposal;
  `iteration_runner.py:734` inserts its proposal as gate-passed. Line 3 has every
  transition audited; the runner's failure paths mark the row without an entry.
  Line 146 has the best-ever score advance on a pass only;
  `iteration_runner.py:772` takes the larger one whatever the state.
- `iteration_runner.py:413` has every failure marked. Phase 1 has no handler: its audit
  entry (line 450) waits for the audit lock, which a gate run keeps through its whole
  benchmark, and the 30 s `statement_timeout` of `db.py` then leaves the committed row
  running and the route's guard shut, with nobody at work on it. The marking of a later
  failure needs a connection and is not retried when there is none. The sweep at the next
  boot can time out the same way; it is logged and the rows stay
  (`jobs/orphan_reaper.py:58`). `RunningHasRunner` and `EveryIterationEnds` say that
  nothing else leaves a row running.
- The gate compares an unrounded score, at epsilon 0.0, with a best-ever score that
  numeric(10,6) has rounded (`gate/runner.py:163`,
  `src/apps/kernel/migrations/0001_substrate.sql:246`): a score of 1/3 is stored as 0.333333
  and passes again each time, without any gain. `PassesRaiseTheBar` and
  `OnlyPassesCount` allow exactly such ties. The drivers have the same.
- A cancellation that arrives while phase 3 commits can mark a row as `sandbox-error`
  that has just been committed as gate-passed (`iteration_runner.py:821`); the commit is
  one step here, so this is not modelled.
- `jobs/orphan_reaper.py:12` takes every running row for an orphan; with a second
  kernel instance it closes a live iteration, which then overwrites the
  closed row by id.
- `nl_gen/loop.py:404` breaks ties between clusters by ascending label, the code by
  descending one. `eval_case_set.py:138` keeps test-fold failures from the
  proposer, the code sends them. A proposal's `eval_score` is cycle 0's. The replay
  solver's fallback, which `loop.py:583` says the runner wires, is not wired. When
  one prediction fails, the others of the `gather` run on.

Drivers:

- The score of a run is the mean over the tasks it *reported*: a missing task
  leaves the denominator and only prior tasks are protected, so the rule of
  `benchmark/types.py:10` holds for a missing score only. The production drivers
  pass no prior tasks; the regression check works for the 7-day replay alone.
- `thirty_day.py` isolates its conditions by workflow id, while skills are keyed by
  skill id and shared; seeding is not idempotent once a gate has passed. A
  candidate of M5 is the baseline with one file exchanged, so the combination of
  heads that a series of passes leaves is never scored.
- A run killed between gate and approval leaves an undecided proposal; one whose
  proposal a person has decided first ends in an error.

Agent and sandbox:

- `middleware/claude_sdk/event_router.py:236` calls it safe to skip a tool_use block
  without id or name. It is skipped in dispatch, but `finalize_blocks_in_order` (line 338)
  puts it, or a block that a cut-off stream has left open, into the assistant message
  beside the calls that were dispatched; the next request then carries a tool_use that has
  no result. The OpenAI runner filters such calls.
- An OpenAI stream that breaks off without a finish reason counts as the end of the
  turn and drops its calls; after a sandbox kill the turn's other calls are still
  dispatched; with more calls in a turn than results are kept in full, the OpenAI
  shape archives results the model has not read; `write_skill` inserts a version
  whose Python does not load.
- A kill sent before the container exists misses it; a cancel between exit and
  removal leaves an exited container. A daemon that hangs is waited for without a
  bound.

Triggers and traces:

- The Slack, email and calendar pollers call `MCPClient.from_server_id`, which does
  not exist; `actions.py:233` inserts columns that `traces` does not have. Both are
  modelled as if they worked. Slack advances its cursor before it ingests and reads
  the newest page only; cron ticks that fall in a restart are not made up for.
- A signal that comes while a pass has read but not ended is dropped, as is one
  whose provenance hints fail; a batch that is sent again is appended again; two
  batches that list traces in opposite orders deadlock. `FailuresReachAPass` names
  exactly these losses.

Registry, audit, delivery:

- The parent of a version may be stale, so versions can branch, against the
  comment at `skills/registry.py:106`.
- An honest chain is reported broken when seq numbers were lost to a rollback or
  drawn by other workspaces.
- A rollback between the read and the push of ship-langsmith ships a version that
  is no longer live; the retry after a lost answer pushes a second commit; shipping
  the restored proposal after a rollback answers "already shipped" and leaves the
  newer text on the remote.

Tenants and credentials:

- The comment at `internal_invites.py:276` says who revisits an expired invite is
  told to be a member already; the token's own expiry is checked first. The comment
  on `MAX_WORKSPACES_PER_USER` says only one of two concurrent creations proceeds;
  under READ COMMITTED both do, and redeeming is not capped. Two first sign-ins of
  one login with different addresses can answer a user that the identity is not
  linked to.
- The OAuth `callback` wants a bearer assertion that a browser's redirect does not
  carry. The cache of a client is never invalidated; a refresh whose answer is
  lost, or that is saved after a reconnect, ends the credential when refresh tokens
  rotate.

Workflows and interview:

- `delete_workflow` does not delete the `agents` row, whose foreign key does not
  cascade: a workflow with a registered agent cannot be deleted, nor can an eval
  case made from a rejection. Deleting a case during a run fails the run's last
  transaction; the second of two deletions answers success with zero counts.
  Generating cases again replaces the simulation plan while older cases stay.
- An error in the middle of an interview asks the first question again under the
  old transcript, a second one leaves the page stuck. A generation whose answer is
  lost has committed a workflow all the same.
- `api/_demo_quota.py:9-10` lets a visitor exceed the quota "by a single call". Usage is
  checked when a request starts and charged when it ends, so each page of the visitor,
  and each request that a page has given up on, can be past the check together, and a
  generation spends three stages with their retries. `InterviewsEnd` has the bound that
  the code keeps: that cost for each page and each broken call.

## Not modelled

- `api/models.py` and the other schemas, prompts, tool definitions, fixtures:
  declarations.
- The span mapper (`middleware/otel_receiver/mapper.py`), the adapters of the
  connectors and of the trace format, rendering of simulation modules, parsing of
  data sets: conversions that no property here turns on.
- Scoring, embedding and clustering numerics, benchmarks, the judges' calibration,
  meta-evaluation: computed by a model or a numerical library from its inputs.
- Routes that only read (lists, details, diffs, metrics), command-line parsing,
  demo seeds and smoke tests, the web pages besides the interview.
- The import of an agent from traces (`api/routes/design_agent_import.py`), whose
  interview has the same request and retry structure as the one in `DesignSession`.
- Graceful shutdown: a flag and a timer around the server; to the models it is the
  end of a process, which they have. Database pools, secrets, the OTel emitter.
- The loop-stuck detector: nothing constructs it.
- Within modelled parts: overwriting a description or a metric's columns on deploy,
  the `trigger_fires` rows, the newest-2000 limit of a clustering pass, the death
  of a docker client while its container runs, the rate window of demo users,
  resource limits of the database, a cancellation during a commit.
- Simplified in modelled parts: a trigger's cron times and the scheduler's waiting are on
  one clock (`NextCron`), where the code has the wall clock and a monotonic one.

The definitions stand for about a sixth of the lines of the implementation. Most of
the rest is of the kinds above: declarations, conversions, reads, numerical code
and scripts, where there are no steps to interleave, to lose or to repeat.

Worth adding next: abstract specifications of `SkillRegistry`, `AuditChain` and `FixDelivery`
with their refinements, of the kind that the queue, the lifecycle and the iterations have;
more of the workflow routes.
