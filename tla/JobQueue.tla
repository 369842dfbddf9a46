------------------------------ MODULE JobQueue ------------------------------
(***************************************************************************)
(* The durable background-job queue (jobs/queue.py, migration 0040) and    *)
(* the workers that drain it (jobs/worker.py).                             *)
(*                                                                         *)
(* Every statement of queue.py is one atomic step on the `jobs` table; the *)
(* worker interleaves them with handler runs, heartbeats, lost database    *)
(* connections, process crashes, cancellations by stop() and workspace     *)
(* deletion.  Time advances by one heartbeat interval per Tick.            *)
(***************************************************************************)
EXTENDS Naturals, Sequences, FiniteSets, SequencesExt

CONSTANTS
    Job,          \* job ids: rows the table may come to hold
    Worker,       \* JobWorker instances, one per kernel process
    Workspace,    \* tenants; row-level security splits the table by them
    Key,          \* what the active-job unique index tells apart:
                  \* a (workspace, kind, workflow) triple
    WsOf,         \* the workspace component of a key
    None,         \* SQL NULL / no job
    MaxAttempts,  \* jobs.max_attempts, DEFAULT_MAX_ATTEMPTS in the code
    AttemptsCap,  \* bound: the attempts counter saturates here
    Stale,        \* _STALE_AFTER_SECONDS, in heartbeat intervals
    MaxSilence,   \* bound: intervals a live worker may go without a
                  \* heartbeat reaching the database
    MaxFaults     \* bound: crashes, stops and lost reports in a behaviour

ASSUME QueueAssumption ==
    /\ WsOf \in [Key -> Workspace]
    /\ None \notin Job \cup Worker \cup Key \cup Workspace
    /\ IsFiniteSet(Job)
    /\ MaxAttempts \in Nat \ {0}
    /\ AttemptsCap \in Nat /\ AttemptsCap > MaxAttempts
    /\ Stale \in Nat \ {0}
    /\ MaxSilence \in Nat
    /\ MaxFaults \in Nat

VARIABLES
    status,      \* jobs.status; "absent" before the row is inserted
    key,         \* (workspace_id, kind, payload->>'workflow_id')
    attempts,    \* jobs.attempts
    claimedBy,   \* jobs.claimed_by
    age,         \* intervals since jobs.heartbeat_at, saturating at Stale
    ready,       \* per workspace, the queued rows with available_at <= now()
                 \* in ORDER BY available_at: a row joins when it becomes ready
    deleted,     \* workspaces with deleted_at set
    pc,          \* where each worker's loop is
    job,         \* the job a worker has claimed and not yet let go
    at,          \* the workspace a worker's poll is bound to
    todo,        \* workspaces the current poll tick has still to visit
    silence,     \* intervals since a worker's last successful heartbeat
    stopping,    \* JobWorker._stopping
    faults       \* faults so far

rowVars    == <<status, key, attempts, claimedBy, age, ready>>
workerVars == <<pc, at, job, todo, silence, stopping>>
vars       == <<status, key, attempts, claimedBy, age, ready, deleted,
                pc, at, job, todo, silence, stopping, faults>>

Status   == {"absent", "queued", "running", "succeeded", "failed"}
Active   == {"queued", "running"}
Terminal == {"succeeded", "failed"}
PCs      == {"off", "idle", "tick", "claim", "running", "completing", "failing", "zombie"}

TypeOK ==
    /\ status    \in [Job -> Status]
    /\ key       \in [Job -> Key \cup {None}]
    /\ attempts  \in [Job -> 0..AttemptsCap]
    /\ claimedBy \in [Job -> Worker \cup {None}]
    /\ age       \in [Job -> 0..Stale]
    /\ ready     \in [Workspace -> Seq(Job)]
    /\ deleted   \in SUBSET Workspace
    /\ pc        \in [Worker -> PCs]
    /\ at        \in [Worker -> Workspace \cup {None}]
    /\ job       \in [Worker -> Job \cup {None}]
    /\ todo      \in [Worker -> SUBSET Workspace]
    /\ silence   \in [Worker -> 0..MaxSilence]
    /\ stopping  \in [Worker -> BOOLEAN]
    /\ faults    \in 0..MaxFaults

(***************************************************************************)
(* Derived state.                                                          *)
(***************************************************************************)
\* The workspace a row belongs to; only asked of rows that exist.
JobWs(j) == WsOf[key[j]]

\* The worker is past its claim and has not settled the row yet.
Executing(w) == pc[w] \in {"running", "completing", "failing"}

\* A heartbeat task exists: until the handler ends, and after a cancellation,
\* which leaves _execute without cancelling the task.
Beating(w) == pc[w] \in {"running", "zombie"}

\* requeue_stale_jobs's WHERE clause, within one workspace.
StaleRows_early(s) ==
    {j \in Job : status[j] = "running" /\ JobWs(j) = s /\ age[j] >= Stale - 1}
StaleRows_never(s) ==
    {j \in Job : status[j] = "queued" /\ JobWs(j) = s /\ age[j] = Stale}
StaleRows(s) ==
    {j \in Job : status[j] = "running" /\ JobWs(j) = s /\ age[j] = Stale}

\* A row that jobs_active_per_workflow_idx makes a new one conflict with.
ActiveConflict(k) == \E i \in Job : status[i] \in Active /\ key[i] = k

\* The WHERE clause of heartbeat_job, complete_job and fail_job: by id and
\* status, not by claimed_by.
MayReport(j) == status[j] = "running"

\* fail_job's new status, decided on the row's own counters.
AfterFailure_early(j) == IF attempts[j] + 1 < MaxAttempts THEN "queued" ELSE "failed"
AfterFailure(j) == IF attempts[j] < MaxAttempts THEN "queued" ELSE "failed"

Init ==
    /\ status    = [j \in Job |-> "absent"]
    /\ key       = [j \in Job |-> None]
    /\ attempts  = [j \in Job |-> 0]
    /\ claimedBy = [j \in Job |-> None]
    /\ age       = [j \in Job |-> 0]
    /\ ready     = [s \in Workspace |-> <<>>]
    /\ deleted   = {}
    /\ pc        = [w \in Worker |-> "idle"]
    /\ at        = [w \in Worker |-> None]
    /\ job       = [w \in Worker |-> None]
    /\ todo      = [w \in Worker |-> {}]
    /\ silence   = [w \in Worker |-> 0]
    /\ stopping  = [w \in Worker |-> FALSE]
    /\ faults    = 0

-----------------------------------------------------------------------------
(***************************************************************************)
(* queue.py, called by the trigger actions and the clustering auto-trigger.*)
(***************************************************************************)
\* enqueue_job: ON CONFLICT DO NOTHING against jobs_active_per_workflow_idx.
EnqueueJob(j, k) ==
    /\ status[j] = "absent"
    /\ WsOf[k] \notin deleted
    /\ ~ActiveConflict(k)
    /\ status' = [status EXCEPT ![j] = "queued"]
    /\ key' = [key EXCEPT ![j] = k]
    /\ ready' = [ready EXCEPT ![WsOf[k]] = Append(@, j)]
    /\ UNCHANGED <<attempts, claimedBy, age, deleted, workerVars, faults>>

\* A retried row's available_at passes.
BackoffElapses(j) ==
    /\ status[j] = "queued"
    /\ \A i \in 1..Len(ready[JobWs(j)]) : ready[JobWs(j)][i] # j
    /\ ready' = [ready EXCEPT ![JobWs(j)] = Append(@, j)]
    /\ UNCHANGED <<status, key, attempts, claimedBy, age, deleted, workerVars, faults>>

-----------------------------------------------------------------------------
(***************************************************************************)
(* The worker's loop.                                                      *)
(***************************************************************************)
\* _loop wakes and _tick reads the list of live workspaces.
BeginTick(w) ==
    /\ pc[w] = "idle"
    /\ ~stopping[w]
    /\ pc' = [pc EXCEPT ![w] = "tick"]
    /\ todo' = [todo EXCEPT ![w] = Workspace \ deleted]
    /\ UNCHANGED <<rowVars, deleted, at, job, silence, stopping, faults>>

\* _tick ends: every workspace was visited, or a stop was requested.
EndTick(w) ==
    /\ pc[w] = "tick"
    /\ todo[w] = {} \/ stopping[w]
    /\ pc' = [pc EXCEPT ![w] = "idle"]
    /\ todo' = [todo EXCEPT ![w] = {}]
    /\ UNCHANGED <<rowVars, deleted, at, job, silence, stopping, faults>>

\* _poll_workspace, first statement: requeue_stale_jobs for one workspace.
\* The rows get the same available_at, so their order among themselves is the
\* database's choice.
RequeueStale(w, s) ==
    /\ pc[w] = "tick"
    /\ ~stopping[w]
    /\ s \in todo[w] \ deleted
    /\ \E order \in SetToSeqs(StaleRows(s)) :
          ready' = [ready EXCEPT ![s] = @ \o order]
    /\ LET stale == StaleRows(s)
       IN  /\ status' = [j \in Job |-> IF j \in stale THEN "queued" ELSE status[j]]
           /\ claimedBy' = [j \in Job |-> IF j \in stale THEN None ELSE claimedBy[j]]
           /\ age' = [j \in Job |-> IF j \in stale THEN 0 ELSE age[j]]
    /\ pc' = [pc EXCEPT ![w] = "claim"]
    /\ at' = [at EXCEPT ![w] = s]
    /\ todo' = [todo EXCEPT ![w] = @ \ {s}]
    /\ UNCHANGED <<key, attempts, deleted, job, silence, stopping, faults>>

\* _poll_workspace cannot bind to a workspace deleted after the tick listed
\* it; _tick logs the error and goes on with the next one.
SkipDeleted(w, s) ==
    /\ pc[w] = "tick"
    /\ ~stopping[w]
    /\ s \in todo[w] \cap deleted
    /\ todo' = [todo EXCEPT ![w] = @ \ {s}]
    /\ UNCHANGED <<rowVars, deleted, pc, at, job, silence, stopping, faults>>

\* _poll_workspace, second statement: claim_next_job takes the oldest ready
\* row of the workspace, if there is one.
ClaimNextJob(w) ==
    /\ pc[w] = "claim"
    /\ ready[at[w]] # <<>>
    /\ LET j == Head(ready[at[w]])
       IN  /\ status[j] = "queued"
           /\ status' = [status EXCEPT ![j] = "running"]
           /\ claimedBy' = [claimedBy EXCEPT ![j] = w]
           /\ age' = [age EXCEPT ![j] = 0]
           /\ attempts' = [attempts EXCEPT
                             ![j] = IF @ < AttemptsCap THEN @ + 1 ELSE @]
           /\ job' = [job EXCEPT ![w] = j]
    /\ ready' = [ready EXCEPT ![at[w]] = Tail(@)]
    /\ pc' = [pc EXCEPT ![w] = "running"]
    /\ silence' = [silence EXCEPT ![w] = 0]
    /\ at' = [at EXCEPT ![w] = None]
    /\ UNCHANGED <<key, deleted, todo, stopping, faults>>

NothingToClaim(w) ==
    /\ pc[w] = "claim"
    /\ ready[at[w]] = <<>>
    /\ pc' = [pc EXCEPT ![w] = "tick"]
    /\ at' = [at EXCEPT ![w] = None]
    /\ UNCHANGED <<rowVars, deleted, job, todo, silence, stopping, faults>>

\* _heartbeat_loop pings: heartbeat_job touches the row if it is 'running',
\* whoever claimed it.  A ping that fails is swallowed and only shows as time
\* passing with no Heartbeat.
Heartbeat(w) ==
    /\ Beating(w)
    /\ JobWs(job[w]) \notin deleted
    /\ silence' = [silence EXCEPT ![w] = 0]
    /\ age' = IF MayReport(job[w])
                 THEN [age EXCEPT ![job[w]] = 0] ELSE age
    /\ UNCHANGED <<status, key, attempts, claimedBy, ready, deleted,
                   pc, at, job, todo, stopping, faults>>

\* The handler returns or raises; the heartbeat task is cancelled first.
HandlerEnds(w, ok) ==
    /\ pc[w] = "running"
    /\ pc' = [pc EXCEPT ![w] = IF ok THEN "completing" ELSE "failing"]
    /\ UNCHANGED <<rowVars, deleted, at, job, todo, silence, stopping, faults>>

\* The loop lets the job go and returns to _tick for the next workspace.
Release(w) ==
    /\ pc' = [pc EXCEPT ![w] = "tick"]
    /\ job' = [job EXCEPT ![w] = None]
    /\ silence' = [silence EXCEPT ![w] = 0]
    /\ UNCHANGED <<at, todo, stopping>>

\* complete_job: guarded on 'running', not on claimed_by.
CompleteJob(w) ==
    /\ pc[w] = "completing"
    /\ JobWs(job[w]) \notin deleted
    /\ status' = IF MayReport(job[w])
                    THEN [status EXCEPT ![job[w]] = "succeeded"] ELSE status
    /\ Release(w)
    /\ UNCHANGED <<key, attempts, claimedBy, age, ready, deleted, faults>>

\* fail_job: retry while attempts < max_attempts, else terminal.  A retried
\* row is queued but not ready until its backoff has elapsed.
FailJob(w) ==
    /\ pc[w] = "failing"
    /\ JobWs(job[w]) \notin deleted
    /\ status' = IF MayReport(job[w])
                    THEN [status EXCEPT ![job[w]] = AfterFailure(job[w])] ELSE status
    /\ claimedBy' = IF MayReport(job[w])
                       THEN [claimedBy EXCEPT ![job[w]] = None] ELSE claimedBy
    /\ age' = IF MayReport(job[w]) THEN [age EXCEPT ![job[w]] = 0] ELSE age
    /\ Release(w)
    /\ UNCHANGED <<key, attempts, ready, deleted, faults>>

\* The connection for complete_job / fail_job cannot be had; _tick logs the
\* exception and goes on, and the row stays 'running' with no heartbeat.
ReportLost(w) ==
    /\ pc[w] \in {"completing", "failing"}
    /\ \/ JobWs(job[w]) \in deleted /\ UNCHANGED faults
       \/ faults < MaxFaults /\ faults' = faults + 1
    /\ Release(w)
    /\ UNCHANGED <<rowVars, deleted>>

-----------------------------------------------------------------------------
(***************************************************************************)
(* Process lifecycle, tenancy and time.                                    *)
(***************************************************************************)
\* stop() sets _stopping; the loop leaves at its next check.
StopRequested(w) ==
    /\ pc[w] # "off" /\ pc[w] # "zombie"
    /\ ~stopping[w]
    /\ faults < MaxFaults
    /\ faults' = faults + 1
    /\ stopping' = [stopping EXCEPT ![w] = TRUE]
    /\ UNCHANGED <<rowVars, deleted, pc, at, job, todo, silence>>

\* stop() times out and cancels the loop's task.  CancelledError passes the
\* `except Exception` of _execute: the row is not reported, and a heartbeat
\* task still running is not cancelled.
StopTimesOut(w) ==
    /\ stopping[w]
    /\ Executing(w)
    /\ pc' = [pc EXCEPT ![w] = IF pc[w] = "running" THEN "zombie" ELSE "off"]
    /\ job' = [job EXCEPT ![w] = IF pc[w] = "running" THEN @ ELSE None]
    /\ todo' = [todo EXCEPT ![w] = {}]
    /\ silence' = [silence EXCEPT ![w] = 0]
    /\ UNCHANGED <<rowVars, deleted, at, stopping, faults>>

Off(w) ==
    /\ pc' = [pc EXCEPT ![w] = "off"]
    /\ job' = [job EXCEPT ![w] = None]
    /\ todo' = [todo EXCEPT ![w] = {}]
    /\ silence' = [silence EXCEPT ![w] = 0]
    /\ at' = [at EXCEPT ![w] = None]
    /\ UNCHANGED stopping

\* The process ends: after its loop left, or with the event loop that still
\* held the orphaned heartbeat task.
ProcessExit(w) ==
    /\ stopping[w] /\ pc[w] \in {"idle", "zombie"}
    /\ Off(w)
    /\ UNCHANGED <<rowVars, deleted, faults>>

\* The process dies at any point of its loop.
Crash(w) ==
    /\ pc[w] # "off"
    /\ faults < MaxFaults
    /\ faults' = faults + 1
    /\ Off(w)
    /\ UNCHANGED <<rowVars, deleted>>

\* A new process starts: start().
Restart(w) ==
    /\ pc[w] = "off"
    /\ pc' = [pc EXCEPT ![w] = "idle"]
    /\ stopping' = [stopping EXCEPT ![w] = FALSE]
    /\ UNCHANGED <<rowVars, deleted, at, job, todo, silence, faults>>

\* soft_delete_workspace: the rows stay, nothing can bind to them any more.
DeleteWorkspace(s) ==
    /\ s \notin deleted
    /\ deleted' = deleted \cup {s}
    /\ UNCHANGED <<rowVars, workerVars, faults>>

\* One heartbeat interval passes.  A worker that has a job is never silent
\* for more than MaxSilence intervals: a handler that is running pings, one
\* that has ended gets its connection or an error in that time.  In a deleted
\* workspace every ping fails.
Tick ==
    /\ \A w \in Worker : job[w] # None /\ JobWs(job[w]) \notin deleted
                            => silence[w] < MaxSilence
    /\ silence' = [w \in Worker |-> IF job[w] # None /\ silence[w] < MaxSilence
                                       THEN silence[w] + 1 ELSE silence[w]]
    /\ age' = [j \in Job |-> IF status[j] = "running" /\ age[j] < Stale
                                THEN age[j] + 1 ELSE age[j]]
    /\ UNCHANGED <<status, key, attempts, claimedBy, ready, deleted,
                   pc, at, job, todo, stopping, faults>>

WorkerStep(w) ==
    \/ BeginTick(w)
    \/ EndTick(w)
    \/ \E s \in Workspace : RequeueStale(w, s) \/ SkipDeleted(w, s)
    \/ ClaimNextJob(w)
    \/ NothingToClaim(w)
    \/ \E ok \in BOOLEAN : HandlerEnds(w, ok)
    \/ CompleteJob(w)
    \/ FailJob(w)

Next ==
    \/ \E j \in Job, k \in Key : EnqueueJob(j, k)
    \/ \E j \in Job : BackoffElapses(j)
    \/ \E w \in Worker : \/ WorkerStep(w)
                         \/ Heartbeat(w)
                         \/ ReportLost(w)
                         \/ StopRequested(w)
                         \/ StopTimesOut(w)
                         \/ ProcessExit(w)
                         \/ Crash(w)
                         \/ Restart(w)
    \/ \E s \in Workspace : DeleteWorkspace(s)
    \/ Tick

Spec == Init /\ [][Next]_vars

\* The event loop runs every task that is ready, the pool hands out
\* connections, handlers end, the platform restarts a dead process and clocks
\* advance.  Nothing obliges anyone to enqueue, crash, stop or delete.
Fairness ==
    /\ WF_vars(Tick)
    /\ \A j \in Job : WF_vars(BackoffElapses(j))
    /\ \A w \in Worker :
          /\ WF_vars(WorkerStep(w))
          /\ WF_vars(Heartbeat(w))
          /\ WF_vars(ReportLost(w))
          /\ WF_vars(ProcessExit(w))
          /\ WF_vars(Restart(w))

FairSpec == Spec /\ Fairness

-----------------------------------------------------------------------------
(***************************************************************************)
(* Properties.                                                             *)
(***************************************************************************)
\* "The threshold must comfortably exceed the worker's heartbeat interval so
\* a live worker's job is never stolen" (requeue_stale_jobs): as long as no
\* worker is silent for Stale intervals, the row of a job in a worker's hands
\* is 'running' and claimed by that worker, up to its report.
ClaimIsExclusive ==
    \A w \in Worker : Executing(w) =>
        status[job[w]] = "running" /\ claimedBy[job[w]] = w

\* A burst of triggers for one workflow has one job in flight: enqueue_job,
\* retries, stale re-queues and late reports together never leave two active
\* rows for one (workspace, kind, workflow).
OneActivePerKey ==
    \A i, j \in Job : status[i] \in Active /\ status[j] \in Active /\ key[i] = key[j]
                        => i = j

\* A settled job stays settled: no late report of a worker that lost its
\* claim, no heartbeat and no stale scan moves a row out of 'succeeded' or
\* 'failed'.
TerminalIsFinal ==
    [][\A j \in Job : status[j] \in Terminal => status'[j] = status[j]]_vars

\* "retries are bounded even if the worker dies before reaching `fail_job`"
\* (claim_next_job): a row is never claimed more than max_attempts times.
AttemptsBounded == \A j \in Job : attempts[j] <= MaxAttempts

\* "the work survives a restart instead of vanishing" (migration 0040): a job
\* that was enqueued in a workspace that lives on is settled in the end,
\* whatever workers crash, stop or fail to report on the way.
EveryJobSettles ==
    \A j \in Job : status[j] \in Active ~>
        (status[j] \in Terminal \/ \E k \in Key : key[j] = k /\ WsOf[k] \in deleted)

\* What the enqueuing side relies on, with workers and claims hidden.
Contract == INSTANCE JobContract WITH
    outcome <- [j \in Job |-> IF status[j] \in Active THEN "pending" ELSE status[j]],
    tries   <- attempts

\* The queue implements the contract of JobContract.
ImplementsContract == Contract!Spec

=============================================================================
