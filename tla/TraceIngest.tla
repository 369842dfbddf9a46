----------------------------- MODULE TraceIngest -----------------------------
(***************************************************************************)
(* From a batch of spans to a clustering pass: the OTLP route and its one  *)
(* transaction per batch (middleware/otel_receiver, api/routes/            *)
(* otel_ingest.py), the debounced trigger in the memory of the kernel      *)
(* (clustering/auto_trigger.py), the run_clustering job it enqueues and    *)
(* the pass that reads the workflow's traces (clustering/from_traces.py).  *)
(*                                                                         *)
(* There is one workflow.  A batch is bound to it when its token or its    *)
(* query names it; the content of a span is left out but for whether the   *)
(* batch has a tool failure.                                               *)
(***************************************************************************)
EXTENDS Integers, Sequences, FiniteSets, SequencesExt

CONSTANTS
    Trace,
    Batch,
    Carries,      \* trace ids of a batch, in the order of _group_by_trace_id
    Bound,        \* the batches bound to the workflow
    Failing,      \* the batches with a tool failure
    EventCap,     \* _MAX_EVENTS_PER_TRACE, in batches
    Debounce,     \* debounce_seconds, in poll intervals
    MaxResends,   \* bound: batches a client sends again
    MaxMishaps    \* bound: failed enqueues, failed passes and restarts

ASSUME IngestAssumption ==
    /\ Carries \in [Batch -> Seq(Trace)]
    /\ Bound \subseteq Batch /\ Failing \subseteq Batch
    /\ EventCap \in Nat /\ Debounce \in Nat
    /\ MaxResends \in Nat /\ MaxMishaps \in Nat

Quiet == -1      \* no signal is pending
NoDrain == <<>>  \* nor is one being drained

VARIABLES
    events,      \* traces.events, as the batches that added to it
    ofWorkflow,  \* traces with workflow_id set
    request,     \* where the request of a batch is
    upserted,    \* its traces dealt with so far
    holds,       \* traces whose row its transaction has written
    counted,     \* the cap was checked for its current trace
    pending,     \* _pending: polls since the last signal
    draining,    \* popped, enqueue under way: the events there were at the pop
    job,         \* the run_clustering job
    reading,     \* events of each trace in the pass's snapshot
    clustered,   \* events of each trace that some finished pass had read
    dropped,     \* events of each trace whose signal was lost in a known way
    resends, mishaps

ingestVars == <<events, ofWorkflow, request, upserted, holds, counted, pending,
                draining, job, reading, clustered, dropped, resends, mishaps>>
dbVars  == <<events, ofWorkflow>>
reqVars == <<request, upserted, holds, counted>>
jobVars == <<job, reading, clustered>>

Lengths == [t \in Trace |-> Len(events[t])]
Nothing == [t \in Trace |-> 0]
Later(f, g) == [t \in Trace |-> IF f[t] > g[t] THEN f[t] ELSE g[t]]

IngestTypeOK ==
    /\ events \in [Trace -> Seq(Batch)] /\ ofWorkflow \subseteq Trace
    /\ request \in [Batch -> {"new", "open", "hints", "answered", "failed"}]
    /\ upserted \in [Batch -> Nat] /\ holds \in [Batch -> SUBSET Trace]
    /\ counted \in [Batch -> BOOLEAN]
    /\ pending \in Quiet..Debounce /\ draining \in [Trace -> Nat] \cup {NoDrain}
    /\ job \in {"none", "queued", "running", "read"}
    /\ reading \in [Trace -> Nat] /\ clustered \in [Trace -> Nat] /\ dropped \in [Trace -> Nat]
    /\ resends \in 0..MaxResends /\ mishaps \in 0..MaxMishaps

IngestInit ==
    /\ events = [t \in Trace |-> <<>>] /\ ofWorkflow = {}
    /\ request = [b \in Batch |-> "new"] /\ upserted = [b \in Batch |-> 0]
    /\ holds = [b \in Batch |-> {}] /\ counted = [b \in Batch |-> FALSE]
    /\ pending = Quiet /\ draining = NoDrain
    /\ job = "none" /\ reading = Nothing /\ clustered = Nothing /\ dropped = Nothing
    /\ resends = 0 /\ mishaps = 0

-----------------------------------------------------------------------------
(***************************************************************************)
(* The request.                                                            *)
(***************************************************************************)
CurrentTrace(b) == Carries[b][upserted[b] + 1]
LastTrace(b)    == upserted[b] = Len(Carries[b])

\* Token, workspace, workflow and body are accepted; the transaction opens.
Receive(b) ==
    /\ request[b] = "new"
    /\ request' = [request EXCEPT ![b] = "open"]
    /\ upserted' = [upserted EXCEPT ![b] = 0]
    /\ UNCHANGED <<dbVars, holds, counted, pending, draining, jobVars, dropped, resends, mishaps>>

\* 400, 401, 403, 404 or 413: nothing is written.
Refuse(b) ==
    /\ request[b] = "new"
    /\ request' = [request EXCEPT ![b] = "failed"]
    /\ UNCHANGED <<dbVars, upserted, holds, counted, pending, draining, jobVars, dropped,
                   resends, mishaps>>

\* An exporter that has seen no answer, or an error, sends its batch again; the
\* events carry no key, so a batch that was persisted is appended twice.
Resend(b) ==
    /\ request[b] \in {"answered", "failed"} /\ resends < MaxResends
    /\ resends' = resends + 1
    /\ request' = [request EXCEPT ![b] = "new"]
    /\ UNCHANGED <<dbVars, upserted, holds, counted, pending, draining, jobVars, dropped, mishaps>>

\* The cap, over what is committed: a trace that would grow past it is skipped.
CheckCap(b) ==
    /\ request[b] = "open" /\ ~LastTrace(b) /\ ~counted[b]
    /\ IF Len(events[CurrentTrace(b)]) + 1 > EventCap
       THEN upserted' = [upserted EXCEPT ![b] = @ + 1] /\ UNCHANGED counted
       ELSE counted' = [counted EXCEPT ![b] = TRUE] /\ UNCHANGED upserted
    /\ UNCHANGED <<dbVars, request, holds, pending, draining, jobVars, dropped, resends, mishaps>>

RowFree(b, t) == \A other \in Batch \ {b} : t \notin holds[other]

\* INSERT ... ON CONFLICT DO UPDATE, once no other transaction holds the row.
Upsert(b) ==
    /\ request[b] = "open" /\ ~LastTrace(b) /\ counted[b]
    /\ RowFree(b, CurrentTrace(b))
    /\ holds' = [holds EXCEPT ![b] = @ \cup {CurrentTrace(b)}]
    /\ upserted' = [upserted EXCEPT ![b] = @ + 1]
    /\ counted' = [counted EXCEPT ![b] = FALSE]
    /\ UNCHANGED <<dbVars, request, pending, draining, jobVars, dropped, resends, mishaps>>

\* All upserts of a batch become visible together.  A trace keeps the workflow
\* it has; one without gets the batch's.
CommitBatch(b) ==
    /\ request[b] = "open" /\ LastTrace(b)
    /\ events' = [t \in Trace |-> IF t \in holds[b] THEN Append(events[t], b) ELSE events[t]]
    /\ ofWorkflow' = IF b \in Bound THEN ofWorkflow \cup holds[b] ELSE ofWorkflow
    /\ holds' = [holds EXCEPT ![b] = {}]
    /\ request' = [request EXCEPT ![b] = IF b \in Bound THEN "hints" ELSE "answered"]
    /\ UNCHANGED <<upserted, counted, pending, draining, jobVars, dropped, resends, mishaps>>

\* A database error, or the deadlock of two batches that carry the same traces
\* in different orders: the whole batch is rolled back.
AbortBatch(b) ==
    /\ request[b] = "open"
    /\ request' = [request EXCEPT ![b] = "failed"]
    /\ holds' = [holds EXCEPT ![b] = {}] /\ counted' = [counted EXCEPT ![b] = FALSE]
    /\ UNCHANGED <<dbVars, upserted, pending, draining, jobVars, dropped, resends, mishaps>>

\* The provenance hints or the agent registration raise: the batch is stored,
\* the client sees an error.
HintsFail(b) ==
    /\ request[b] = "hints" /\ mishaps < MaxMishaps
    /\ mishaps' = mishaps + 1
    /\ request' = [request EXCEPT ![b] = "failed"]
    /\ dropped' = Lengths
    /\ UNCHANGED <<dbVars, upserted, holds, counted, pending, draining, jobVars, resends>>

\* What they write is idempotent and left out; then a
\* batch with a tool failure signals, also when all its traces were saturated.
Signal(b) ==
    /\ request[b] = "hints"
    /\ pending' = IF b \in Failing THEN 0 ELSE pending
    /\ request' = [request EXCEPT ![b] = "answered"]
    /\ UNCHANGED <<dbVars, upserted, holds, counted, draining, jobVars, dropped, resends, mishaps>>

-----------------------------------------------------------------------------
(***************************************************************************)
(* The trigger.                                                            *)
(***************************************************************************)
\* A poll that finds the workflow not quiet for long enough.
Poll ==
    /\ pending # Quiet /\ pending < Debounce /\ draining = NoDrain
    /\ pending' = pending + 1
    /\ UNCHANGED <<dbVars, reqVars, draining, jobVars, dropped, resends, mishaps>>

\* _drain_due: the key is popped before the enqueue.
Drain ==
    /\ pending = Debounce /\ draining = NoDrain
    /\ pending' = Quiet /\ draining' = Lengths
    /\ UNCHANGED <<dbVars, reqVars, jobVars, dropped, resends, mishaps>>

\* What _pending holds after the enqueue.
AfterEnqueue_popped == Quiet
AfterEnqueue == pending

\* enqueue_job does nothing while a job of the workflow is queued or running;
\* a pass that has read its traces then misses the ones that came since.
Enqueue ==
    /\ draining # NoDrain
    /\ draining' = NoDrain
    /\ pending' = AfterEnqueue
    /\ job' = IF job = "none" THEN "queued" ELSE job
    /\ dropped' = IF job = "read" THEN Later(dropped, draining) ELSE dropped
    /\ UNCHANGED <<dbVars, reqVars, reading, clustered, resends, mishaps>>

\* An exception is logged; nothing puts the key back.
EnqueueFails ==
    /\ draining # NoDrain /\ mishaps < MaxMishaps
    /\ mishaps' = mishaps + 1
    /\ draining' = NoDrain
    /\ dropped' = Later(dropped, draining)
    /\ UNCHANGED <<dbVars, reqVars, pending, jobVars, resends>>

-----------------------------------------------------------------------------
(***************************************************************************)
(* The job: action_run_clustering.                                         *)
(***************************************************************************)
Claim ==
    /\ job = "queued"
    /\ job' = "running"
    /\ UNCHANGED <<dbVars, reqVars, pending, draining, reading, clustered, dropped, resends, mishaps>>

\* _fetch_production_traces; the pass itself runs in a thread, without a
\* transaction.
ReadTraces ==
    /\ job = "running"
    /\ job' = "read"
    /\ reading' = [t \in Trace |-> IF t \in ofWorkflow THEN Len(events[t]) ELSE 0]
    /\ UNCHANGED <<dbVars, reqVars, pending, draining, clustered, dropped, resends, mishaps>>

InsertClusters ==
    /\ job = "read"
    /\ job' = "none"
    /\ clustered' = Later(clustered, reading)
    /\ reading' = Nothing
    /\ UNCHANGED <<dbVars, reqVars, pending, draining, dropped, resends, mishaps>>

\* The worker dies or the pass raises: the job is queued again, or it has used
\* up its attempts.
JobFails(again) ==
    /\ job \in {"running", "read"} /\ mishaps < MaxMishaps
    /\ mishaps' = mishaps + 1
    /\ job' = IF again THEN "queued" ELSE "none"
    /\ reading' = Nothing
    /\ dropped' = IF again THEN dropped ELSE Lengths
    /\ UNCHANGED <<dbVars, reqVars, pending, draining, clustered, resends>>

\* The kernel stops or dies: open transactions roll back, _pending is gone, and
\* the job of its worker is queued again (module JobQueue).
RestartKernel ==
    /\ mishaps < MaxMishaps
    /\ mishaps' = mishaps + 1
    /\ request' = [b \in Batch |-> IF request[b] \in {"open", "hints"} THEN "failed" ELSE request[b]]
    /\ holds' = [b \in Batch |-> {}] /\ counted' = [b \in Batch |-> FALSE]
    /\ pending' = Quiet /\ draining' = NoDrain
    /\ job' = IF job \in {"running", "read"} THEN "queued" ELSE job
    /\ reading' = Nothing
    /\ dropped' = Lengths
    /\ UNCHANGED <<dbVars, upserted, clustered, resends>>

IngestNext ==
    \/ \E b \in Batch : \/ Receive(b) \/ Refuse(b) \/ Resend(b) \/ CheckCap(b) \/ Upsert(b)
                        \/ CommitBatch(b) \/ AbortBatch(b) \/ HintsFail(b) \/ Signal(b)
    \/ Poll \/ Drain \/ Enqueue \/ EnqueueFails
    \/ Claim \/ ReadTraces \/ InsertClusters \/ RestartKernel
    \/ \E again \in BOOLEAN : JobFails(again)

IngestSpec == IngestInit /\ [][IngestNext]_ingestVars

-----------------------------------------------------------------------------
(***************************************************************************)
(* Properties.                                                             *)
(***************************************************************************)
Known(t) == IF clustered[t] > dropped[t] THEN clustered[t] ELSE dropped[t]

\* "Pop before enqueuing so a signal arriving mid-enqueue re-marks the
\* workflow" (auto_trigger.py): failures that a bound batch has added to the
\* workflow and that no finished pass has read are on their way to one -- a
\* signal is about to be given, pending or being drained, or the job has yet to
\* read, or has read them.  The ways a signal is lost are a failed request or enqueue, a
\* job that gives up, a restart, and a drain while a pass runs that has read.
FailuresReachAPass ==
    \A t \in ofWorkflow : \A k \in Known(t) + 1..Len(events[t]) :
        events[t][k] \in Bound \cap Failing =>
            \/ pending # Quiet \/ draining # NoDrain
            \/ job \in {"queued", "running"}
            \/ job = "read" /\ reading[t] >= k
            \/ \E b \in Bound \cap Failing : request[b] = "hints"
=============================================================================
