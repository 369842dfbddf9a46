----------------------------- MODULE IngestProofs -----------------------------
(*****************************************************************************)
(* Proofs about TraceIngest, for any traces, batches and events, and about   *)
(* TriggerScheduler, for any finite set of triggers.                         *)
(*****************************************************************************)
EXTENDS TraceIngest, TriggerScheduler, FiniteSetTheorems, WellFoundedInduction, TLAPS

-----------------------------------------------------------------------------
(*****************************************************************************)
(* Batches, signals and the clustering passes.                               *)
(*****************************************************************************)

\* A request is at one of its batch's traces or past the last; a trace with
\* events of a bound batch is the workflow's.
RequestInv == \A b \in Batch : upserted[b] <= Len(Carries[b])
OwnerInv == \A t \in Trace : \A k \in 1..Len(events[t]) : events[t][k] \in Bound => t \in ofWorkflow

\* How far the failures of a trace are spoken for: read by a finished pass, lost in a
\* known way, or there at the pop whose enqueue is under way.
SpokenFor(t) == IF draining # NoDrain /\ draining[t] > Known(t) THEN draining[t] ELSE Known(t)

\* The failures after those have another signal, or a job that has yet to read or has
\* read them.
OnTheWay(t, k) ==
    \/ pending # Quiet
    \/ job \in {"queued", "running"}
    \/ job = "read" /\ reading[t] >= k
    \/ \E b \in Bound \cap Failing : request[b] = "hints"
WayInv ==
    \A t \in ofWorkflow : \A k \in SpokenFor(t) + 1..Len(events[t]) :
        events[t][k] \in Bound \cap Failing => OnTheWay(t, k)

IngestInv == IngestTypeOK /\ RequestInv /\ OwnerInv /\ WayInv

-----------------------------------------------------------------------------
\* The current trace of a request that is not past the last.
LEMMA CurrentIsTrace ==
    ASSUME IngestTypeOK, RequestInv, NEW b \in Batch, ~LastTrace(b)
    PROVE  CurrentTrace(b) \in Trace /\ upserted[b] + 1 <= Len(Carries[b])
  <1>1. Carries[b] \in Seq(Trace) /\ upserted[b] \in Nat /\ upserted[b] <= Len(Carries[b])
    BY IngestAssumption DEF IngestTypeOK, RequestInv
  <1>2. QED
    BY <1>1 DEF LastTrace, CurrentTrace

\* The counts are numbers.
LEMMA CountTypes ==
    ASSUME IngestTypeOK
    PROVE  /\ \A t \in Trace : /\ Len(events[t]) \in Nat /\ Known(t) \in Nat /\ SpokenFor(t) \in Nat
                               /\ SpokenFor(t) >= Known(t) /\ Known(t) >= dropped[t]
                               /\ draining # NoDrain => SpokenFor(t) >= draining[t]
           /\ Lengths \in [Trace -> Nat] /\ Nothing \in [Trace -> Nat]
  BY DEF IngestTypeOK, Known, SpokenFor, Lengths, Nothing

\* The later of two counts of events.
LEMMA LaterTypes ==
    ASSUME NEW f \in [Trace -> Nat], NEW g \in [Trace -> Nat]
    PROVE  /\ Later(f, g) \in [Trace -> Nat]
           /\ \A t \in Trace : Later(f, g)[t] >= f[t] /\ Later(f, g)[t] >= g[t]
                               /\ Later(f, g)[t] \in {f[t], g[t]}
  BY DEF Later

\* Where nothing is forgotten, the failures stay spoken for.
LEMMA WayKept ==
    ASSUME IngestInv, IngestTypeOK', UNCHANGED <<events, ofWorkflow>>,
           \A t \in Trace : SpokenFor(t)' >= SpokenFor(t),
           \A t \in Trace : \A k \in SpokenFor(t)' + 1..Len(events[t]) :
               events[t][k] \in Bound \cap Failing /\ OnTheWay(t, k) => OnTheWay(t, k)'
    PROVE  OwnerInv' /\ WayInv'
  <1>1. OwnerInv'
    BY DEF OwnerInv, IngestInv
  <1>2. ASSUME NEW t \in ofWorkflow', NEW k \in SpokenFor(t)' + 1..Len(events[t])', events[t][k]' \in Bound \cap Failing
        PROVE  OnTheWay(t, k)'
    <2>1. t \in Trace /\ t \in ofWorkflow
      BY <1>2 DEF IngestInv, IngestTypeOK
    <2>2. SpokenFor(t) \in Nat /\ SpokenFor(t)' \in Nat /\ Len(events[t]) \in Nat /\ SpokenFor(t)' >= SpokenFor(t)
      <3>1. \A u \in Trace : SpokenFor(u) \in Nat /\ Len(events[u]) \in Nat
        BY CountTypes DEF IngestInv
      <3>2. \A u \in Trace : SpokenFor(u)' \in Nat
        BY DEF IngestTypeOK, Known, SpokenFor
      <3>3. QED
        BY <2>1, <3>1, <3>2
    <2>3. k \in SpokenFor(t)' + 1..Len(events[t]) /\ k \in SpokenFor(t) + 1..Len(events[t])
      BY <2>2, <1>2
    <2>4. QED
      BY <1>2, <2>1, <2>3 DEF WayInv, IngestInv
  <1>3. QED
    BY <1>1, <1>2 DEF WayInv

\* A request that moves without committing or failing its hints.
LEMMA QuietIngestStep ==
    ASSUME IngestInv, IngestTypeOK', RequestInv', UNCHANGED <<events, ofWorkflow, clustered, dropped, draining, job, reading>>,
           pending # Quiet => pending' # Quiet,
           \A b \in Bound \cap Failing : request[b] = "hints" => request'[b] = "hints" \/ pending' # Quiet
    PROVE  IngestInv'
  <1>1. \A t \in Trace : SpokenFor(t)' = SpokenFor(t)
    BY DEF SpokenFor, Known
  <1>2. \A t \in Trace : SpokenFor(t)' >= SpokenFor(t)
    BY <1>1, CountTypes DEF IngestInv
  <1>3. ASSUME NEW t \in Trace, NEW k, OnTheWay(t, k) PROVE OnTheWay(t, k)'
    BY <1>3 DEF OnTheWay
  <1>4. QED
    BY <1>2, <1>3, WayKept DEF IngestInv

\* The initial state is one of the invariant.
LEMMA IngestInvInit ==
    ASSUME IngestInit
    PROVE  IngestInv
  <1>1. IngestTypeOK
    BY IngestAssumption DEF IngestInit, IngestTypeOK, Quiet, Nothing, NoDrain
  <1>2. RequestInv
    BY IngestAssumption DEF IngestInit, RequestInv
  <1>3. OwnerInv /\ WayInv
    BY DEF IngestInit, OwnerInv, WayInv
  <1>4. QED
    BY <1>1, <1>2, <1>3 DEF IngestInv

\* The steps of a request keep the invariant.
LEMMA RequestStep ==
    ASSUME IngestInv, NEW b \in Batch,
           \/ Receive(b) \/ Refuse(b) \/ Resend(b) \/ CheckCap(b) \/ Upsert(b) \/ AbortBatch(b) \/ Signal(b)
    PROVE  IngestInv'
  <1> USE IngestAssumption DEF IngestInv
  <1>0. Carries[b] \in Seq(Trace) /\ Len(Carries[b]) \in Nat
    OBVIOUS
  <1>1. CASE Receive(b)
    <2>1. IngestTypeOK' /\ RequestInv'
      BY <1>0, <1>1 DEF Receive, IngestTypeOK, RequestInv, dbVars, jobVars
    <2>2. QED
      BY <1>1, <2>1, QuietIngestStep DEF Receive, dbVars, jobVars, IngestTypeOK
  <1>2. CASE Refuse(b)
    <2>1. IngestTypeOK' /\ RequestInv'
      BY <1>2 DEF Refuse, IngestTypeOK, RequestInv, dbVars, jobVars
    <2>2. QED
      BY <1>2, <2>1, QuietIngestStep DEF Refuse, dbVars, jobVars, IngestTypeOK
  <1>3. CASE Resend(b)
    <2>1. IngestTypeOK' /\ RequestInv'
      BY <1>3 DEF Resend, IngestTypeOK, RequestInv, dbVars, jobVars
    <2>2. QED
      BY <1>3, <2>1, QuietIngestStep DEF Resend, dbVars, jobVars, IngestTypeOK
  <1>4. CASE CheckCap(b)
    <2>0. upserted[b] + 1 <= Len(Carries[b])
      BY <1>4, CurrentIsTrace DEF CheckCap
    <2>1. IngestTypeOK' /\ RequestInv'
      <3>0. /\ upserted' \in [Batch -> Nat] /\ counted' \in [Batch -> BOOLEAN]
            /\ \A c \in Batch : upserted'[c] = upserted[c] \/ (c = b /\ upserted'[c] = upserted[b] + 1)
        <4>1. upserted \in [Batch -> Nat] /\ counted \in [Batch -> BOOLEAN]
          BY DEF IngestTypeOK
        <4>2. \/ upserted' = [upserted EXCEPT ![b] = upserted[b] + 1] /\ counted' = counted
              \/ upserted' = upserted /\ counted' = [counted EXCEPT ![b] = TRUE]
          BY <1>4 DEF CheckCap
        <4>3. upserted' \in [Batch -> Nat]
          BY <4>1, <4>2
        <4>4. \A c \in Batch : upserted'[c] = upserted[c] \/ (c = b /\ upserted'[c] = upserted[b] + 1)
          BY <4>1, <4>2
        <4>5. counted' \in [Batch -> BOOLEAN]
          BY <4>1, <4>2
        <4>6. QED
          BY <4>3, <4>4, <4>5
      <3>1. RequestInv'
        BY <2>0, <3>0 DEF RequestInv
      <3>2. QED
        BY <1>4, <3>0, <3>1 DEF CheckCap, IngestTypeOK, dbVars, jobVars
    <2>2. QED
      BY <1>4, <2>1, QuietIngestStep DEF CheckCap, dbVars, jobVars, IngestTypeOK
  <1>5. CASE Upsert(b)
    <2>0. upserted[b] + 1 <= Len(Carries[b]) /\ CurrentTrace(b) \in Trace
      BY <1>5, CurrentIsTrace DEF Upsert
    <2>1. IngestTypeOK' /\ RequestInv'
      <3>0. /\ upserted' \in [Batch -> Nat] /\ counted' \in [Batch -> BOOLEAN]
            /\ \A c \in Batch : upserted'[c] = upserted[c] \/ (c = b /\ upserted'[c] = upserted[b] + 1)
        <4>1. upserted \in [Batch -> Nat] /\ counted \in [Batch -> BOOLEAN]
          BY DEF IngestTypeOK
        <4>2. /\ upserted' = [upserted EXCEPT ![b] = upserted[b] + 1]
              /\ counted' = [counted EXCEPT ![b] = FALSE]
          BY <1>5 DEF Upsert
        <4>3. upserted' \in [Batch -> Nat]
          BY <4>1, <4>2
        <4>4. \A c \in Batch : upserted'[c] = upserted[c] \/ (c = b /\ upserted'[c] = upserted[b] + 1)
          BY <4>1, <4>2
        <4>5. counted' \in [Batch -> BOOLEAN]
          BY <4>1, <4>2
        <4>6. QED
          BY <4>3, <4>4, <4>5
      <3>1. RequestInv'
        BY <2>0, <3>0 DEF RequestInv
      <3>2. holds' \in [Batch -> SUBSET Trace]
        BY <1>5, <2>0 DEF Upsert, IngestTypeOK
      <3>3. QED
        BY <1>5, <3>0, <3>1, <3>2 DEF Upsert, IngestTypeOK, dbVars, jobVars
    <2>2. QED
      BY <1>5, <2>1, QuietIngestStep DEF Upsert, dbVars, jobVars, IngestTypeOK
  <1>6. CASE AbortBatch(b)
    <2>1. IngestTypeOK' /\ RequestInv'
      BY <1>6 DEF AbortBatch, IngestTypeOK, RequestInv, dbVars, jobVars
    <2>2. QED
      BY <1>6, <2>1, QuietIngestStep DEF AbortBatch, dbVars, jobVars, IngestTypeOK
  <1>7. CASE Signal(b)
    <2>1. IngestTypeOK' /\ RequestInv'
      BY <1>7 DEF Signal, IngestTypeOK, RequestInv, dbVars, jobVars, Quiet
    <2>2. QED
      BY <1>7, <2>1, QuietIngestStep, SMTT(60) DEF Signal, dbVars, jobVars, IngestTypeOK, Quiet
  <1>8. QED
    BY <1>1, <1>2, <1>3, <1>4, <1>5, <1>6, <1>7

\* A commit of failures leaves a request that is about to signal.
LEMMA CommitStep ==
    ASSUME IngestInv, NEW b \in Batch, CommitBatch(b)
    PROVE  IngestInv'
  <1> USE IngestAssumption DEF IngestInv
  <1>1. IngestTypeOK' /\ RequestInv'
    <2>1. events' \in [Trace -> Seq(Batch)]
      BY DEF CommitBatch, IngestTypeOK
    <2>2. QED
      BY <2>1 DEF CommitBatch, IngestTypeOK, RequestInv, jobVars
  <1>2. \A t \in Trace : /\ SpokenFor(t)' = SpokenFor(t) /\ SpokenFor(t) \in Nat
                         /\ \A k : OnTheWay(t, k) => OnTheWay(t, k)'
    BY CountTypes DEF CommitBatch, SpokenFor, Known, OnTheWay, jobVars, IngestTypeOK
  <1>3. b \in Bound \cap Failing => request'[b] = "hints"
    BY DEF CommitBatch, IngestTypeOK
  <1>4. ASSUME NEW t \in Trace, NEW k \in 1..Len(events'[t])
        PROVE  \/ k \in 1..Len(events[t]) /\ events'[t][k] = events[t][k]
               \/ events'[t][k] = b /\ t \in holds[b]
    <2>1. events[t] \in Seq(Batch) /\ events'[t] = IF t \in holds[b] THEN Append(events[t], b) ELSE events[t]
      BY DEF CommitBatch, IngestTypeOK
    <2>2. QED
      BY <1>4, <2>1
  <1>5. OwnerInv'
    <2>1. ASSUME NEW t \in Trace, NEW k \in 1..Len(events'[t]), events'[t][k] \in Bound PROVE t \in ofWorkflow'
      BY <1>4, <2>1 DEF CommitBatch, OwnerInv
    <2>2. QED
      BY <2>1 DEF OwnerInv
  <1>6. WayInv'
    <2>1. ASSUME NEW t \in ofWorkflow', NEW k \in SpokenFor(t)' + 1..Len(events'[t]), events'[t][k] \in Bound \cap Failing
          PROVE  OnTheWay(t, k)'
      <3>1. t \in Trace
        BY <1>1, <2>1 DEF IngestTypeOK
      <3>2. k \in 1..Len(events'[t]) /\ SpokenFor(t) + 1 <= k
        BY <1>1, <1>2, <2>1, <3>1, SMTT(60) DEF IngestTypeOK
      <3>3. CASE events'[t][k] = b
        BY <1>3, <2>1, <3>3 DEF OnTheWay
      <3>4. CASE k \in 1..Len(events[t]) /\ events'[t][k] = events[t][k]
        <4>1. t \in ofWorkflow
          BY <2>1, <3>1, <3>4 DEF OwnerInv
        <4>2. k \in SpokenFor(t) + 1..Len(events[t])
          BY <1>2, <3>1, <3>2, <3>4 DEF IngestTypeOK
        <4>3. OnTheWay(t, k)
          BY <2>1, <3>4, <4>1, <4>2 DEF WayInv
        <4>4. QED
          BY <1>2, <3>1, <4>3
      <3>5. QED
        BY <1>4, <3>1, <3>2, <3>3, <3>4
    <2>2. QED
      BY <2>1 DEF WayInv
  <1>7. QED
    BY <1>1, <1>5, <1>6

\* A step after which all that is stored is written off.
LEMMA WrittenOff ==
    ASSUME IngestInv, IngestTypeOK', UNCHANGED <<events, ofWorkflow>>, dropped' = Lengths
    PROVE  OwnerInv' /\ WayInv'
  <1>1. \A t \in Trace : SpokenFor(t)' >= Len(events[t]) /\ SpokenFor(t)' \in Nat /\ SpokenFor(t) \in Nat /\ Len(events[t]) \in Nat
    <2>1. \A t \in Trace : Known(t)' >= Len(events[t]) /\ Known(t)' \in Nat /\ Len(events[t]) \in Nat
      BY CountTypes DEF Known, Lengths, IngestInv, IngestTypeOK
    <2>2. \A t \in Trace : SpokenFor(t) \in Nat
      BY CountTypes DEF IngestInv
    <2>3. \A t \in Trace : SpokenFor(t)' >= Known(t)' /\ SpokenFor(t)' \in Nat
      <3>1. draining' = NoDrain \/ draining' \in [Trace -> Nat]
        BY DEF IngestTypeOK
      <3>2. CASE draining' = NoDrain
        BY <2>1, <3>2 DEF SpokenFor
      <3>3. CASE draining' \in [Trace -> Nat]
        BY <2>1, <3>3 DEF SpokenFor
      <3>4. QED
        BY <3>1, <3>2, <3>3
    <2>4. QED
      <3>1. SUFFICES ASSUME NEW t \in Trace
                     PROVE  SpokenFor(t)' >= Len(events[t]) /\ SpokenFor(t)' \in Nat /\ SpokenFor(t) \in Nat /\ Len(events[t]) \in Nat
        OBVIOUS
      <3>2. QED
        BY <2>1, <2>2, <2>3
  <1>2. OwnerInv'
    BY DEF IngestInv, OwnerInv
  <1>3. ASSUME NEW t \in ofWorkflow', NEW k \in SpokenFor(t)' + 1..Len(events[t])' PROVE FALSE
    BY <1>1, SMTT(60) DEF IngestInv, IngestTypeOK
  <1>4. QED
    BY <1>2, <1>3 DEF WayInv

\* An enqueue that writes the drained signal off.
LEMMA DrainedIsDropped ==
    ASSUME IngestTypeOK, draining # NoDrain, draining' = NoDrain, clustered' = clustered,
           dropped' = Later(dropped, draining)
    PROVE  \A t \in Trace : SpokenFor(t)' >= SpokenFor(t)
  <1>1. draining \in [Trace -> Nat] /\ dropped \in [Trace -> Nat] /\ clustered \in [Trace -> Nat]
    BY DEF IngestTypeOK
  <1>2. SUFFICES ASSUME NEW t \in Trace PROVE SpokenFor(t)' >= SpokenFor(t)
    OBVIOUS
  <1>3. SpokenFor(t)' = Known(t)'
    BY DEF SpokenFor
  <1>4. dropped'[t] = (IF dropped[t] > draining[t] THEN dropped[t] ELSE draining[t])
    BY <1>1 DEF Later
  <1>5. clustered[t] \in Nat /\ dropped[t] \in Nat /\ draining[t] \in Nat
    BY <1>1
  <1>6. QED
    BY <1>3, <1>4, <1>5 DEF SpokenFor, Known

\* The steps of the trigger keep the invariant.
LEMMA TriggerStep ==
    ASSUME IngestInv, Poll \/ Drain \/ Enqueue \/ EnqueueFails
    PROVE  IngestInv'
  <1> USE IngestAssumption DEF IngestInv
  <1>1. CASE Poll
    <2>1. IngestTypeOK' /\ RequestInv' /\ pending' # Quiet
      BY <1>1 DEF Poll, IngestTypeOK, RequestInv, dbVars, jobVars, reqVars, Quiet
    <2>2. QED
      BY <1>1, <2>1, QuietIngestStep DEF Poll, dbVars, jobVars, reqVars
  <1>2. CASE Drain
    <2>1. IngestTypeOK' /\ RequestInv'
      BY <1>2, CountTypes DEF Drain, IngestTypeOK, RequestInv, dbVars, jobVars, reqVars, Quiet
    <2>2. \A t \in Trace : SpokenFor(t)' >= Len(events[t]) /\ SpokenFor(t)' \in Nat /\ SpokenFor(t) \in Nat /\ Len(events[t]) \in Nat
      <3>1. \A t \in Trace : draining'[t] = Len(events[t]) /\ draining' # NoDrain
        <4>1. SUFFICES ASSUME NEW t \in Trace PROVE draining'[t] = Len(events[t]) /\ draining' # NoDrain
          OBVIOUS
        <4>2. draining' = [u \in Trace |-> Len(events[u])]
          BY <1>2 DEF Drain, Lengths
        <4>3. CASE t \in DOMAIN NoDrain
          BY <4>3 DEF NoDrain
        <4>4. CASE t \notin DOMAIN NoDrain
          BY <4>2, <4>4
        <4>5. QED
          BY <4>2, <4>3, <4>4
      <3>2. \A t \in Trace : Known(t)' = Known(t)
        BY <1>2 DEF Drain, Known, jobVars
      <3>3. QED
        BY <3>1, <3>2, CountTypes DEF SpokenFor
    <2>3. OwnerInv'
      BY <1>2 DEF Drain, OwnerInv, dbVars
    <2>4. ASSUME NEW t \in ofWorkflow', NEW k \in SpokenFor(t)' + 1..Len(events[t])' PROVE FALSE
      BY <1>2, <2>2 DEF Drain, IngestTypeOK, dbVars
    <2>5. WayInv'
      BY <2>4 DEF WayInv
    <2>6. QED
      BY <2>1, <2>3, <2>5
  <1>3. CASE Enqueue
    <2>1. draining \in [Trace -> Nat] /\ Later(dropped, draining) \in [Trace -> Nat]
      BY <1>3, LaterTypes DEF Enqueue, IngestTypeOK
    <2>2. IngestTypeOK' /\ RequestInv'
      BY <1>3, <2>1 DEF Enqueue, AfterEnqueue, IngestTypeOK, RequestInv, dbVars, jobVars, reqVars
    <2>3. CASE job = "read"
      <3>1. \A t \in Trace : SpokenFor(t)' >= SpokenFor(t)
        BY <1>3, <2>3, DrainedIsDropped DEF Enqueue
      <3>2. \A t, k : OnTheWay(t, k) => OnTheWay(t, k)'
        BY <1>3, <2>3 DEF Enqueue, AfterEnqueue, OnTheWay, reqVars
      <3>3. QED
        BY <1>3, <2>2, <3>1, <3>2, WayKept DEF Enqueue, dbVars
    <2>4. CASE job # "read"
      <3>1. job' \in {"queued", "running"}
        BY <1>3, <2>4 DEF Enqueue, IngestTypeOK
      <3>2. \A t, k : OnTheWay(t, k)'
        BY <3>1 DEF OnTheWay
      <3>3. OwnerInv' /\ WayInv'
        BY <1>3, <3>2 DEF Enqueue, dbVars, OwnerInv, WayInv
      <3>4. QED
        BY <2>2, <3>3
    <2>5. QED
      BY <2>3, <2>4
  <1>4. CASE EnqueueFails
    <2>1. draining \in [Trace -> Nat] /\ Later(dropped, draining) \in [Trace -> Nat]
      BY <1>4, LaterTypes DEF EnqueueFails, IngestTypeOK
    <2>2. IngestTypeOK' /\ RequestInv'
      BY <1>4, <2>1 DEF EnqueueFails, IngestTypeOK, RequestInv, dbVars, jobVars, reqVars
    <2>3. \A t \in Trace : SpokenFor(t)' >= SpokenFor(t)
      BY <1>4, DrainedIsDropped DEF EnqueueFails, jobVars
    <2>4. \A t, k : OnTheWay(t, k) => OnTheWay(t, k)'
      BY <1>4 DEF EnqueueFails, OnTheWay, reqVars, jobVars
    <2>5. QED
      BY <1>4, <2>2, <2>3, <2>4, WayKept DEF EnqueueFails, dbVars
  <1>5. QED
    BY <1>1, <1>2, <1>3, <1>4

\* The steps of the job and the restart keep the invariant.
LEMMA JobStep ==
    ASSUME IngestInv, Claim \/ ReadTraces \/ InsertClusters \/ RestartKernel \/ \E again \in BOOLEAN : JobFails(again)
    PROVE  IngestInv'
  <1> USE IngestAssumption DEF IngestInv
  <1>1. CASE Claim
    <2>1. IngestTypeOK' /\ RequestInv'
      BY <1>1 DEF Claim, IngestTypeOK, RequestInv, dbVars, reqVars
    <2>2. \A t \in Trace : SpokenFor(t)' >= SpokenFor(t)
      BY <1>1, CountTypes DEF Claim, SpokenFor, Known
    <2>3. \A t, k : OnTheWay(t, k) => OnTheWay(t, k)'
      BY <1>1 DEF Claim, OnTheWay, reqVars
    <2>4. QED
      BY <1>1, <2>1, <2>2, <2>3, WayKept DEF Claim, dbVars
  <1>2. CASE ReadTraces
    <2>1. IngestTypeOK' /\ RequestInv'
      BY <1>2 DEF ReadTraces, IngestTypeOK, RequestInv, dbVars, reqVars
    <2>2. \A t \in Trace : SpokenFor(t)' = SpokenFor(t) /\ SpokenFor(t) \in Nat
      BY <1>2, CountTypes DEF ReadTraces, SpokenFor, Known
    <2>3. ASSUME NEW t \in ofWorkflow, NEW k \in 1..Len(events[t]) PROVE OnTheWay(t, k)'
      BY <1>2, <2>3 DEF ReadTraces, OnTheWay, IngestTypeOK
    <2>4. OwnerInv' /\ WayInv'
      <3>1. UNCHANGED <<events, ofWorkflow>>
        BY <1>2 DEF ReadTraces, dbVars
      <3>2. ASSUME NEW t \in ofWorkflow, NEW k \in SpokenFor(t)' + 1..Len(events[t]) PROVE OnTheWay(t, k)'
        BY <2>2, <2>3, <3>2 DEF IngestTypeOK
      <3>3. QED
        BY <3>1, <3>2 DEF OwnerInv, WayInv
    <2>5. QED
      BY <2>1, <2>4
  <1>3. CASE InsertClusters
    <2>1. IngestTypeOK' /\ RequestInv'
      BY <1>3, CountTypes, LaterTypes DEF InsertClusters, IngestTypeOK, RequestInv, dbVars, reqVars
    <2>2. \A t \in Trace : SpokenFor(t)' >= SpokenFor(t) /\ SpokenFor(t)' >= reading[t] /\ SpokenFor(t)' \in Nat /\ reading[t] \in Nat
      <3>1. SUFFICES ASSUME NEW t \in Trace
                     PROVE  SpokenFor(t)' >= SpokenFor(t) /\ SpokenFor(t)' >= reading[t] /\ SpokenFor(t)' \in Nat /\ reading[t] \in Nat
        OBVIOUS
      <3>2. reading[t] \in Nat /\ clustered[t] \in Nat /\ dropped[t] \in Nat
            /\ (draining # NoDrain => draining[t] \in Nat)
        BY DEF IngestTypeOK
      <3>3. clustered'[t] = (IF clustered[t] > reading[t] THEN clustered[t] ELSE reading[t])
        BY <1>3 DEF InsertClusters, Later
      <3>4. Known(t)' \in Nat /\ Known(t)' >= Known(t) /\ Known(t)' >= reading[t] /\ Known(t) \in Nat
        BY <1>3, <3>2, <3>3 DEF InsertClusters, Known
      <3>5. QED
        BY <1>3, <3>2, <3>4 DEF InsertClusters, SpokenFor
    <2>3. ASSUME NEW t \in Trace, NEW k \in SpokenFor(t)' + 1..Len(events[t]), OnTheWay(t, k) PROVE OnTheWay(t, k)'
      <3>1. ~(job = "read" /\ reading[t] >= k)
        BY <2>2, <2>3 DEF IngestTypeOK
      <3>2. QED
        BY <1>3, <2>3, <3>1 DEF InsertClusters, OnTheWay, reqVars
    <2>4. QED
      BY <1>3, <2>1, <2>2, <2>3, WayKept DEF InsertClusters, dbVars
  <1>4. CASE RestartKernel
    <2>1. IngestTypeOK' /\ RequestInv'
      BY <1>4, CountTypes DEF RestartKernel, IngestTypeOK, RequestInv, dbVars, Quiet
    <2>2. QED
      BY <1>4, <2>1, WrittenOff DEF RestartKernel, dbVars
  <1>5. ASSUME NEW again \in BOOLEAN, JobFails(again) PROVE IngestInv'
    <2>1. IngestTypeOK' /\ RequestInv'
      <3>1. dropped' \in [Trace -> Nat] /\ reading' \in [Trace -> Nat]
        BY <1>5, CountTypes DEF JobFails, IngestTypeOK
      <3>2. job' \in {"none", "queued", "running", "read"} /\ mishaps' \in 0..MaxMishaps
        BY <1>5 DEF JobFails, IngestTypeOK
      <3>3. QED
        BY <1>5, <3>1, <3>2 DEF JobFails, IngestTypeOK, RequestInv, dbVars, reqVars
    <2>2. CASE again
      <3>1. \A t \in Trace : SpokenFor(t)' >= SpokenFor(t)
        BY <1>5, <2>2, CountTypes DEF JobFails, SpokenFor, Known
      <3>2. \A t, k : OnTheWay(t, k)'
        BY <1>5, <2>2 DEF JobFails, OnTheWay
      <3>3. QED
        BY <1>5, <2>1, <3>1, <3>2, WayKept DEF JobFails, dbVars
    <2>3. CASE ~again
      BY <1>5, <2>1, <2>3, WrittenOff DEF JobFails, dbVars
    <2>4. QED
      BY <2>2, <2>3
  <1>6. QED
    BY <1>1, <1>2, <1>3, <1>4, <1>5

\* The hints raise: what is stored is written off.
LEMMA HintsStep ==
    ASSUME IngestInv, NEW b \in Batch, HintsFail(b)
    PROVE  IngestInv'
  <1>1. IngestTypeOK' /\ RequestInv'
    <2>1. dropped' \in [Trace -> Nat]
      BY CountTypes DEF HintsFail, IngestInv
    <2>2. mishaps' \in 0..MaxMishaps
      BY IngestAssumption DEF HintsFail, IngestInv, IngestTypeOK
    <2>3. request' \in [Batch -> {"new", "open", "hints", "answered", "failed"}]
      BY DEF HintsFail, IngestInv, IngestTypeOK
    <2>4. QED
      BY <2>1, <2>2, <2>3 DEF HintsFail, IngestInv, IngestTypeOK, RequestInv, dbVars, jobVars
  <1>2. QED
    BY <1>1, WrittenOff DEF HintsFail, IngestInv, dbVars

\* The invariant holds in every reachable state.
LEMMA IngestInvariance == IngestSpec => []IngestInv
  <1>1. IngestInit => IngestInv
    BY IngestInvInit
  <1>2. IngestInv /\ [IngestNext]_ingestVars => IngestInv'
    <2> SUFFICES ASSUME IngestInv, [IngestNext]_ingestVars PROVE IngestInv'
      OBVIOUS
    <2>1. CASE IngestNext
      BY <2>1, RequestStep, CommitStep, HintsStep, TriggerStep, JobStep DEF IngestNext
    <2>2. CASE UNCHANGED ingestVars
      <3>1. IngestTypeOK' /\ RequestInv'
        BY <2>2 DEF ingestVars, IngestInv, IngestTypeOK, RequestInv
      <3>2. QED
        BY <2>2, <3>1, QuietIngestStep DEF ingestVars
    <2>3. QED
      BY <2>1, <2>2
  <1>3. QED
    BY <1>1, <1>2, PTL DEF IngestSpec

\* Every reachable state has the declared types.
THEOREM IngestTypeCorrect == IngestSpec => []IngestTypeOK
  BY IngestInvariance, PTL DEF IngestInv

\* Every failure of a trace of the workflow is covered by a clustering pass, is
\* on its way to one, or was dropped where the code drops it.
THEOREM FailuresAreSeen == IngestSpec => []FailuresReachAPass
  <1>1. IngestInv => FailuresReachAPass
    <2> SUFFICES ASSUME IngestInv, NEW t \in ofWorkflow, NEW k \in Known(t) + 1..Len(events[t]),
                        events[t][k] \in Bound \cap Failing, draining = NoDrain
                 PROVE  OnTheWay(t, k)
      BY DEF FailuresReachAPass, OnTheWay
    <2>1. SpokenFor(t) = Known(t)
      BY DEF SpokenFor
    <2>2. QED
      BY <2>1 DEF IngestInv, WayInv
  <1>2. QED
    BY <1>1, IngestInvariance, PTL

-----------------------------------------------------------------------------
(*****************************************************************************)
(* Triggers, the scheduler and what it fires.                                *)
(*****************************************************************************)

Acting == sched \in {"act", "record"}

\* Times lie in the past, and a tick at work has one and something to work on.
Times ==
    /\ tickAt <= clock /\ lastReload <= clock /\ lastPrune <= clock
    /\ \A t \in Trigger : since[t] <= clock
    /\ sched # "sleep" => tickAt \in Nat
    /\ Acting => todo # <<>>

\* What a trigger has acted on is behind it: a cron time before its next one or
\* of this very tick, a rise before the last fall, a message it has read, an
\* event of an earlier hour or one it remembers.
CronBehind(t, k) ==
    /\ k * CronEvery <= tickAt
    /\ (k + 1) * CronEvery <= nextAt[t] \/ (Acting /\ t = Head(todo) /\ k = tickAt \div CronEvery)
Behind(t, k) ==
    /\ kind[t] # "webhook"
    /\ kind[t] = "cron" => CronBehind(t, k)
    /\ kind[t] = "threshold" => k <= falls[t] /\ (k = falls[t] => wasMet[t])
    /\ kind[t] = "slack" => k <= cursor[t]
    /\ kind[t] = "email" => k \in handled[t]
    /\ kind[t] = "calendar" => k <= lastPrune /\ (k = lastPrune => t \in eventFired)
ActedInv == \A i \in DOMAIN acted : Behind(acted[i][1], acted[i][2])

\* What is loaded was on when it was read, and what a tick visits was on not
\* long ago.
LoadedInv ==
    /\ ~Binds => loaded = <<>>
    /\ \A i \in DOMAIN loaded : row[loaded[i]] = "on" \/ since[loaded[i]] >= lastReload
    /\ sched = "visit" \/ Acting =>
          \A i \in DOMAIN todo : row[todo[i]] = "on" \/ dbLost \/ tickAt - since[todo[i]] < ReloadEvery

TrigInv == TrigTypeOK /\ Times /\ ActedInv /\ LoadedInv /\ NothingFiresTwice

-----------------------------------------------------------------------------
\* Elements of sequences, for every type and sequence.
LEMMA SeqElements ==
    \A T : \A q \in Seq(T) : DOMAIN q = 1..Len(q) /\ Len(q) \in Nat /\ \A i \in 1..Len(q) : q[i] \in T
  OBVIOUS

\* A cron period lies between two multiples.
LEMMA Periods ==
    ASSUME NEW T \in Nat
    PROVE  /\ T \div CronEvery \in Nat /\ (T \div CronEvery) * CronEvery <= T
           /\ T < (T \div CronEvery + 1) * CronEvery
  <1>1. PICK C \in Nat : C = CronEvery /\ C # 0
    BY TriggerAssumption
  <1>2. T \div C \in Nat /\ (T \div C) * C <= T /\ T < (T \div C + 1) * C
    BY <1>1
  <1>3. QED
    BY <1>1, <1>2

\* Multiples are ordered as their factors.
LEMMA Multiples ==
    \A a, b \in Nat : /\ a * CronEvery < b * CronEvery => a < b
                      /\ a <= b => a * CronEvery <= b * CronEvery
                      /\ a * CronEvery \in Nat
  <1>1. PICK C \in Nat : C = CronEvery
    BY TriggerAssumption
  <1>2. \A a, b \in Nat : b <= a => b * C <= a * C
    BY <1>1
  <1>3. \A a, b \in Nat : a * C \in Nat /\ b * C \in Nat
    BY <1>1
  <1>4. \A a, b \in Nat : a * C < b * C => a < b
    BY <1>2, <1>3
  <1>5. QED
    BY <1>1, <1>2, <1>3, <1>4

\* The greatest of some numbers up to n.
LEMMA GreatestOf ==
    ASSUME NEW n \in Nat, NEW S \in SUBSET (1..n), S # {}
    PROVE  Max(S) \in S /\ \A w \in S : w <= Max(S)
  <1> DEFINE T == {n - x : x \in S}
  <1>1. T \subseteq Nat /\ T # {}
    <2>1. \A x \in S : x \in 1..n
      OBVIOUS
    <2>2. \A x \in 1..n : n - x \in Nat
      OBVIOUS
    <2>3. \A x \in S : n - x \in Nat
      BY <2>1, <2>2
    <2>4. QED
      BY <2>3
  <1>2. PICK d \in T : \A e \in T : ~(<<e, d>> \in OpToRel(<, Nat))
    <2> HIDE DEF T
    <2> QED BY <1>1, NatLessThanWellFounded, WFMin
  <1>3. PICK y \in S : d = n - y
    OBVIOUS
  <1>4. \A x \in S : x <= y
    <2>1. SUFFICES ASSUME NEW x \in S, x > y PROVE FALSE
      OBVIOUS
    <2>2. n - x \in T /\ n - x \in Nat /\ d \in Nat /\ n - x < d
      BY <1>3, <2>1
    <2>3. <<n - x, d>> \in OpToRel(<, Nat)
      BY <2>2 DEF OpToRel
    <2>4. QED
      BY <1>2, <2>2, <2>3
  <1>5. \A x \in S : y >= x
    BY <1>4
  <1>6. Max(S) \in S /\ \A w \in S : Max(S) >= w
    BY <1>5 DEF Max
  <1>7. QED
    BY <1>6

\* The definitions that are on can be listed.
LEMMA Listing ==
    ASSUME NEW S \in SUBSET Trigger
    PROVE  SetToSeq(S) \in Seq(Trigger) /\ \A i \in DOMAIN SetToSeq(S) : SetToSeq(S)[i] \in S
  <1>1. IsFiniteSet(S)
    BY TriggerAssumption, FS_Subset
  <1> DEFINE n == Cardinality(S)
  <1>2. n \in Nat /\ ExistsBijection(1..n, S)
    BY <1>1, FS_CardinalityType
  <1>3. \E f \in [1..n -> S] : IsInjective(f)
    BY <1>2 DEF ExistsBijection, Bijection, Injection, IsInjective
  <1>4. SetToSeq(S) \in [1..n -> S]
    BY <1>3 DEF SetToSeq
  <1> HIDE DEF n
  <1>5. QED
    BY <1>2, <1>4

\* A finite set whose elements have distinct keys can be listed by ascending key.
LEMMA SortedEnumeration ==
    ASSUME NEW S, IsFiniteSet(S), NEW key \in [S -> Int],
           \A x, y \in S : key[x] = key[y] => x = y
    PROVE  \E s \in [1..Cardinality(S) -> S] :
               \A i, j \in 1..Cardinality(S) : i < j => key[s[i]] < key[s[j]]
  <1> DEFINE n == Cardinality(S)
             Below(x) == {y \in S : key[y] <= key[x]}
             pos == [x \in S |-> Cardinality(Below(x))]
  <1>1. n \in Nat
    BY FS_CardinalityType
  <1>2. ASSUME NEW x \in S, NEW y \in S, key[x] < key[y]
        PROVE  Cardinality(Below(x)) < Cardinality(Below(y))
    <2>1. IsFiniteSet(Below(y)) /\ IsFiniteSet(Below(x))
      BY FS_Subset
    <2>2. key[x] \in Int /\ key[y] \in Int
      OBVIOUS
    <2>3. Below(x) \subseteq Below(y)
      <3>1. ASSUME NEW z \in S, key[z] <= key[x] PROVE key[z] <= key[y]
        <4>1. key[z] \in Int
          OBVIOUS
        <4>2. QED
          BY <1>2, <2>2, <3>1, <4>1
      <3>2. QED
        BY <3>1
    <2>4. y \in Below(y) /\ y \notin Below(x)
      BY <1>2, <2>2
    <2>5. /\ Cardinality(Below(x)) <= Cardinality(Below(y))
          /\ Cardinality(Below(y)) = Cardinality(Below(x)) => Below(y) = Below(x)
      BY <2>1, <2>3, FS_Subset
    <2>6. Cardinality(Below(x)) \in Nat /\ Cardinality(Below(y)) \in Nat
      BY <2>1, FS_CardinalityType
    <2>7. QED
      BY <2>4, <2>5, <2>6
  <1>3. \A x \in S : Cardinality(Below(x)) \in 1..n
    <2> TAKE x \in S
    <2>1. IsFiniteSet(Below(x)) /\ Cardinality(Below(x)) <= n
      BY FS_Subset
    <2>2. x \in Below(x)
      <3>1. key[x] \in Int
        OBVIOUS
      <3>2. QED
        BY <3>1
    <2>3. Cardinality(Below(x)) \in Nat /\ Cardinality(Below(x)) # 0
      BY <2>1, <2>2, FS_CardinalityType, FS_EmptySet
    <2>4. QED
      BY <1>1, <2>1, <2>3
  <1>4. pos \in Injection(S, 1..n)
    <2>1. ASSUME NEW x \in S, NEW y \in S, pos[x] = pos[y] PROVE x = y
      <3> HIDE DEF Below
      <3>1. key[x] \in Int /\ key[y] \in Int /\ Cardinality(Below(x)) = Cardinality(Below(y))
            /\ Cardinality(Below(x)) \in Int
        BY <1>3, <2>1
      <3>2. ~(key[x] < key[y]) /\ ~(key[y] < key[x])
        BY <1>2, <3>1
      <3>3. QED
        BY <3>1, <3>2
    <2>2. pos \in [S -> 1..n]
      <3> HIDE DEF Below
      <3> QED BY <1>3
    <2>3. QED
      <3> HIDE DEF pos
      <3> QED BY <2>1, <2>2 DEF Injection, IsInjective
  <1>5. pos \in Surjection(S, 1..n)
    <2>1. IsFiniteSet(1..n) /\ Cardinality(1..n) = n
      BY <1>1, FS_Interval
    <2> HIDE DEF pos
    <2>2. QED
      BY <1>4, <2>1, FS_Injection
  <1>6. \A i \in 1..n : \E x \in S : pos[x] = i
    <2> HIDE DEF pos
    <2> QED BY <1>5 DEF Surjection
  <1> DEFINE s == [i \in 1..n |-> CHOOSE x \in S : pos[x] = i]
  <1>7. \A i \in 1..n : s[i] \in S /\ pos[s[i]] = i
    <2> HIDE DEF pos
    <2> QED BY <1>6
  <1>8. ASSUME NEW i \in 1..n, NEW j \in 1..n, i < j PROVE key[s[i]] < key[s[j]]
    <2>1. s[i] \in S /\ s[j] \in S /\ pos[s[i]] = i /\ pos[s[j]] = j
      BY <1>7
    <2> HIDE DEF s, Below
    <2>2. Cardinality(Below(s[i])) = i /\ Cardinality(Below(s[j])) = j
      BY <2>1
    <2>3. key[s[i]] \in Int /\ key[s[j]] \in Int
      BY <2>1
    <2>4. ~(key[s[j]] < key[s[i]])
      BY <1>1, <1>2, <1>8, <2>1, <2>2
    <2>5. key[s[i]] # key[s[j]]
      BY <1>1, <1>8, <2>1, <2>2
    <2>6. QED
      BY <2>3, <2>4, <2>5
  <1>9. s \in [1..n -> S]
    <2> HIDE DEF pos
    <2> QED BY <1>7
  <1>10. QED
    <2> HIDE DEF s
    <2> QED BY <1>8, <1>9

\* Messages in their order.
LEMMA OrderedKeys ==
    ASSUME NEW m \in Nat, NEW S \in SUBSET (1..m)
    PROVE  /\ Ordered(S) \in Seq(Nat) /\ (\A i \in DOMAIN Ordered(S) : Ordered(S)[i] \in S)
           /\ \A i, j \in DOMAIN Ordered(S) : Ordered(S)[i] = Ordered(S)[j] => i = j
  <1>1. IsFiniteSet(1..m)
    BY FS_Interval
  <1>2. IsFiniteSet(S) /\ S \subseteq Nat
    <2>1. \A x \in S : x \in 1..m
      OBVIOUS
    <2>2. \A x \in 1..m : x \in Nat
      OBVIOUS
    <2>3. QED
      BY <1>1, <2>1, <2>2, FS_Subset
  <1> DEFINE n == Cardinality(S)
             key == [x \in S |-> x]
  <1>3. n \in Nat
    BY <1>2, FS_CardinalityType
  <1>4. key \in [S -> Int] /\ \A x, y \in S : key[x] = key[y] => x = y
    BY <1>2
  <1>5. PICK s \in [1..n -> S] : \A i, j \in 1..n : i < j => key[s[i]] < key[s[j]]
    <2> HIDE DEF key
    <2> QED BY <1>2, <1>4, SortedEnumeration
  <1>6. \E q \in [1..n -> S] : \A i, j \in DOMAIN q : i < j => q[i] < q[j]
    <2>1. \A i, j \in DOMAIN s : i < j => s[i] < s[j]
      BY <1>5
    <2>2. QED
      BY <2>1
  <1> DEFINE o == Ordered(S)
  <1>7. o \in [1..n -> S] /\ \A i, j \in DOMAIN o : i < j => o[i] < o[j]
    BY <1>6 DEF Ordered
  <1> HIDE DEF o, n
  <1>8. o \in Seq(Nat) /\ DOMAIN o = 1..n /\ \A i \in 1..n : o[i] \in S /\ o[i] \in Nat
    <2>1. \A i \in 1..n : o[i] \in S /\ o[i] \in Nat
      BY <1>2, <1>7
    <2>2. o \in [1..n -> Nat]
      BY <1>7, <2>1
    <2>3. QED
      BY <1>3, <2>1, <2>2
  <1>9. ASSUME NEW i \in 1..n, NEW j \in 1..n, o[i] = o[j] PROVE i = j
    <2>1. ~(i < j) /\ ~(j < i)
      BY <1>7, <1>8, <1>9
    <2>2. QED
      BY <2>1
  <1>10. QED
    BY <1>8, <1>9 DEF o

-----------------------------------------------------------------------------
\* The types, apart.
LEMMA TrigTypes ==
    ASSUME TrigTypeOK
    PROVE  /\ clock \in Nat /\ tickAt \in Int /\ lastReload \in Int /\ lastPrune \in Nat /\ wakeAt \in Nat /\ inbox \in Nat
           /\ inbox <= MaxItems /\ clock <= MaxTime
           /\ since \in [Trigger -> 0..MaxTime] /\ (\A t \in Trigger : since[t] \in Nat)
           /\ nextAt \in [Trigger -> Int] /\ falls \in [Trigger -> Nat] /\ wasMet \in [Trigger -> BOOLEAN]
           /\ cursor \in [Trigger -> 0..MaxItems] /\ handled \in [Trigger -> SUBSET Message] /\ eventFired \subseteq Trigger
           /\ todo \in Seq(Trigger) /\ loaded \in Seq(Trigger) /\ acted \in Seq(Trigger \X Nat)
           /\ row \in [Trigger -> {"on", "off", "none"}] /\ kind \in [Trigger -> Kinds]
  BY TriggerAssumption DEF TrigTypeOK

\* A sequence and another after it.
LEMMA Concatenation ==
    ASSUME NEW T, NEW p \in Seq(T), NEW q \in Seq(T), NEW n \in Nat, n = Len(p), NEW m \in Nat, m = Len(q)
    PROVE  /\ p \o q \in Seq(T) /\ DOMAIN (p \o q) = 1..n + m
           /\ \A i \in 1..n : (p \o q)[i] = p[i]
           /\ \A j \in 1..m : (p \o q)[n + j] = q[j]
  OBVIOUS

\* What has been acted on names a trigger and a number.
LEMMA ActedTypes ==
    ASSUME TrigTypeOK, NEW i \in DOMAIN acted
    PROVE  acted[i][1] \in Trigger /\ acted[i][2] \in Nat /\ acted[i] = <<acted[i][1], acted[i][2]>>
  <1>1. acted[i] \in Trigger \X Nat
    BY TrigTypes, SeqElements
  <1>2. QED
    BY <1>1

\* A visit that acts on new keys of its trigger.
LEMMA ActsOnNew ==
    ASSUME TrigInv, NEW t \in Trigger, NEW keys \in Seq(Nat),
           \A i, j \in DOMAIN keys : keys[i] = keys[j] => i = j,
           acted' = acted \o [i \in DOMAIN keys |-> <<t, keys[i]>>],
           \A i \in DOMAIN acted : acted[i][1] = t => \A j \in DOMAIN keys : acted[i][2] # keys[j],
           \A u \in Trigger, k \in Nat : Behind(u, k) => Behind(u, k)',
           \A j \in DOMAIN keys : Behind(t, keys[j])'
    PROVE  acted' \in Seq(Trigger \X Nat) /\ ActedInv' /\ NothingFiresTwice'
  <1> DEFINE new == [i \in DOMAIN keys |-> <<t, keys[i]>>]
  <1>1. PICK m \in Nat : m = Len(keys) /\ DOMAIN keys = 1..m /\ \A j \in 1..m : keys[j] \in Nat
    BY SeqElements
  <1>2. acted \in Seq(Trigger \X Nat)
    BY TrigTypes DEF TrigInv
  <1>3. PICK n \in Nat : n = Len(acted) /\ DOMAIN acted = 1..n
    BY <1>2
  <1>4. new \in Seq(Trigger \X Nat) /\ Len(new) = m /\ \A j \in 1..m : new[j] = <<t, keys[j]>>
    <2>1. \A j \in 1..m : <<t, keys[j]>> \in Trigger \X Nat
      BY <1>1
    <2>2. new = [j \in 1..m |-> <<t, keys[j]>>]
      BY <1>1
    <2> HIDE DEF new
    <2>3. new \in [1..m -> Trigger \X Nat] /\ \A j \in 1..m : new[j] = <<t, keys[j]>>
      BY <2>1, <2>2
    <2>4. QED
      BY <1>1, <2>3
  <1>5. acted' = acted \o new
    OBVIOUS
  <1> HIDE DEF new
  <1> DEFINE T == Trigger \X Nat
             all == acted'
  <1>6. /\ acted' \in Seq(Trigger \X Nat) /\ DOMAIN acted' = 1..n + m
        /\ \A i \in 1..n : acted'[i] = acted[i]
        /\ \A j \in 1..m : acted'[n + j] = new[j]
    <2>1. acted \in Seq(T) /\ new \in Seq(T) /\ all = acted \o new /\ n = Len(acted) /\ m = Len(new)
      BY <1>2, <1>3, <1>4, <1>5
    <2> HIDE DEF T, all
    <2>2. /\ acted \o new \in Seq(T) /\ DOMAIN (acted \o new) = 1..n + m
          /\ \A i \in 1..n : (acted \o new)[i] = acted[i]
          /\ \A j \in 1..m : (acted \o new)[n + j] = new[j]
      BY <2>1, Concatenation
    <2>3. /\ all \in Seq(T) /\ DOMAIN all = 1..n + m
          /\ \A i \in 1..n : all[i] = acted[i]
          /\ \A j \in 1..m : all[n + j] = new[j]
      BY Zenon, <2>1, <2>2
    <2>4. QED
      BY Zenon, <2>3 DEF T, all
  <1>7. \A i \in 1..n + m : i \in 1..n \/ \E j \in 1..m : i = n + j
    <2>1. \A i \in 1..n + m : i \notin 1..n => i - n \in 1..m /\ i = n + (i - n)
      OBVIOUS
    <2>2. QED
      BY <2>1
  <1>8. \A j \in 1..m : acted'[n + j][1] = t /\ acted'[n + j][2] = keys[j]
    <2>1. \A j \in 1..m : acted'[n + j] = <<t, keys[j]>>
      BY Zenon, <1>4, <1>6
    <2>2. \A w, x : w = <<t, x>> => w[1] = t /\ w[2] = x
      OBVIOUS
    <2>3. QED
      BY Zenon, <2>1, <2>2
  <1>9. ASSUME NEW i \in 1..n, NEW u \in Trigger, NEW k \in Nat, u = acted[i][1], k = acted[i][2]
        PROVE  Behind(u, k)'
    <2>1. acted[i][1] \in Trigger /\ acted[i][2] \in Nat /\ Behind(acted[i][1], acted[i][2])
      BY <1>3, ActedTypes DEF TrigInv, ActedInv
    <2>2. QED
      BY <1>9, <2>1
  <1>10. ActedInv'
    <2>1. ASSUME NEW i \in 1..n + m, NEW u, NEW k, u = acted'[i][1], k = acted'[i][2] PROVE Behind(u, k)'
      <3>1. CASE i \in 1..n
        <4>1. u = acted[i][1] /\ k = acted[i][2] /\ u \in Trigger /\ k \in Nat
          BY <1>3, <1>6, <2>1, <3>1, ActedTypes DEF TrigInv
        <4>2. QED
          BY <1>9, <3>1, <4>1
      <3>2. ASSUME NEW j \in 1..m, i = n + j PROVE Behind(u, k)'
        <4>1. u = t /\ k = keys[j] /\ j \in DOMAIN keys
          BY <1>1, <1>8, <2>1, <3>2
        <4>2. QED
          BY <4>1
      <3>3. QED
        BY <1>7, <3>1, <3>2
    <2>2. QED
      BY <1>6, <2>1 DEF ActedInv
  <1>11. NothingFiresTwice'
    <2>1. ASSUME NEW i \in 1..n + m, NEW j \in 1..n + m, acted'[i] = acted'[j] PROVE i = j
      <3>1. CASE i \in 1..n /\ j \in 1..n
        BY <1>3, <1>6, <2>1, <3>1, ZenonT(60) DEF TrigInv, NothingFiresTwice
      <3>2. ASSUME NEW x \in 1..n, NEW y \in 1..m, acted'[x] = acted'[n + y] PROVE FALSE
        <4>1. acted[x] = acted'[n + y] /\ x \in DOMAIN acted /\ y \in DOMAIN keys
          BY <1>1, <1>3, <1>6, <3>2
        <4>2. acted[x][1] = t /\ acted[x][2] = keys[y]
          BY <1>8, <4>1
        <4>3. QED
          BY <4>1, <4>2
      <3>3. ASSUME NEW x \in 1..m, NEW y \in 1..m, i = n + x, j = n + y PROVE i = j
        <4>1. keys[x] = keys[y]
          BY <1>8, <2>1, <3>3
        <4>2. x = y
          BY <1>1, <4>1
        <4>3. QED
          BY <3>3, <4>2
      <3>4. CASE i \in 1..n /\ j \notin 1..n
        BY <1>7, <2>1, <3>2, <3>4
      <3>5. CASE i \notin 1..n /\ j \in 1..n
        BY <1>7, <2>1, <3>2, <3>5
      <3>6. CASE i \notin 1..n /\ j \notin 1..n
        BY <1>7, <2>1, <3>3, <3>6
      <3>7. QED
        BY <3>1, <3>4, <3>5, <3>6
    <2>2. QED
      BY <1>6, <2>1 DEF NothingFiresTwice
  <1>12. QED
    BY <1>6, <1>10, <1>11

\* Nothing is acted on.
LEMMA ActsOnNothing ==
    ASSUME TrigInv, UNCHANGED acted, \A u \in Trigger, k \in Nat : Behind(u, k) => Behind(u, k)'
    PROVE  acted' \in Seq(Trigger \X Nat) /\ ActedInv' /\ NothingFiresTwice'
  <1>1. ASSUME NEW i \in DOMAIN acted, NEW u, NEW k, u = acted[i][1], k = acted[i][2] PROVE Behind(u, k)'
    <2>1. u \in Trigger /\ k \in Nat /\ Behind(u, k)
      BY <1>1, ActedTypes DEF TrigInv, ActedInv
    <2>2. QED
      BY <2>1
  <1>2. ActedInv'
    BY <1>1 DEF ActedInv
  <1>3. QED
    BY <1>2, TrigTypes DEF TrigInv, NothingFiresTwice

-----------------------------------------------------------------------------
\* A tick that visits has a trigger to visit, and the others after it.
LEMMA Visits ==
    ASSUME TrigTypeOK, todo # <<>>
    PROVE  /\ Current \in Trigger /\ 1 \in DOMAIN todo /\ Current = todo[1]
           /\ Tail(todo) \in Seq(Trigger)
           /\ \A i \in DOMAIN Tail(todo) : i + 1 \in DOMAIN todo /\ Tail(todo)[i] = todo[i + 1]
  <1>1. todo \in Seq(Trigger)
    BY TrigTypes
  <1>2. QED
    BY <1>1 DEF Current

\* Cron times stay behind while no cron trigger is acting and a next time that
\* is set stays.
LEMMA CronKept ==
    ASSUME TrigInv, ~Acting, tickAt' \in Int, tickAt' >= tickAt,
           \A u \in Trigger : kind[u] = "cron" => nextAt'[u] = nextAt[u] \/ nextAt[u] = Unset
    PROVE  \A u \in Trigger, k \in Nat : kind[u] = "cron" /\ CronBehind(u, k) => CronBehind(u, k)'
  <1>1. PICK C \in Nat : C = CronEvery /\ C # 0
    BY TriggerAssumption
  <1>2. ASSUME NEW u \in Trigger, NEW k \in Nat, kind[u] = "cron", CronBehind(u, k) PROVE CronBehind(u, k)'
    <2>1. (k + 1) * C <= nextAt[u] /\ k * C <= tickAt
      BY <1>1, <1>2 DEF CronBehind
    <2>2. (k + 1) * C \in Nat /\ k * C \in Nat
      BY <1>1
    <2>3. tickAt \in Int /\ nextAt[u] \in Int
      BY TrigTypes DEF TrigInv
    <2>4. nextAt[u] # Unset
      BY <2>1, <2>2 DEF Unset
    <2>5. (k + 1) * C <= nextAt'[u] /\ k * C <= tickAt'
      BY <1>2, <2>1, <2>2, <2>3, <2>4
    <2>6. QED
      BY <1>1, <2>5 DEF CronBehind
  <1>3. QED
    BY <1>2

\* What is behind stays so while the memory stays and the cron times do.
LEMMA MemoryKept ==
    ASSUME UNCHANGED <<kind, memoryVars>>,
           \A u \in Trigger, k \in Nat : kind[u] = "cron" /\ CronBehind(u, k) => CronBehind(u, k)'
    PROVE  \A u \in Trigger, k \in Nat : Behind(u, k) => Behind(u, k)'
  BY DEF Behind, memoryVars

\* What is loaded and what is left to visit keep their reasons while a tick
\* goes on.
LEMMA LoadedStays ==
    ASSUME TrigInv, sched = "visit" \/ Acting,
           UNCHANGED <<row, since, loaded, lastReload, dbLost, tickAt>>,
           todo' = todo \/ (todo # <<>> /\ todo' = Tail(todo))
    PROVE  LoadedInv'
  <1>1. \A i \in DOMAIN todo : row[todo[i]] = "on" \/ dbLost \/ tickAt - since[todo[i]] < ReloadEvery
    BY DEF TrigInv, LoadedInv
  <1>2. \A i \in DOMAIN todo' : row[todo'[i]] = "on" \/ dbLost \/ tickAt - since[todo'[i]] < ReloadEvery
    <2>1. CASE todo' = todo
      BY <1>1, <2>1
    <2>2. CASE todo # <<>> /\ todo' = Tail(todo)
      <3>1. \A i \in DOMAIN Tail(todo) : i + 1 \in DOMAIN todo /\ Tail(todo)[i] = todo[i + 1]
        BY <2>2, Visits DEF TrigInv
      <3>2. QED
        BY Zenon, <1>1, <2>2, <3>1
    <2>3. QED
      BY <2>1, <2>2
  <1>3. QED
    BY <1>2 DEF TrigInv, LoadedInv

\* The world moves: time, the metric, messages, the editing routes.
LEMMA WorldStep ==
    ASSUME TrigInv,
           \/ Elapse \/ MessageArrives
           \/ \E value \in {"none", "unmet", "met"} \ {metric} : MetricMoves(value)
           \/ \E t \in Trigger : Delete(t) \/ \E state \in {"on", "off"} : Switch(t, state)
    PROVE  TrigInv'
  <1>1. UNCHANGED <<kind, restarts>> /\ UNCHANGED <<sched, tickAt, wakeAt, todo, loaded, lastReload, dbLost, nextAt, acted>>
        /\ UNCHANGED memoryVars
    BY DEF Elapse, MessageArrives, Delete, MetricMoves, Switch, schedVars
  <1>2. /\ clock' \in 0..MaxTime /\ clock' >= clock /\ inbox' \in 0..MaxItems
        /\ metric' \in {"none", "unmet", "met"} /\ edits' \in 0..MaxEdits
    <2>1. clock \in 0..MaxTime /\ inbox \in 0..MaxItems /\ metric \in {"none", "unmet", "met"} /\ edits \in 0..MaxEdits
      BY DEF TrigInv, TrigTypeOK
    <2>2. MaxTime \in Nat /\ MaxItems \in Nat /\ MaxEdits \in Nat
      BY TriggerAssumption
    <2>3. /\ clock' = clock \/ (clock < MaxTime /\ clock' = clock + 1)
          /\ inbox' = inbox \/ (inbox < MaxItems /\ inbox' = inbox + 1)
          /\ edits' = edits \/ (edits < MaxEdits /\ edits' = edits + 1)
      BY DEF Elapse, MessageArrives, Delete, MetricMoves, Switch
    <2>4. metric' = metric \/ metric' \in {"none", "unmet", "met"}
      BY DEF Elapse, MessageArrives, Delete, MetricMoves, Switch
    <2>5. clock' \in 0..MaxTime /\ clock' >= clock
      BY <2>1, <2>2, <2>3
    <2>6. inbox' \in 0..MaxItems /\ edits' \in 0..MaxEdits
      BY <2>1, <2>2, <2>3
    <2>7. metric' \in {"none", "unmet", "met"}
      BY Zenon, <2>1, <2>4
    <2>8. QED
      BY <2>5, <2>6, <2>7
  <1>3. \/ row' = row /\ since' = since
        \/ \E t \in Trigger, s \in {"on", "off", "none"} :
              row' = [row EXCEPT ![t] = s] /\ since' = [since EXCEPT ![t] = clock]
    BY DEF Elapse, MessageArrives, Delete, MetricMoves, Switch, schedVars
  <1>4. /\ row' \in [Trigger -> {"on", "off", "none"}] /\ since' \in [Trigger -> 0..MaxTime]
        /\ \A u \in Trigger : (row'[u] = row[u] /\ since'[u] = since[u]) \/ since'[u] = clock
    BY <1>3 DEF TrigInv, TrigTypeOK
  <1>5. TrigTypeOK'
    BY <1>1, <1>2, <1>4 DEF TrigInv, TrigTypeOK, memoryVars
  <1>6. \A u \in Trigger : since[u] \in Nat /\ since'[u] \in Nat
    BY <1>4, TrigTypes DEF TrigInv
  <1>7. clock \in Nat /\ clock' \in Nat /\ tickAt \in Int /\ lastReload \in Int /\ lastPrune \in Nat /\ ReloadEvery \in Nat /\ ReloadEvery # 0
    BY <1>2, TrigTypes, TriggerAssumption DEF TrigInv
  <1>8. Times'
    <2>1. \A u \in Trigger : since'[u] <= clock'
      BY <1>2, <1>4, <1>6, <1>7 DEF TrigInv, Times
    <2>2. tickAt' <= clock' /\ lastReload' <= clock' /\ lastPrune' <= clock'
      BY <1>1, <1>2, <1>7 DEF TrigInv, Times, memoryVars
    <2>3. QED
      BY <1>1, <2>1, <2>2 DEF TrigInv, Times, Acting
  <1>9. \A u \in Trigger, k \in Nat : Behind(u, k) => Behind(u, k)'
    BY <1>1 DEF Behind, CronBehind, Acting, memoryVars
  <1>10. ActedInv' /\ NothingFiresTwice'
    BY <1>1, <1>9, ActsOnNothing
  <1>11. LoadedInv'
    <2>1. \A i \in DOMAIN loaded : row'[loaded[i]] = "on" \/ since'[loaded[i]] >= lastReload
      <3>1. ASSUME NEW i \in DOMAIN loaded PROVE row'[loaded[i]] = "on" \/ since'[loaded[i]] >= lastReload
        <4>1. loaded[i] \in Trigger
          BY TrigTypes, SeqElements DEF TrigInv
        <4>2. row[loaded[i]] = "on" \/ since[loaded[i]] >= lastReload
          BY DEF TrigInv, LoadedInv
        <4>3. clock >= lastReload
          BY <1>7 DEF TrigInv, Times
        <4>4. QED
          BY <1>4, <4>1, <4>2, <4>3
      <3>2. QED
        BY <3>1
    <2>2. ASSUME sched = "visit" \/ Acting, NEW i \in DOMAIN todo
          PROVE  row'[todo[i]] = "on" \/ dbLost \/ tickAt - since'[todo[i]] < ReloadEvery
      <3>1. todo[i] \in Trigger
        BY TrigTypes, SeqElements DEF TrigInv
      <3>2. row[todo[i]] = "on" \/ dbLost \/ tickAt - since[todo[i]] < ReloadEvery
        BY <2>2 DEF TrigInv, LoadedInv
      <3>3. tickAt - clock < ReloadEvery
        BY <1>7 DEF TrigInv, Times
      <3>4. QED
        BY <1>4, <3>1, <3>2, <3>3
    <2>3. QED
      BY <1>1, <2>1, <2>2 DEF TrigInv, LoadedInv, Acting
  <1>12. QED
    BY <1>5, <1>8, <1>10, <1>11 DEF TrigInv

\* The loop wakes.
LEMMA WakeStep ==
    ASSUME TrigInv, Wake
    PROVE  TrigInv'
  <1>1. /\ UNCHANGED worldVars /\ UNCHANGED memoryVars
        /\ UNCHANGED <<wakeAt, loaded, lastReload, dbLost, nextAt, acted>>
        /\ sched = "sleep" /\ tickAt' = clock
        /\ \/ ReloadDue /\ sched' = "reload" /\ todo' = todo
           \/ ~ReloadDue /\ sched' = "visit" /\ todo' = loaded
    BY DEF Wake
  <1>2. clock \in Nat /\ tickAt \in Int /\ lastReload \in Int /\ loaded \in Seq(Trigger) /\ todo \in Seq(Trigger)
    BY TrigTypes DEF TrigInv
  <1>3. ~Acting /\ ~Acting' /\ sched' \in {"reload", "visit"}
    BY <1>1 DEF Acting
  <1>4. TrigTypeOK'
    BY <1>1, <1>2 DEF TrigInv, TrigTypeOK, worldVars, memoryVars
  <1>5. Times'
    BY <1>1, <1>2, <1>3 DEF TrigInv, Times, worldVars, memoryVars
  <1>6. UNCHANGED kind /\ tickAt' \in Int /\ tickAt' >= tickAt
    BY <1>1, <1>2 DEF TrigInv, Times, worldVars
  <1>7. \A u \in Trigger, k \in Nat : Behind(u, k) => Behind(u, k)'
    BY <1>1, <1>3, <1>6, CronKept, MemoryKept
  <1>8. ActedInv' /\ NothingFiresTwice'
    BY <1>1, <1>7, ActsOnNothing
  <1>9. LoadedInv'
    <2>1. UNCHANGED <<row, since>>
      BY <1>1 DEF worldVars
    <2>2. ASSUME ~ReloadDue, NEW i \in DOMAIN loaded
          PROVE  row[loaded[i]] = "on" \/ dbLost \/ clock - since[loaded[i]] < ReloadEvery
      <3>1. loaded[i] \in Trigger /\ since[loaded[i]] \in Nat
        BY TrigTypes, SeqElements DEF TrigInv
      <3>2. row[loaded[i]] = "on" \/ since[loaded[i]] >= lastReload
        BY DEF TrigInv, LoadedInv
      <3>3. clock - lastReload < ReloadEvery /\ ReloadEvery \in Nat
        BY <1>2, <2>2, TriggerAssumption DEF ReloadDue
      <3>4. QED
        BY <1>2, <3>1, <3>2, <3>3
    <2>3. (sched' = "visit") => ~ReloadDue /\ todo' = loaded
      BY <1>1
    <2>4. QED
      BY <1>1, <1>3, <2>1, <2>2, <2>3 DEF TrigInv, LoadedInv
  <1>10. QED
    BY <1>4, <1>5, <1>8, <1>9 DEF TrigInv

\* The definitions are read, or cannot be.
LEMMA ReloadStep ==
    ASSUME TrigInv, Reload \/ \E lost \in BOOLEAN : ReloadFails(lost)
    PROVE  TrigInv'
  <1> DEFINE on == {t \in Trigger : row[t] = "on" /\ kind[t] # "webhook"}
  <1>1. /\ UNCHANGED worldVars /\ UNCHANGED memoryVars /\ UNCHANGED <<tickAt, wakeAt, nextAt, acted>>
        /\ sched = "reload" /\ sched' = "visit" /\ todo' = loaded' /\ dbLost' \in BOOLEAN
        /\ \/ Binds /\ loaded' = SetToSeq(on) /\ lastReload' = tickAt
           \/ (dbLost' \/ ~Binds) /\ loaded' = loaded /\ lastReload' = lastReload
    <2>1. CASE Reload
      BY <2>1 DEF Reload
    <2>2. ASSUME NEW lost \in BOOLEAN, ReloadFails(lost)
          PROVE  /\ UNCHANGED worldVars /\ UNCHANGED memoryVars /\ UNCHANGED <<tickAt, wakeAt, nextAt, acted>>
                 /\ sched = "reload" /\ sched' = "visit" /\ todo' = loaded' /\ dbLost' \in BOOLEAN
                 /\ (dbLost' \/ ~Binds) /\ loaded' = loaded /\ lastReload' = lastReload
      BY <2>2 DEF ReloadFails
    <2>3. QED
      BY <2>1, <2>2
  <1>2. /\ clock \in Nat /\ tickAt \in Nat /\ lastReload \in Int /\ loaded \in Seq(Trigger) /\ todo \in Seq(Trigger)
        /\ tickAt \in Int
    BY <1>1, TrigTypes DEF TrigInv, Times
  <1>3. SetToSeq(on) \in Seq(Trigger) /\ \A i \in DOMAIN SetToSeq(on) : row[SetToSeq(on)[i]] = "on"
    <2>1. SetToSeq(on) \in Seq(Trigger) /\ \A i \in DOMAIN SetToSeq(on) : SetToSeq(on)[i] \in on
      <3>1. on \in SUBSET Trigger
        OBVIOUS
      <3> HIDE DEF on
      <3>2. QED
        BY <3>1, Listing
    <2>2. QED
      BY <2>1
  <1> HIDE DEF on
  <1>4. ~Acting /\ ~Acting' /\ loaded' \in Seq(Trigger) /\ lastReload' \in Int
    BY <1>1, <1>2, <1>3 DEF Acting
  <1>5. TrigTypeOK'
    BY <1>1, <1>2, <1>4 DEF TrigInv, TrigTypeOK, worldVars, memoryVars
  <1>6. Times'
    BY <1>1, <1>2, <1>4 DEF TrigInv, Times, worldVars, memoryVars
  <1>7. UNCHANGED kind /\ tickAt' \in Int /\ tickAt' >= tickAt
    BY <1>1, <1>2 DEF worldVars
  <1>8. \A u \in Trigger, k \in Nat : Behind(u, k) => Behind(u, k)'
    BY <1>1, <1>4, <1>7, CronKept, MemoryKept
  <1>9. ActedInv' /\ NothingFiresTwice'
    BY <1>1, <1>8, ActsOnNothing
  <1>10. LoadedInv'
    <2>1. UNCHANGED <<row, since>>
      BY <1>1 DEF worldVars
    <2>2. CASE Binds /\ loaded' = SetToSeq(on)
      <3>1. \A i \in DOMAIN loaded' : row[loaded'[i]] = "on"
        BY Zenon, <1>3, <2>2
      <3>2. QED
        BY <1>1, <2>1, <2>2, <3>1 DEF LoadedInv
    <2>3. CASE (dbLost' \/ ~Binds) /\ loaded' = loaded /\ lastReload' = lastReload
      <3>1. ~Binds => \A i \in DOMAIN loaded' : FALSE
        BY <2>3 DEF TrigInv, LoadedInv
      <3>2. QED
        BY <1>1, <2>1, <2>3, <3>1 DEF TrigInv, LoadedInv
    <2>4. QED
      BY <1>1, <2>2, <2>3
  <1>11. QED
    BY <1>5, <1>6, <1>9, <1>10 DEF TrigInv

\* A visit that touches no memory and acts on nothing: the end of a tick, a poll
\* that is not due or fails, the end of an action that is not a cron trigger's.
LEMMA QuietStep ==
    ASSUME TrigInv, UNCHANGED worldVars, UNCHANGED memoryVars,
           UNCHANGED <<tickAt, loaded, lastReload, dbLost, acted>>,
           sched = "visit" \/ Acting, wakeAt' \in Nat,
           \/ todo' = todo /\ sched' = "sleep"
           \/ todo # <<>> /\ todo' = Tail(todo) /\ sched' = "visit"
           \/ todo' = todo /\ sched = "act" /\ sched' = "record" /\ nextAt' = nextAt,
           nextAt' \in [Trigger -> Int],
           \A u \in Trigger, k \in Nat : kind[u] = "cron" /\ CronBehind(u, k) => CronBehind(u, k)'
    PROVE  TrigInv'
  <1>1. tickAt \in Int /\ todo \in Seq(Trigger) /\ todo' \in Seq(Trigger)
    BY Visits, TrigTypes DEF TrigInv
  <1>2. TrigTypeOK'
    BY <1>1 DEF TrigInv, TrigTypeOK, worldVars, memoryVars
  <1>3. Times'
    BY DEF TrigInv, Times, Acting, worldVars, memoryVars
  <1>4. UNCHANGED <<kind, row, since>>
    BY DEF worldVars
  <1>5. \A u \in Trigger, k \in Nat : Behind(u, k) => Behind(u, k)'
    BY <1>4, MemoryKept
  <1>6. ActedInv' /\ NothingFiresTwice'
    BY <1>5, ActsOnNothing
  <1>7. LoadedInv'
    BY <1>4, LoadedStays
  <1>8. QED
    BY <1>2, <1>3, <1>6, <1>7 DEF TrigInv

\* The end of a tick, a poll that is not due, and one that fails.
LEMMA PassStep ==
    ASSUME TrigInv, EndTick \/ \E t \in Trigger : VisitEarly(t) \/ PollFails(t)
    PROVE  TrigInv'
  <1>1. CASE EndTick
    <2>1. /\ UNCHANGED worldVars /\ UNCHANGED memoryVars
          /\ UNCHANGED <<tickAt, loaded, lastReload, dbLost, acted, nextAt, todo>>
          /\ sched = "visit" /\ sched' = "sleep" /\ wakeAt' = clock + 1
      BY <1>1 DEF EndTick
    <2>2. wakeAt' \in Nat /\ nextAt \in [Trigger -> Int] /\ tickAt \in Int
      BY <2>1, TrigTypes DEF TrigInv
    <2>3. \A u \in Trigger, k \in Nat : kind[u] = "cron" /\ CronBehind(u, k) => CronBehind(u, k)'
      BY <2>1, <2>2, CronKept DEF Acting
    <2>4. QED
      BY <2>1, <2>2, <2>3, QuietStep
  <1>2. ASSUME NEW t \in Trigger, VisitEarly(t) \/ PollFails(t) PROVE TrigInv'
    <2>1. /\ UNCHANGED worldVars /\ UNCHANGED memoryVars
          /\ UNCHANGED <<tickAt, wakeAt, loaded, lastReload, dbLost, acted>>
          /\ sched = "visit" /\ sched' = "visit" /\ todo # <<>> /\ todo' = Tail(todo) /\ kind[t] # "cron"
          /\ nextAt' = nextAt \/ nextAt' = [nextAt EXCEPT ![t] = tickAt + PollEvery]
      BY <1>2 DEF VisitEarly, PollFails, Polls, Visiting, NextVisit
    <2>2. wakeAt \in Nat /\ nextAt \in [Trigger -> Int] /\ tickAt \in Int /\ PollEvery \in Nat
      BY <2>1, TrigTypes, TriggerAssumption DEF TrigInv
    <2>3. nextAt' \in [Trigger -> Int] /\ \A u \in Trigger : kind[u] = "cron" => nextAt'[u] = nextAt[u]
      BY <2>1, <2>2
    <2>4. \A u \in Trigger, k \in Nat : kind[u] = "cron" /\ CronBehind(u, k) => CronBehind(u, k)'
      BY <2>1, <2>2, <2>3, CronKept DEF Acting
    <2>5. QED
      BY <2>1, <2>2, <2>3, <2>4, QuietStep
  <1>3. QED
    BY <1>1, <1>2

\* The action is done.
LEMMA ActStep ==
    ASSUME TrigInv, Act
    PROVE  TrigInv'
  <1>1. /\ UNCHANGED worldVars /\ UNCHANGED memoryVars
        /\ UNCHANGED <<tickAt, wakeAt, loaded, lastReload, dbLost, acted, nextAt>>
        /\ sched = "act"
        /\ \/ kind[Current] # "cron" /\ todo' = Tail(todo) /\ sched' = "visit"
           \/ todo' = todo /\ sched' = "record"
    <2>1. CASE kind[Current] \in {"slack", "email"}
      BY <2>1 DEF Act, NextVisit
    <2>2. CASE kind[Current] \notin {"slack", "email"}
      BY <2>2 DEF Act
    <2>3. QED
      BY <2>1, <2>2
  <1>2. wakeAt \in Nat /\ nextAt \in [Trigger -> Int] /\ todo # <<>> /\ UNCHANGED kind
    BY <1>1, TrigTypes DEF TrigInv, Times, Acting, worldVars
  <1>3. \A u \in Trigger, k \in Nat : kind[u] = "cron" /\ CronBehind(u, k) => CronBehind(u, k)'
    BY <1>1 DEF CronBehind, Acting, Current
  <1>4. QED
    BY <1>1, <1>2, <1>3, QuietStep DEF Acting

\* The next cron time is a period ahead, or has come already.
LEMMA NextTimes ==
    ASSUME TrigInv, tickAt \in Nat
    PROVE  /\ NextCron \in Nat
           /\ tickAt \div CronEvery \in Nat /\ (tickAt \div CronEvery) * CronEvery <= tickAt
           /\ tickAt < (tickAt \div CronEvery + 1) * CronEvery
           /\ (tickAt \div CronEvery + 1) * CronEvery <= NextCron /\ tickAt < NextCron /\ NextCron \in Int
  <1>1. PICK m \in Nat : m = (tickAt \div CronEvery + 1) * CronEvery
    <2>1. PICK C \in Nat : C = CronEvery /\ C # 0
      BY TriggerAssumption
    <2>2. (tickAt \div C + 1) * C \in Nat
      BY <2>1
    <2>3. QED
      BY <2>1, <2>2
  <1>2. tickAt < m /\ clock \in Nat
    BY <1>1, Periods, TrigTypes DEF TrigInv
  <1>3. NextCron = IF m > clock THEN m ELSE clock
    BY <1>1 DEF NextCron, LatestOf
  <1>4. NextCron \in Nat /\ m <= NextCron /\ tickAt < NextCron
    BY <1>2, <1>3
  <1>5. QED
    BY <1>1, <1>4, Periods

\* A dispatch is recorded; a cron trigger gets its next time.
LEMMA RecordStep ==
    ASSUME TrigInv, Record
    PROVE  TrigInv'
  <1>1. /\ UNCHANGED worldVars /\ UNCHANGED memoryVars
        /\ UNCHANGED <<tickAt, wakeAt, loaded, lastReload, dbLost, acted>>
        /\ sched = "record" /\ sched' = "visit" /\ todo' = Tail(todo)
    BY DEF Record, NextVisit
  <1>2. \/ nextAt' = nextAt /\ kind[Current] # "cron"
        \/ nextAt' = [nextAt EXCEPT ![Current] = NextCron]
    BY DEF Record
  <1>3. tickAt \in Nat /\ wakeAt \in Nat /\ nextAt \in [Trigger -> Int] /\ todo # <<>> /\ UNCHANGED kind
    BY <1>1, TrigTypes DEF TrigInv, Times, Acting, worldVars
  <1>4. Current \in Trigger
    BY <1>3, Visits DEF TrigInv
  <1>5. NextCron \in Int /\ (tickAt \div CronEvery + 1) * CronEvery <= NextCron
    BY <1>3, NextTimes
  <1>6. nextAt' \in [Trigger -> Int]
    BY <1>2, <1>3, <1>4, <1>5
  <1>7. ASSUME NEW u \in Trigger, NEW k \in Nat, kind[u] = "cron", CronBehind(u, k) PROVE CronBehind(u, k)'
    <2>1. (k + 1) * CronEvery <= nextAt[u] \/ (u = Current /\ k = tickAt \div CronEvery)
      BY <1>7 DEF CronBehind, Current
    <2>2. PICK m \in Int : m = (k + 1) * CronEvery
      <3>1. CronEvery \in Nat
        BY TriggerAssumption
      <3>2. QED
        BY <3>1
    <2>3. (k + 1) * CronEvery <= nextAt'[u]
      <3>1. CASE u # Current
        BY <1>2, <1>3, <1>4, <2>1, <3>1
      <3>2. CASE u = Current /\ k = tickAt \div CronEvery
        <4>1. nextAt'[u] = NextCron
          BY <1>2, <1>3, <1>4, <1>7, <3>2
        <4>2. QED
          BY <1>5, <3>2, <4>1
      <3>3. CASE u = Current /\ (k + 1) * CronEvery <= nextAt[u]
        <4>1. nextAt'[u] = NextCron
          BY <1>2, <1>3, <1>4, <1>7, <3>3
        <4>2. PICK T \in Nat : T = tickAt \div CronEvery
          BY <1>3, NextTimes
        <4>3. k * CronEvery < (T + 1) * CronEvery
          <5>1. k * CronEvery <= tickAt /\ tickAt < (T + 1) * CronEvery
            BY <1>3, <1>7, <4>2, NextTimes DEF CronBehind
          <5>2. k * CronEvery \in Nat /\ (T + 1) * CronEvery \in Nat
            BY <4>2, Multiples
          <5>3. QED
            BY <1>3, <5>1, <5>2
        <4>4. k < T + 1
          BY <4>3, Multiples
        <4>5. (k + 1) * CronEvery <= (T + 1) * CronEvery
          BY <4>4, Multiples
        <4>6. (k + 1) * CronEvery \in Nat /\ (T + 1) * CronEvery \in Nat /\ (T + 1) * CronEvery <= NextCron
          BY <1>5, <4>2, Multiples
        <4>7. QED
          BY <1>5, <4>1, <4>5, <4>6
      <3>4. QED
        BY <2>1, <3>1, <3>2, <3>3
    <2>4. k * CronEvery <= tickAt
      BY <1>7 DEF CronBehind
    <2>5. QED
      BY <1>1, <2>3, <2>4 DEF CronBehind
  <1>8. QED
    BY <1>1, <1>3, <1>6, <1>7, QuietStep DEF Acting

\* What a visit may change.
VisitFrame ==
    /\ UNCHANGED worldVars /\ UNCHANGED <<tickAt, wakeAt, loaded, lastReload, dbLost>>
    /\ sched = "visit" /\ todo # <<>>
    /\ nextAt' \in [Trigger -> Int] /\ wasMet' \in [Trigger -> BOOLEAN] /\ falls' \in [Trigger -> Nat]
    /\ cursor' \in [Trigger -> 0..MaxItems] /\ handled' \in [Trigger -> SUBSET Message]
    /\ eventFired' \subseteq Trigger /\ lastPrune' \in Nat /\ lastPrune' <= clock
    /\ \A u \in Trigger, k \in Nat : Behind(u, k) => Behind(u, k)'

\* A visit that acts on nothing.
LEMMA IdleVisit ==
    ASSUME TrigInv, VisitFrame, NextVisit, UNCHANGED acted
    PROVE  TrigInv'
  <1>1. todo' \in Seq(Trigger) /\ todo' = Tail(todo) /\ sched' = "visit" /\ tickAt \in Nat
    BY Visits DEF TrigInv, VisitFrame, NextVisit, Times
  <1>2. TrigTypeOK'
    BY <1>1 DEF TrigInv, TrigTypeOK, VisitFrame, worldVars
  <1>3. Times'
    BY <1>1 DEF TrigInv, Times, Acting, VisitFrame, worldVars
  <1>4. ActedInv' /\ NothingFiresTwice'
    BY ActsOnNothing DEF VisitFrame
  <1>5. LoadedInv'
    BY <1>1, LoadedStays DEF VisitFrame, worldVars
  <1>6. QED
    BY <1>2, <1>3, <1>4, <1>5 DEF TrigInv

\* A visit that acts on new keys.
LEMMA ActingVisit ==
    ASSUME TrigInv, VisitFrame, NEW t \in Trigger, NEW keys \in Seq(Nat), Acts(t, keys),
           \A i, j \in DOMAIN keys : keys[i] = keys[j] => i = j,
           \A j \in DOMAIN keys : ~Behind(t, keys[j]),
           \A j \in DOMAIN keys : Behind(t, keys[j])'
    PROVE  TrigInv'
  <1>1. todo' \in Seq(Trigger) /\ todo' = todo /\ sched' = "act" /\ tickAt \in Nat /\ todo # <<>>
    BY TrigTypes DEF TrigInv, VisitFrame, Acts, Times
  <1>2. acted' \in Seq(Trigger \X Nat) /\ ActedInv' /\ NothingFiresTwice'
    <2>1. \A u \in Trigger, k \in Nat : Behind(u, k) => Behind(u, k)'
      BY DEF VisitFrame
    <2>2. ASSUME NEW i \in DOMAIN acted, acted[i][1] = t, NEW j \in DOMAIN keys PROVE acted[i][2] # keys[j]
      <3>1. Behind(acted[i][1], acted[i][2])
        BY DEF TrigInv, ActedInv
      <3>2. QED
        BY <2>2, <3>1
    <2>3. acted' = acted \o [i \in DOMAIN keys |-> <<t, keys[i]>>]
      BY DEF Acts
    <2>4. QED
      BY <2>1, <2>2, <2>3, ActsOnNew
  <1>3. TrigTypeOK'
    BY <1>1, <1>2 DEF TrigInv, TrigTypeOK, VisitFrame, worldVars
  <1>4. Times'
    BY <1>1 DEF TrigInv, Times, Acting, VisitFrame, worldVars
  <1>5. LoadedInv'
    BY <1>1, LoadedStays DEF VisitFrame, worldVars
  <1>6. QED
    BY <1>2, <1>3, <1>4, <1>5 DEF TrigInv

\* One key is a sequence of keys.
LEMMA OneKey ==
    ASSUME NEW k \in Nat
    PROVE  <<k>> \in Seq(Nat) /\ DOMAIN <<k>> = {1} /\ <<k>>[1] = k
  OBVIOUS

\* A visit that acts on one new key.
LEMMA ActingOnce ==
    ASSUME TrigInv, VisitFrame, NEW t \in Trigger, NEW n \in Nat, Acts(t, <<n>>),
           ~Behind(t, n), Behind(t, n)'
    PROVE  TrigInv'
  <1> DEFINE keys == <<n>>
  <1>1. keys \in Seq(Nat) /\ DOMAIN keys = {1} /\ keys[1] = n /\ Acts(t, keys)
    BY OneKey
  <1> HIDE DEF keys
  <1>2. \A j \in DOMAIN keys : ~Behind(t, keys[j])
    BY <1>1
  <1>3. \A j \in DOMAIN keys : Behind(t, keys[j])'
    BY <1>1
  <1>4. \A i, j \in DOMAIN keys : keys[i] = keys[j] => i = j
    BY <1>1
  <1>5. QED
    BY <1>1, <1>2, <1>3, <1>4, ActingVisit

\* A cron trigger is visited.
LEMMA CronStep ==
    ASSUME TrigInv, NEW t \in Trigger, VisitCron(t)
    PROVE  TrigInv'
  <1> DEFINE next == IF nextAt[t] = Unset THEN NextCron ELSE nextAt[t]
             now == tickAt \div CronEvery
  <1>1. /\ UNCHANGED worldVars /\ UNCHANGED memoryVars /\ UNCHANGED <<tickAt, wakeAt, loaded, lastReload, dbLost>>
        /\ sched = "visit" /\ todo # <<>> /\ t = Head(todo) /\ kind[t] = "cron"
        /\ nextAt' = [nextAt EXCEPT ![t] = next]
        /\ IF tickAt < next THEN NextVisit /\ UNCHANGED acted ELSE Acts(t, <<now>>)
    BY DEF VisitCron, Visiting, Current
  <1>2. /\ nextAt \in [Trigger -> Int] /\ tickAt \in Nat /\ tickAt \in Int /\ UNCHANGED kind /\ ~Acting /\ now \in Nat
        /\ NextCron \in Int /\ lastPrune \in Nat /\ lastPrune <= clock
    BY <1>1, TrigTypes, NextTimes DEF TrigInv, Times, Acting, worldVars
  <1>3. nextAt' \in [Trigger -> Int] /\ \A u \in Trigger : nextAt'[u] = nextAt[u] \/ nextAt[u] = Unset
    BY <1>1, <1>2
  <1>4. \A u \in Trigger, k \in Nat : Behind(u, k) => Behind(u, k)'
    BY <1>1, <1>2, <1>3, CronKept, MemoryKept
  <1>5. VisitFrame
    BY <1>1, <1>2, <1>3, <1>4 DEF VisitFrame, TrigInv, TrigTypeOK, memoryVars
  <1>6. CASE tickAt < next
    BY <1>1, <1>5, <1>6, IdleVisit
  <1>7. CASE ~(tickAt < next)
    <2>1. nextAt[t] # Unset /\ nextAt[t] <= tickAt
      BY <1>2, <1>7, NextTimes
    <2>2. PICK n \in Nat : n = now
      BY <1>2
    <2>3. Acts(t, <<n>>) /\ sched' = "act" /\ todo' = todo
      BY <1>1, <1>7, <2>2 DEF Acts
    <2>4. n = tickAt \div CronEvery
      BY <2>2
    <2> HIDE DEF now, next
    <2>5. ~Behind(t, n)
      <3>1. SUFFICES ASSUME Behind(t, n) PROVE FALSE
        OBVIOUS
      <3>2. (n + 1) * CronEvery <= nextAt[t]
        BY <1>1, <1>2, <3>1 DEF Behind, CronBehind
      <3>3. tickAt < (n + 1) * CronEvery /\ (n + 1) * CronEvery \in Nat
        BY <1>2, <2>4, NextTimes, Multiples
      <3>4. QED
        BY <1>2, <2>1, <3>2, <3>3
    <2>6. Behind(t, n)'
      <3>1. CronBehind(t, n)'
        <4>1. n * CronEvery <= tickAt
          BY <1>2, <2>4, NextTimes
        <4>2. Acting' /\ t = Head(todo') /\ tickAt' = tickAt
          BY <1>1, <2>3 DEF Acting
        <4>3. n = tickAt' \div CronEvery
          BY <1>1, <2>4
        <4>4. QED
          BY <4>1, <4>2, <4>3 DEF CronBehind
      <3>2. QED
        BY <1>1, <1>2, <3>1 DEF Behind
    <2>7. QED
      BY <1>5, <2>3, <2>5, <2>6, ActingOnce
  <1>8. QED
    BY <1>6, <1>7

\* A poll that is due.
LEMMA PollFrame ==
    ASSUME TrigInv, NEW t \in Trigger, NEW k, k # "cron", Polls(t, k)
    PROVE  /\ UNCHANGED worldVars /\ UNCHANGED <<tickAt, wakeAt, loaded, lastReload, dbLost, kind>>
           /\ sched = "visit" /\ todo # <<>> /\ kind[t] = k /\ nextAt' \in [Trigger -> Int]
           /\ \A u \in Trigger, n \in Nat : kind[u] = "cron" /\ CronBehind(u, n) => CronBehind(u, n)'
  <1>1. /\ UNCHANGED worldVars /\ UNCHANGED <<tickAt, wakeAt, loaded, lastReload, dbLost>>
        /\ sched = "visit" /\ todo # <<>> /\ kind[t] = k /\ nextAt' = [nextAt EXCEPT ![t] = tickAt + PollEvery]
    BY DEF Polls, Visiting
  <1>2. nextAt \in [Trigger -> Int] /\ tickAt \in Int /\ PollEvery \in Nat
    BY TrigTypes, TriggerAssumption DEF TrigInv
  <1>3. nextAt' \in [Trigger -> Int] /\ \A u \in Trigger : kind[u] = "cron" => nextAt'[u] = nextAt[u]
    BY <1>1, <1>2
  <1>4. \A u \in Trigger, n \in Nat : kind[u] = "cron" /\ CronBehind(u, n) => CronBehind(u, n)'
    BY <1>1, <1>2, <1>3, CronKept DEF Acting
  <1>5. QED
    BY <1>1, <1>3, <1>4 DEF worldVars

\* The memory of the pollers and its types.
LEMMA MemoryTypes ==
    ASSUME TrigInv
    PROVE  /\ wasMet \in [Trigger -> BOOLEAN] /\ falls \in [Trigger -> Nat]
           /\ cursor \in [Trigger -> 0..MaxItems] /\ handled \in [Trigger -> SUBSET Message]
           /\ eventFired \subseteq Trigger /\ lastPrune \in Nat /\ lastPrune <= clock /\ clock \in Nat
           /\ inbox \in Nat /\ inbox <= MaxItems /\ MaxItems \in Nat
  BY TriggerAssumption DEF TrigInv, TrigTypeOK, Times

\* A metric is evaluated.
LEMMA ThresholdStep ==
    ASSUME TrigInv, NEW t \in Trigger, PollThreshold(t)
    PROVE  TrigInv'
  <1>1. /\ Polls(t, "threshold") /\ metric # "none"
        /\ wasMet' = [wasMet EXCEPT ![t] = metric = "met"]
        /\ falls' = [falls EXCEPT ![t] = IF metric = "unmet" THEN falls[t] + 1 ELSE falls[t]]
        /\ IF Rising(t) THEN Acts(t, <<falls[t]>>) ELSE NextVisit /\ UNCHANGED acted
        /\ UNCHANGED <<cursor, handled, eventFired, lastPrune>>
    BY DEF PollThreshold
  <1>2. /\ UNCHANGED worldVars /\ UNCHANGED <<tickAt, wakeAt, loaded, lastReload, dbLost, kind>>
        /\ sched = "visit" /\ todo # <<>> /\ kind[t] = "threshold" /\ nextAt' \in [Trigger -> Int]
        /\ \A u \in Trigger, n \in Nat : kind[u] = "cron" /\ CronBehind(u, n) => CronBehind(u, n)'
    BY <1>1, PollFrame
  <1>3. wasMet \in [Trigger -> BOOLEAN] /\ falls \in [Trigger -> Nat]
    BY MemoryTypes
  <1>4. metric = "met" \/ metric = "unmet"
    BY <1>1 DEF TrigInv, TrigTypeOK
  <1>5. metric = "met" => wasMet'[t] = TRUE /\ falls'[t] = falls[t]
    <2>1. wasMet'[t] = (metric = "met")
      BY Zenon, <1>1, <1>3
    <2>2. falls'[t] = IF metric = "unmet" THEN falls[t] + 1 ELSE falls[t]
      BY <1>1, <1>3
    <2>3. QED
      BY <2>1, <2>2
  <1>6. metric = "unmet" => falls'[t] = falls[t] + 1
    BY <1>1, <1>3
  <1>7. \A u \in Trigger : u # t => wasMet'[u] = wasMet[u] /\ falls'[u] = falls[u]
    BY <1>1, <1>3
  <1>8. \A u \in Trigger, k \in Nat : Behind(u, k) => Behind(u, k)'
    <2>1. ASSUME NEW u \in Trigger, NEW k \in Nat, Behind(u, k) PROVE Behind(u, k)'
      <3>1. kind[u] = "threshold" => k <= falls'[u] /\ (k = falls'[u] => wasMet'[u])
        <4>1. kind[u] = "threshold" => k <= falls[u] /\ (k = falls[u] => wasMet[u])
          BY <2>1 DEF Behind
        <4>2. CASE u # t
          BY <1>7, <4>1, <4>2
        <4>3. CASE u = t /\ metric = "met"
          BY <1>5, <4>1, <4>3
        <4>4. CASE u = t /\ metric = "unmet"
          BY <1>3, <1>6, <4>1, <4>4
        <4>5. QED
          BY <1>4, <4>2, <4>3, <4>4
      <3>2. QED
        BY <1>1, <1>2, <2>1, <3>1 DEF Behind
    <2>2. QED
      BY <2>1
  <1>9. VisitFrame
    <2>1. wasMet' \in [Trigger -> BOOLEAN] /\ falls' \in [Trigger -> Nat]
      BY <1>1, <1>3
    <2>2. QED
      BY <1>1, <1>2, <1>8, <2>1, MemoryTypes DEF VisitFrame
  <1>10. CASE Rising(t)
    <2>1. PICK n \in Nat : n = falls[t]
      BY <1>3
    <2>2. Acts(t, <<n>>) /\ metric = "met" /\ ~wasMet[t]
      BY <1>1, <1>10, <2>1 DEF Rising
    <2>3. ~Behind(t, n)
      BY <1>2, <2>1, <2>2 DEF Behind
    <2>4. Behind(t, n)'
      BY <1>2, <1>5, <2>1, <2>2 DEF Behind
    <2>5. QED
      BY <1>9, <2>2, <2>3, <2>4, ActingOnce
  <1>11. CASE ~Rising(t)
    BY <1>1, <1>9, <1>11, IdleVisit
  <1>12. QED
    BY <1>10, <1>11

\* The newest of some messages are among them.
LEMMA NewestOf == \A S : Newest(S) \subseteq S
  BY DEF Newest

\* Messages are fetched from Slack.
LEMMA SlackStep ==
    ASSUME TrigInv, NEW t \in Trigger, PollSlack(t)
    PROVE  TrigInv'
  <1> DEFINE fetched == Newest(cursor[t] + 1..inbox) \cap Matching
  <1>1. /\ Polls(t, "slack") /\ fetched # {}
        /\ cursor' = [cursor EXCEPT ![t] = CursorAfter(fetched)]
        /\ Acts(t, Ordered(fetched))
        /\ UNCHANGED <<wasMet, falls, handled, eventFired, lastPrune>>
    BY DEF PollSlack
  <1>2. /\ UNCHANGED worldVars /\ UNCHANGED <<tickAt, wakeAt, loaded, lastReload, dbLost, kind>>
        /\ sched = "visit" /\ todo # <<>> /\ kind[t] = "slack" /\ nextAt' \in [Trigger -> Int]
        /\ \A u \in Trigger, n \in Nat : kind[u] = "cron" /\ CronBehind(u, n) => CronBehind(u, n)'
    BY <1>1, PollFrame
  <1>3. cursor \in [Trigger -> 0..MaxItems] /\ inbox \in Nat /\ inbox <= MaxItems /\ MaxItems \in Nat /\ cursor[t] \in Nat
    BY MemoryTypes
  <1>4. PICK F : F = fetched
    OBVIOUS
  <1>5. F \in SUBSET (1..inbox) /\ \A m \in F : m \in Nat /\ cursor[t] < m /\ m <= inbox
    <2>1. F \subseteq cursor[t] + 1..inbox
      BY <1>4, NewestOf
    <2>2. \A m \in cursor[t] + 1..inbox : m \in 1..inbox /\ m \in Nat /\ cursor[t] < m /\ m <= inbox
      BY <1>3
    <2>3. QED
      BY <2>1, <2>2
  <1>6. F # {} /\ cursor' = [cursor EXCEPT ![t] = Max(F)] /\ Acts(t, Ordered(F))
    BY <1>1, <1>4 DEF CursorAfter
  <1> HIDE DEF fetched
  <1>7. Max(F) \in F /\ \A w \in F : w <= Max(F)
    BY <1>3, <1>5, <1>6, GreatestOf
  <1>8. PICK top \in Nat : top = Max(F) /\ cursor[t] < top /\ top <= inbox /\ \A w \in F : w <= top
    BY <1>5, <1>7
  <1>9. cursor' = [cursor EXCEPT ![t] = top] /\ cursor' \in [Trigger -> 0..MaxItems] /\ cursor'[t] = top
    <2>1. cursor' = [cursor EXCEPT ![t] = top]
      BY Zenon, <1>6, <1>8
    <2>2. top \in 0..MaxItems
      BY <1>3, <1>8
    <2>3. QED
      BY <1>3, <2>1, <2>2
  <1>10. \A u \in Trigger, k \in Nat : Behind(u, k) => Behind(u, k)'
    <2>1. ASSUME NEW u \in Trigger, NEW k \in Nat, Behind(u, k) PROVE Behind(u, k)'
      <3>1. kind[u] = "slack" => k <= cursor'[u]
        <4>1. kind[u] = "slack" => k <= cursor[u]
          BY <2>1 DEF Behind
        <4>2. CASE u = t
          BY <1>3, <1>8, <1>9, <4>1, <4>2
        <4>3. CASE u # t
          BY <1>3, <1>9, <4>1, <4>3
        <4>4. QED
          BY <4>2, <4>3
      <3>2. QED
        BY <1>1, <1>2, <2>1, <3>1 DEF Behind
    <2>2. QED
      BY <2>1
  <1>11. VisitFrame
    BY <1>1, <1>2, <1>9, <1>10, MemoryTypes DEF VisitFrame
  <1>12. PICK keys \in Seq(Nat) : keys = Ordered(F) /\ (\A i \in DOMAIN keys : keys[i] \in F)
                                  /\ \A i, j \in DOMAIN keys : keys[i] = keys[j] => i = j
    BY <1>3, <1>5, OrderedKeys
  <1>13. Acts(t, keys)
    BY <1>6, <1>12
  <1>14. \A j \in DOMAIN keys : ~Behind(t, keys[j])
    BY <1>2, <1>3, <1>5, <1>12 DEF Behind
  <1>15. \A j \in DOMAIN keys : Behind(t, keys[j])'
    <2>1. ASSUME NEW j \in DOMAIN keys PROVE Behind(t, keys[j])'
      <3>1. keys[j] <= cursor'[t]
        BY <1>8, <1>9, <1>12
      <3>2. QED
        BY <1>2, <3>1 DEF Behind
    <2>2. QED
      BY <2>1
  <1>16. QED
    BY <1>11, <1>12, <1>13, <1>14, <1>15, ActingVisit

\* Threads are fetched from the mailbox.
LEMMA EmailStep ==
    ASSUME TrigInv, NEW t \in Trigger, PollEmail(t)
    PROVE  TrigInv'
  <1> DEFINE fetched == Newest(1..inbox)
             new     == (fetched \ handled[t]) \cap Matching
  <1>1. /\ Polls(t, "email")
        /\ handled' = [handled EXCEPT ![t] = handled[t] \cup fetched]
        /\ Acts(t, Ordered(new))
        /\ UNCHANGED <<wasMet, falls, cursor, eventFired, lastPrune>>
    BY DEF PollEmail
  <1>2. /\ UNCHANGED worldVars /\ UNCHANGED <<tickAt, wakeAt, loaded, lastReload, dbLost, kind>>
        /\ sched = "visit" /\ todo # <<>> /\ kind[t] = "email" /\ nextAt' \in [Trigger -> Int]
        /\ \A u \in Trigger, n \in Nat : kind[u] = "cron" /\ CronBehind(u, n) => CronBehind(u, n)'
    BY <1>1, PollFrame
  <1>3. handled \in [Trigger -> SUBSET Message] /\ inbox \in Nat /\ inbox <= MaxItems /\ MaxItems \in Nat
    BY MemoryTypes
  <1>4. PICK F, N : F = fetched /\ N = new
    OBVIOUS
  <1>5. F \subseteq 1..inbox /\ F \subseteq Message /\ N \in SUBSET (1..inbox) /\ N \subseteq F /\ N \cap handled[t] = {}
    <2>1. F \subseteq 1..inbox
      BY <1>4, NewestOf
    <2>2. \A m \in 1..inbox : m \in Message
      BY <1>3 DEF Message
    <2>3. QED
      BY <1>4, <2>1, <2>2
  <1>6. handled' = [handled EXCEPT ![t] = handled[t] \cup F] /\ Acts(t, Ordered(N))
    BY <1>1, <1>4
  <1> HIDE DEF fetched, new
  <1>7. handled' \in [Trigger -> SUBSET Message] /\ handled'[t] = handled[t] \cup F
        /\ \A u \in Trigger : handled[u] \subseteq handled'[u]
    BY <1>3, <1>5, <1>6
  <1>8. \A u \in Trigger, k \in Nat : Behind(u, k) => Behind(u, k)'
    BY <1>1, <1>2, <1>7 DEF Behind
  <1>9. VisitFrame
    BY <1>1, <1>2, <1>7, <1>8, MemoryTypes DEF VisitFrame
  <1>10. PICK keys \in Seq(Nat) : keys = Ordered(N) /\ (\A i \in DOMAIN keys : keys[i] \in N)
                                  /\ \A i, j \in DOMAIN keys : keys[i] = keys[j] => i = j
    BY <1>3, <1>5, OrderedKeys
  <1>11. Acts(t, keys)
    BY <1>6, <1>10
  <1>12. \A j \in DOMAIN keys : ~Behind(t, keys[j])
    BY <1>2, <1>5, <1>10 DEF Behind
  <1>13. \A j \in DOMAIN keys : Behind(t, keys[j])'
    <2>1. ASSUME NEW j \in DOMAIN keys PROVE Behind(t, keys[j])'
      <3>1. keys[j] \in handled'[t]
        BY <1>5, <1>7, <1>10
      <3>2. QED
        BY <1>2, <3>1 DEF Behind
    <2>2. QED
      BY <2>1
  <1>14. QED
    BY <1>9, <1>10, <1>11, <1>12, <1>13, ActingVisit

\* A calendar is polled.
LEMMA CalendarStep ==
    ASSUME TrigInv, NEW t \in Trigger, NEW found \in BOOLEAN, PollCalendar(t, found)
    PROVE  TrigInv'
  <1> DEFINE fire  == found /\ Near /\ t \notin eventFired
             prune == clock - lastPrune >= PruneEvery
  <1>1. /\ Polls(t, "calendar")
        /\ eventFired' = IF prune THEN {} ELSE IF fire THEN eventFired \cup {t} ELSE eventFired
        /\ lastPrune' = IF prune THEN clock ELSE lastPrune
        /\ IF fire THEN Acts(t, <<lastPrune>>) ELSE NextVisit /\ UNCHANGED acted
        /\ UNCHANGED <<wasMet, falls, cursor, handled>>
    BY DEF PollCalendar
  <1>2. /\ UNCHANGED worldVars /\ UNCHANGED <<tickAt, wakeAt, loaded, lastReload, dbLost, kind>>
        /\ sched = "visit" /\ todo # <<>> /\ kind[t] = "calendar" /\ nextAt' \in [Trigger -> Int]
        /\ \A u \in Trigger, n \in Nat : kind[u] = "cron" /\ CronBehind(u, n) => CronBehind(u, n)'
    BY <1>1, PollFrame
  <1>3. eventFired \subseteq Trigger /\ lastPrune \in Nat /\ lastPrune <= clock /\ clock \in Nat
    BY MemoryTypes
  <1>4. prune => lastPrune < clock
    BY <1>3, TriggerAssumption
  <1>5. /\ prune => eventFired' = {} /\ lastPrune' = clock /\ lastPrune < lastPrune'
        /\ ~prune => lastPrune' = lastPrune /\ eventFired \subseteq eventFired' /\ (fire => t \in eventFired')
        /\ eventFired' \subseteq Trigger /\ lastPrune' \in Nat /\ lastPrune' <= clock /\ lastPrune <= lastPrune'
    BY <1>1, <1>3, <1>4
  <1>6. fire => t \notin eventFired
    OBVIOUS
  <1> HIDE DEF fire, prune
  <1>7. ASSUME NEW u \in Trigger, NEW k \in Nat, k <= lastPrune, k = lastPrune /\ ~prune => u \in eventFired'
        PROVE  k <= lastPrune' /\ (k = lastPrune' => u \in eventFired')
    BY <1>3, <1>5, <1>7
  <1>8. \A u \in Trigger, k \in Nat : Behind(u, k) => Behind(u, k)'
    <2>1. ASSUME NEW u \in Trigger, NEW k \in Nat, Behind(u, k) PROVE Behind(u, k)'
      <3>1. kind[u] = "calendar" => k <= lastPrune' /\ (k = lastPrune' => u \in eventFired')
        <4>1. kind[u] = "calendar" => k <= lastPrune /\ (k = lastPrune => u \in eventFired)
          BY <2>1 DEF Behind
        <4>2. QED
          BY <1>5, <1>7, <4>1
      <3>2. QED
        BY <1>1, <1>2, <2>1, <3>1 DEF Behind
    <2>2. QED
      BY <2>1
  <1>9. VisitFrame
    BY <1>1, <1>2, <1>5, <1>8, MemoryTypes DEF VisitFrame
  <1>10. CASE fire
    <2>1. PICK n \in Nat : n = lastPrune
      BY <1>3
    <2>2. Acts(t, <<n>>)
      BY <1>1, <1>10, <2>1
    <2>3. ~Behind(t, n)
      BY <1>2, <1>6, <1>10, <2>1 DEF Behind
    <2>4. Behind(t, n)'
      <3>1. n <= lastPrune' /\ (n = lastPrune' => t \in eventFired')
        BY <1>3, <1>5, <1>7, <1>10, <2>1
      <3>2. QED
        BY <1>2, <3>1 DEF Behind
    <2>5. QED
      BY <1>9, <2>2, <2>3, <2>4, ActingOnce
  <1>11. CASE ~fire
    BY <1>1, <1>9, <1>11, IdleVisit
  <1>12. QED
    BY <1>10, <1>11

\* The kernel starts again.
LEMMA RestartStep ==
    ASSUME TrigInv, Restart
    PROVE  TrigInv'
  <1>1. /\ restarts < MaxRestarts /\ restarts' = restarts + 1
        /\ sched' = "sleep" /\ tickAt' = -1 /\ wakeAt' = clock + 1
        /\ todo' = <<>> /\ loaded' = <<>> /\ lastReload' = -ReloadEvery /\ dbLost' = FALSE
        /\ nextAt' = [t \in Trigger |-> Unset]
        /\ wasMet' = [t \in Trigger |-> FALSE] /\ falls' = [t \in Trigger |-> 0]
        /\ cursor' = [t \in Trigger |-> 0] /\ handled' = [t \in Trigger |-> {}]
        /\ eventFired' = {} /\ lastPrune' = clock /\ acted' = <<>>
        /\ UNCHANGED <<clock, kind, row, since, metric, inbox, edits>>
    BY DEF Restart, Blank
  <1>2. clock \in Nat /\ ReloadEvery \in Nat /\ MaxItems \in Nat /\ restarts \in 0..MaxRestarts /\ MaxRestarts \in Nat
    BY TrigTypes, TriggerAssumption DEF TrigInv, TrigTypeOK
  <1>3. /\ restarts' \in 0..MaxRestarts /\ wakeAt' \in Nat /\ lastReload' \in Int /\ tickAt' \in Int
        /\ lastReload' <= clock /\ tickAt' <= clock
    BY <1>1, <1>2
  <1>4. nextAt' \in [Trigger -> Int] /\ cursor' \in [Trigger -> 0..MaxItems] /\ wasMet' \in [Trigger -> BOOLEAN]
        /\ falls' \in [Trigger -> Nat] /\ handled' \in [Trigger -> SUBSET Message]
    BY <1>1, <1>2 DEF Unset
  <1>5. todo' \in Seq(Trigger) /\ loaded' \in Seq(Trigger) /\ acted' \in Seq(Trigger \X Nat)
        /\ DOMAIN acted' = {} /\ DOMAIN loaded' = {} /\ ~Acting' /\ sched' # "visit"
    BY <1>1 DEF Acting
  <1>6. TrigTypeOK'
    BY <1>1, <1>2, <1>3, <1>4, <1>5 DEF TrigInv, TrigTypeOK
  <1>7. Times'
    BY <1>1, <1>2, <1>3, <1>5 DEF TrigInv, Times
  <1>8. ActedInv' /\ NothingFiresTwice' /\ LoadedInv'
    BY <1>1, <1>5 DEF ActedInv, NothingFiresTwice, LoadedInv
  <1>9. QED
    BY <1>6, <1>7, <1>8 DEF TrigInv

-----------------------------------------------------------------------------
\* The invariant holds at the start.
LEMMA TrigInvInit == TrigInit => TrigInv
  <1> SUFFICES ASSUME TrigInit PROVE TrigInv
    OBVIOUS
  <1>1. /\ clock = 0 /\ metric = "none" /\ inbox = 0 /\ edits = 0 /\ restarts = 0
        /\ sched = "sleep" /\ tickAt = -1 /\ wakeAt = 1
        /\ todo = <<>> /\ loaded = <<>> /\ lastReload = -ReloadEvery /\ dbLost = FALSE
        /\ eventFired = {} /\ lastPrune = 0 /\ acted = <<>>
    BY Zenon DEF TrigInit
  <1>2. /\ kind \in [Trigger -> Kinds] /\ row = [t \in Trigger |-> "on"] /\ since = [t \in Trigger |-> 0]
        /\ nextAt = [t \in Trigger |-> Unset]
        /\ wasMet = [t \in Trigger |-> FALSE] /\ falls = [t \in Trigger |-> 0]
        /\ cursor = [t \in Trigger |-> 0] /\ handled = [t \in Trigger |-> {}]
    BY DEF TrigInit, Blank
  <1>3. MaxTime \in Nat /\ MaxItems \in Nat /\ MaxEdits \in Nat /\ MaxRestarts \in Nat /\ ReloadEvery \in Nat
    BY TriggerAssumption
  <1>4. /\ row \in [Trigger -> {"on", "off", "none"}] /\ since \in [Trigger -> 0..MaxTime] /\ nextAt \in [Trigger -> Int]
        /\ wasMet \in [Trigger -> BOOLEAN] /\ falls \in [Trigger -> Nat] /\ cursor \in [Trigger -> 0..MaxItems]
        /\ handled \in [Trigger -> SUBSET Message]
    BY <1>2, <1>3 DEF Unset
  <1>5. todo \in Seq(Trigger) /\ loaded \in Seq(Trigger) /\ acted \in Seq(Trigger \X Nat)
        /\ DOMAIN acted = {} /\ DOMAIN loaded = {} /\ ~Acting /\ sched # "visit"
    BY <1>1 DEF Acting
  <1>6. TrigTypeOK
    <2>1. /\ clock \in 0..MaxTime /\ inbox \in 0..MaxItems /\ edits \in 0..MaxEdits /\ restarts \in 0..MaxRestarts
          /\ tickAt \in Int /\ wakeAt \in Nat /\ lastReload \in Int /\ lastPrune \in Nat
      BY <1>1, <1>3
    <2>2. /\ metric \in {"none", "unmet", "met"} /\ sched \in {"sleep", "reload", "visit", "act", "record"}
          /\ dbLost \in BOOLEAN /\ eventFired \subseteq Trigger
      BY Zenon, <1>1
    <2>3. QED
      BY Zenon, <1>2, <1>4, <1>5, <2>1, <2>2 DEF TrigTypeOK
  <1>7. Times
    BY <1>1, <1>2, <1>3, <1>5 DEF Times
  <1>8. ActedInv /\ NothingFiresTwice /\ LoadedInv
    BY <1>1, <1>5 DEF ActedInv, NothingFiresTwice, LoadedInv
  <1>9. QED
    BY <1>6, <1>7, <1>8 DEF TrigInv

\* Every step keeps the invariant.
LEMMA TrigInvStep == TrigInv /\ [TrigNext]_trigVars => TrigInv'
  <1> SUFFICES ASSUME TrigInv, [TrigNext]_trigVars PROVE TrigInv'
    OBVIOUS
  <1>1. CASE Elapse \/ MessageArrives \/ \E value \in {"none", "unmet", "met"} \ {metric} : MetricMoves(value)
    BY <1>1, WorldStep
  <1>2. CASE \E t \in Trigger : Delete(t) \/ \E state \in {"on", "off"} : Switch(t, state)
    BY <1>2, WorldStep
  <1>3. CASE EndTick \/ \E t \in Trigger : VisitEarly(t) \/ PollFails(t)
    BY <1>3, PassStep
  <1>4. ASSUME NEW t \in Trigger,
               \/ VisitCron(t) \/ PollThreshold(t) \/ PollSlack(t) \/ PollEmail(t)
               \/ \E found \in BOOLEAN : PollCalendar(t, found)
        PROVE  TrigInv'
    BY <1>4, CronStep, ThresholdStep, SlackStep, EmailStep, CalendarStep
  <1>5. CASE Reload \/ \E lost \in BOOLEAN : ReloadFails(lost)
    BY <1>5, ReloadStep
  <1>6. CASE Wake \/ Act \/ Record \/ Restart
    BY <1>6, WakeStep, ActStep, RecordStep, RestartStep
  <1>7. CASE UNCHANGED trigVars
    BY <1>7 DEF TrigInv, TrigTypeOK, Times, ActedInv, Behind, CronBehind, LoadedInv, NothingFiresTwice, Acting, trigVars
  <1>8. QED
    BY <1>1, <1>2, <1>3, <1>4, <1>5, <1>6, <1>7 DEF TrigNext

\* The inductive invariant holds throughout.
THEOREM TrigInvariance == TrigSpec => []TrigInv
  <1>1. QED
    BY TrigInvInit, TrigInvStep, PTL DEF TrigSpec

\* The variables of the scheduler keep their types.
THEOREM TrigTypeCorrect == TrigSpec => []TrigTypeOK
  <1>1. TrigInv => TrigTypeOK
    BY DEF TrigInv
  <1>2. QED
    BY <1>1, TrigInvariance, PTL

\* Within the life of a process no trigger acts twice on the same cron time,
\* rise of the metric, message or event, for any number of triggers and
\* whatever is edited, slow or fails meanwhile.
THEOREM FiresOnce == TrigSpec => []NothingFiresTwice
  <1>1. TrigInv => NothingFiresTwice
    BY DEF TrigInv
  <1>2. QED
    BY <1>1, TrigInvariance, PTL

\* A trigger that is switched off or deleted stops within a reload interval
\* unless the last reload could not read the database.
THEOREM DisabledStops == TrigSpec => []DisabledStopsSoon
  <1>1. ASSUME TrigInv, sched = "act"
        PROVE  row[Current] = "on" \/ dbLost \/ tickAt - since[Current] < ReloadEvery
    <2>1. todo # <<>>
      BY <1>1 DEF TrigInv, Times, Acting
    <2>2. 1 \in DOMAIN todo /\ Current = todo[1]
      BY <1>1, <2>1, Visits DEF TrigInv
    <2>3. QED
      BY <1>1, <2>2 DEF TrigInv, LoadedInv, Acting
  <1>2. TrigInv => DisabledStopsSoon
    BY <1>1 DEF DisabledStopsSoon
  <1>3. QED
    BY <1>2, TrigInvariance, PTL
=============================================================================
