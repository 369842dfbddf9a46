--------------------------- MODULE JobQueueProofs ---------------------------
(***************************************************************************)
(* Proofs about JobQueue, for any sets of jobs, workers, tenants and keys  *)
(* and any bounds.                                                         *)
(***************************************************************************)
EXTENDS JobQueue, FiniteSetTheorems, TLAPS

\* A row that exists has a key.
KeyInv == \A j \in Job : status[j] # "absent" => key[j] \in Key

\* A worker has a job exactly while it executes it or its heartbeat outlives it.
WorkerInv ==
    \A w \in Worker :
        /\ (job[w] # None) <=> (Executing(w) \/ pc[w] = "zombie")
        /\ job[w] # None => status[job[w]] # "absent"
        /\ pc[w] = "claim" => at[w] \in Workspace

\* The row of an executing worker is its own, and no older than its silence.
OwnInv ==
    \A w \in Worker : Executing(w) =>
        /\ status[job[w]] = "running"
        /\ claimedBy[job[w]] = w
        /\ WsOf[key[job[w]]] \notin deleted => age[job[w]] <= silence[w]

\* A running row was claimed at least once.
TriedInv == \A j \in Job : status[j] = "running" => attempts[j] >= 1










\* What Append, Head, Tail and concatenation return, for sequences of any set.
LEMMA SeqFacts ==
    ASSUME NEW S
    PROVE  /\ \A q \in Seq(S), e \in S : /\ Append(q, e) \in Seq(S)
                                          /\ Len(Append(q, e)) = Len(q) + 1
                                          /\ \A i \in 1..Len(q) : Append(q, e)[i] = q[i]
                                          /\ Append(q, e)[Len(q) + 1] = e
           /\ \A q \in Seq(S) : q # <<>> =>
                  /\ Head(q) = q[1] /\ Head(q) \in S /\ Len(q) >= 1
                  /\ Tail(q) \in Seq(S)
                  /\ Len(Tail(q)) = Len(q) - 1
                  /\ \A i \in 1..Len(Tail(q)) : Tail(q)[i] = q[i + 1]
           /\ \A q, r \in Seq(S) :
                  /\ q \o r \in Seq(S)
                  /\ Len(q \o r) = Len(q) + Len(r)
                  /\ \A i \in 1..Len(q) : (q \o r)[i] = q[i]
                  /\ \A i \in 1..Len(r) : (q \o r)[Len(q) + i] = r[i]
  OBVIOUS

\* The stale rows of a workspace are put in some order, each once.
LEMMA OrderFacts ==
    ASSUME NEW S, S \subseteq Job, NEW order \in SetToSeqs(S)
    PROVE  /\ order \in Seq(Job)
           /\ \A i \in 1..Len(order) : order[i] \in S
           /\ \A i, k \in 1..Len(order) : order[i] = order[k] => i = k
  <1>1. Cardinality(S) \in Nat
    BY QueueAssumption, FS_Subset, FS_CardinalityType
  <1>2. order \in [1..Cardinality(S) -> S]
    BY DEF SetToSeqs
  <1>3. order \in Seq(Job) /\ Len(order) = Cardinality(S)
    BY <1>1, <1>2
  <1>4. QED
    BY <1>1, <1>2, <1>3 DEF SetToSeqs

\* Every step keeps the types of the columns and of the workers' state.
LEMMA TypeStep ==
    ASSUME TypeOK, WorkerInv, Next \/ UNCHANGED vars
    PROVE  TypeOK'
  <1>1. ASSUME NEW j \in Job, NEW k \in Key, EnqueueJob(j, k) PROVE TypeOK'
    BY <1>1, QueueAssumption, SeqFacts DEF EnqueueJob, ActiveConflict, TypeOK, Status, PCs, rowVars, workerVars, WorkerInv, Executing
  <1>2. ASSUME NEW j \in Job, BackoffElapses(j) PROVE TypeOK'
    BY <1>2, QueueAssumption, SeqFacts DEF BackoffElapses, JobWs, TypeOK, Status, PCs, rowVars, workerVars, WorkerInv, Executing
  <1>3. ASSUME NEW w \in Worker, BeginTick(w) PROVE TypeOK'
    BY <1>3, QueueAssumption, SeqFacts DEF BeginTick, TypeOK, Status, PCs, rowVars, workerVars, WorkerInv, Executing
  <1>4. ASSUME NEW w \in Worker, EndTick(w) PROVE TypeOK'
    BY <1>4, QueueAssumption, SeqFacts DEF EndTick, TypeOK, Status, PCs, rowVars, workerVars, WorkerInv, Executing
  <1>5. ASSUME NEW w \in Worker, NEW s \in Workspace, RequeueStale(w, s) PROVE TypeOK'
    <2> DEFINE stale == StaleRows(s)
    <2>1. PICK order \in SetToSeqs(stale) :
               ready' = [ready EXCEPT ![s] = @ \o order]
      BY <1>5 DEF RequeueStale
    <2>2. stale \subseteq Job
      BY DEF StaleRows
    <2>3. order \in Seq(Job)
      BY <2>1, <2>2, OrderFacts
    <2>4. ready' \in [Workspace -> Seq(Job)]
      BY <2>1, <2>3, SeqFacts DEF TypeOK
    <2>5. /\ status' = [j \in Job |-> IF j \in stale THEN "queued" ELSE status[j]]
          /\ claimedBy' = [j \in Job |-> IF j \in stale THEN None ELSE claimedBy[j]]
          /\ age' = [j \in Job |-> IF j \in stale THEN 0 ELSE age[j]]
      BY <1>5 DEF RequeueStale
    <2> HIDE DEF stale
    <2>6. /\ status' \in [Job -> Status]
          /\ claimedBy' \in [Job -> Worker \cup {None}]
          /\ age' \in [Job -> 0..Stale]
      BY <2>5, QueueAssumption DEF TypeOK, Status
    <2>7. QED
      BY <1>5, <2>4, <2>6 DEF RequeueStale, TypeOK, PCs
  <1>6. ASSUME NEW w \in Worker, NEW s \in Workspace, SkipDeleted(w, s) PROVE TypeOK'
    BY <1>6, QueueAssumption, SeqFacts DEF SkipDeleted, TypeOK, Status, PCs, rowVars, workerVars, WorkerInv, Executing
  <1>7. ASSUME NEW w \in Worker, ClaimNextJob(w) PROVE TypeOK'
    BY <1>7, QueueAssumption, SeqFacts, SMTT(60) DEF ClaimNextJob, TypeOK, Status, PCs, rowVars, workerVars, WorkerInv, Executing
  <1>8. ASSUME NEW w \in Worker, NothingToClaim(w) PROVE TypeOK'
    BY <1>8, QueueAssumption, SeqFacts DEF NothingToClaim, TypeOK, Status, PCs, rowVars, workerVars, WorkerInv, Executing
  <1>9. ASSUME NEW w \in Worker, NEW ok \in BOOLEAN, HandlerEnds(w, ok) PROVE TypeOK'
    BY <1>9, QueueAssumption, SeqFacts DEF HandlerEnds, TypeOK, Status, PCs, rowVars, workerVars, WorkerInv, Executing
  <1>10. ASSUME NEW w \in Worker, CompleteJob(w) PROVE TypeOK'
    BY <1>10, QueueAssumption, SeqFacts DEF CompleteJob, Release, MayReport, TypeOK, Status, PCs, rowVars, workerVars, WorkerInv, Executing
  <1>11. ASSUME NEW w \in Worker, FailJob(w) PROVE TypeOK'
    BY <1>11, QueueAssumption, SeqFacts DEF FailJob, Release, MayReport, AfterFailure, TypeOK, Status, PCs, rowVars, workerVars, WorkerInv, Executing
  <1>12. ASSUME NEW w \in Worker, Heartbeat(w) PROVE TypeOK'
    BY <1>12, QueueAssumption, SeqFacts DEF Heartbeat, Beating, MayReport, TypeOK, Status, PCs, rowVars, workerVars, WorkerInv, Executing
  <1>13. ASSUME NEW w \in Worker, ReportLost(w) PROVE TypeOK'
    BY <1>13, QueueAssumption, SeqFacts DEF ReportLost, Release, TypeOK, Status, PCs, rowVars, workerVars, WorkerInv, Executing
  <1>14. ASSUME NEW w \in Worker, StopRequested(w) PROVE TypeOK'
    BY <1>14, QueueAssumption, SeqFacts DEF StopRequested, TypeOK, Status, PCs, rowVars, workerVars, WorkerInv, Executing
  <1>15. ASSUME NEW w \in Worker, StopTimesOut(w) PROVE TypeOK'
    BY <1>15, QueueAssumption, SeqFacts DEF StopTimesOut, TypeOK, Status, PCs, rowVars, workerVars, WorkerInv, Executing
  <1>16. ASSUME NEW w \in Worker, ProcessExit(w) PROVE TypeOK'
    BY <1>16, QueueAssumption, SeqFacts DEF ProcessExit, Off, TypeOK, Status, PCs, rowVars, workerVars, WorkerInv, Executing
  <1>17. ASSUME NEW w \in Worker, Crash(w) PROVE TypeOK'
    BY <1>17, QueueAssumption, SeqFacts DEF Crash, Off, TypeOK, Status, PCs, rowVars, workerVars, WorkerInv, Executing
  <1>18. ASSUME NEW w \in Worker, Restart(w) PROVE TypeOK'
    BY <1>18, QueueAssumption, SeqFacts DEF Restart, TypeOK, Status, PCs, rowVars, workerVars, WorkerInv, Executing
  <1>19. ASSUME NEW s \in Workspace, DeleteWorkspace(s) PROVE TypeOK'
    BY <1>19, QueueAssumption, SeqFacts DEF DeleteWorkspace, TypeOK, Status, PCs, rowVars, workerVars, WorkerInv, Executing
  <1>20. ASSUME Tick PROVE TypeOK'
    BY <1>20, QueueAssumption, SeqFacts DEF Tick, TypeOK, Status, PCs, rowVars, workerVars, WorkerInv, Executing
  <1>21. ASSUME UNCHANGED vars PROVE TypeOK'
    BY <1>21 DEF vars, TypeOK, Status, PCs, rowVars, workerVars, WorkerInv, Executing
  <1>22. QED
    BY <1>1, <1>2, <1>3, <1>4, <1>5, <1>6, <1>7, <1>8, <1>9, <1>10, <1>11, <1>12, <1>13, <1>14, <1>15, <1>16, <1>17, <1>18, <1>19, <1>20, <1>21 DEF Next, WorkerStep

\* Every step keeps KeyInv.
LEMMA KeyStep ==
    ASSUME TypeOK, KeyInv, WorkerInv, Next \/ UNCHANGED vars
    PROVE  KeyInv'
  <1>1. ASSUME NEW j \in Job, NEW k \in Key, EnqueueJob(j, k) PROVE KeyInv'
    BY <1>1, QueueAssumption, SeqFacts DEF EnqueueJob, ActiveConflict, KeyInv, TypeOK, Status, WorkerInv, Executing, rowVars, workerVars, StaleRows
  <1>2. ASSUME NEW j \in Job, BackoffElapses(j) PROVE KeyInv'
    BY <1>2, QueueAssumption, SeqFacts DEF BackoffElapses, JobWs, KeyInv, TypeOK, Status, WorkerInv, Executing, rowVars, workerVars, StaleRows
  <1>3. ASSUME NEW w \in Worker, BeginTick(w) PROVE KeyInv'
    BY <1>3, QueueAssumption, SeqFacts DEF BeginTick, KeyInv, TypeOK, Status, WorkerInv, Executing, rowVars, workerVars, StaleRows
  <1>4. ASSUME NEW w \in Worker, EndTick(w) PROVE KeyInv'
    BY <1>4, QueueAssumption, SeqFacts DEF EndTick, KeyInv, TypeOK, Status, WorkerInv, Executing, rowVars, workerVars, StaleRows
  <1>5. ASSUME NEW w \in Worker, NEW s \in Workspace, RequeueStale(w, s) PROVE KeyInv'
    BY <1>5, QueueAssumption, SeqFacts DEF RequeueStale, KeyInv, TypeOK, Status, WorkerInv, Executing, rowVars, workerVars, StaleRows
  <1>6. ASSUME NEW w \in Worker, NEW s \in Workspace, SkipDeleted(w, s) PROVE KeyInv'
    BY <1>6, QueueAssumption, SeqFacts DEF SkipDeleted, KeyInv, TypeOK, Status, WorkerInv, Executing, rowVars, workerVars, StaleRows
  <1>7. ASSUME NEW w \in Worker, ClaimNextJob(w) PROVE KeyInv'
    BY <1>7, QueueAssumption, SeqFacts DEF ClaimNextJob, KeyInv, TypeOK, Status, WorkerInv, Executing, rowVars, workerVars, StaleRows
  <1>8. ASSUME NEW w \in Worker, NothingToClaim(w) PROVE KeyInv'
    BY <1>8, QueueAssumption, SeqFacts DEF NothingToClaim, KeyInv, TypeOK, Status, WorkerInv, Executing, rowVars, workerVars, StaleRows
  <1>9. ASSUME NEW w \in Worker, NEW ok \in BOOLEAN, HandlerEnds(w, ok) PROVE KeyInv'
    BY <1>9, QueueAssumption, SeqFacts DEF HandlerEnds, KeyInv, TypeOK, Status, WorkerInv, Executing, rowVars, workerVars, StaleRows
  <1>10. ASSUME NEW w \in Worker, CompleteJob(w) PROVE KeyInv'
    BY <1>10, QueueAssumption, SeqFacts DEF CompleteJob, Release, MayReport, KeyInv, TypeOK, Status, WorkerInv, Executing, rowVars, workerVars, StaleRows
  <1>11. ASSUME NEW w \in Worker, FailJob(w) PROVE KeyInv'
    BY <1>11, QueueAssumption, SeqFacts DEF FailJob, Release, MayReport, AfterFailure, KeyInv, TypeOK, Status, WorkerInv, Executing, rowVars, workerVars, StaleRows
  <1>12. ASSUME NEW w \in Worker, Heartbeat(w) PROVE KeyInv'
    BY <1>12, QueueAssumption, SeqFacts DEF Heartbeat, Beating, MayReport, KeyInv, TypeOK, Status, WorkerInv, Executing, rowVars, workerVars, StaleRows
  <1>13. ASSUME NEW w \in Worker, ReportLost(w) PROVE KeyInv'
    BY <1>13, QueueAssumption, SeqFacts DEF ReportLost, Release, KeyInv, TypeOK, Status, WorkerInv, Executing, rowVars, workerVars, StaleRows
  <1>14. ASSUME NEW w \in Worker, StopRequested(w) PROVE KeyInv'
    BY <1>14, QueueAssumption, SeqFacts DEF StopRequested, KeyInv, TypeOK, Status, WorkerInv, Executing, rowVars, workerVars, StaleRows
  <1>15. ASSUME NEW w \in Worker, StopTimesOut(w) PROVE KeyInv'
    BY <1>15, QueueAssumption, SeqFacts DEF StopTimesOut, KeyInv, TypeOK, Status, WorkerInv, Executing, rowVars, workerVars, StaleRows
  <1>16. ASSUME NEW w \in Worker, ProcessExit(w) PROVE KeyInv'
    BY <1>16, QueueAssumption, SeqFacts DEF ProcessExit, Off, KeyInv, TypeOK, Status, WorkerInv, Executing, rowVars, workerVars, StaleRows
  <1>17. ASSUME NEW w \in Worker, Crash(w) PROVE KeyInv'
    BY <1>17, QueueAssumption, SeqFacts DEF Crash, Off, KeyInv, TypeOK, Status, WorkerInv, Executing, rowVars, workerVars, StaleRows
  <1>18. ASSUME NEW w \in Worker, Restart(w) PROVE KeyInv'
    BY <1>18, QueueAssumption, SeqFacts DEF Restart, KeyInv, TypeOK, Status, WorkerInv, Executing, rowVars, workerVars, StaleRows
  <1>19. ASSUME NEW s \in Workspace, DeleteWorkspace(s) PROVE KeyInv'
    BY <1>19, QueueAssumption, SeqFacts DEF DeleteWorkspace, KeyInv, TypeOK, Status, WorkerInv, Executing, rowVars, workerVars, StaleRows
  <1>20. ASSUME Tick PROVE KeyInv'
    BY <1>20, QueueAssumption, SeqFacts DEF Tick, KeyInv, TypeOK, Status, WorkerInv, Executing, rowVars, workerVars, StaleRows
  <1>21. ASSUME UNCHANGED vars PROVE KeyInv'
    BY <1>21 DEF vars, KeyInv, TypeOK, Status, WorkerInv, Executing, rowVars, workerVars, StaleRows
  <1>22. QED
    BY <1>1, <1>2, <1>3, <1>4, <1>5, <1>6, <1>7, <1>8, <1>9, <1>10, <1>11, <1>12, <1>13, <1>14, <1>15, <1>16, <1>17, <1>18, <1>19, <1>20, <1>21 DEF Next, WorkerStep

\* Every step keeps WorkerInv.
LEMMA WorkerStepInv ==
    ASSUME TypeOK, KeyInv, WorkerInv, Next \/ UNCHANGED vars
    PROVE  WorkerInv'
  <1>1. ASSUME NEW j \in Job, NEW k \in Key, EnqueueJob(j, k) PROVE WorkerInv'
    BY <1>1, QueueAssumption DEF EnqueueJob, ActiveConflict, WorkerInv, Executing, TypeOK, rowVars, workerVars
  <1>2. ASSUME NEW j \in Job, BackoffElapses(j) PROVE WorkerInv'
    BY <1>2, QueueAssumption DEF BackoffElapses, JobWs, WorkerInv, Executing, TypeOK, rowVars, workerVars
  <1>3. ASSUME NEW w \in Worker, BeginTick(w) PROVE WorkerInv'
    BY <1>3, QueueAssumption DEF BeginTick, WorkerInv, Executing, TypeOK, rowVars, workerVars
  <1>4. ASSUME NEW w \in Worker, EndTick(w) PROVE WorkerInv'
    BY <1>4, QueueAssumption DEF EndTick, WorkerInv, Executing, TypeOK, rowVars, workerVars
  <1>5. ASSUME NEW w \in Worker, NEW s \in Workspace, RequeueStale(w, s) PROVE WorkerInv'
    BY <1>5, QueueAssumption DEF RequeueStale, WorkerInv, Executing, TypeOK, rowVars, workerVars
  <1>6. ASSUME NEW w \in Worker, NEW s \in Workspace, SkipDeleted(w, s) PROVE WorkerInv'
    BY <1>6, QueueAssumption DEF SkipDeleted, WorkerInv, Executing, TypeOK, rowVars, workerVars
  <1>7. ASSUME NEW w \in Worker, ClaimNextJob(w) PROVE WorkerInv'
    BY <1>7, QueueAssumption DEF ClaimNextJob, WorkerInv, Executing, TypeOK, rowVars, workerVars
  <1>8. ASSUME NEW w \in Worker, NothingToClaim(w) PROVE WorkerInv'
    BY <1>8, QueueAssumption DEF NothingToClaim, WorkerInv, Executing, TypeOK, rowVars, workerVars
  <1>9. ASSUME NEW w \in Worker, NEW ok \in BOOLEAN, HandlerEnds(w, ok) PROVE WorkerInv'
    BY <1>9, QueueAssumption DEF HandlerEnds, WorkerInv, Executing, TypeOK, rowVars, workerVars
  <1>10. ASSUME NEW w \in Worker, CompleteJob(w) PROVE WorkerInv'
    BY <1>10, QueueAssumption DEF CompleteJob, Release, MayReport, WorkerInv, Executing, TypeOK, rowVars, workerVars
  <1>11. ASSUME NEW w \in Worker, FailJob(w) PROVE WorkerInv'
    BY <1>11, QueueAssumption DEF FailJob, Release, MayReport, AfterFailure, WorkerInv, Executing, TypeOK, rowVars, workerVars
  <1>12. ASSUME NEW w \in Worker, Heartbeat(w) PROVE WorkerInv'
    BY <1>12, QueueAssumption DEF Heartbeat, Beating, MayReport, WorkerInv, Executing, TypeOK, rowVars, workerVars
  <1>13. ASSUME NEW w \in Worker, ReportLost(w) PROVE WorkerInv'
    BY <1>13, QueueAssumption DEF ReportLost, Release, WorkerInv, Executing, TypeOK, rowVars, workerVars
  <1>14. ASSUME NEW w \in Worker, StopRequested(w) PROVE WorkerInv'
    BY <1>14, QueueAssumption DEF StopRequested, WorkerInv, Executing, TypeOK, rowVars, workerVars
  <1>15. ASSUME NEW w \in Worker, StopTimesOut(w) PROVE WorkerInv'
    BY <1>15, QueueAssumption DEF StopTimesOut, WorkerInv, Executing, TypeOK, rowVars, workerVars
  <1>16. ASSUME NEW w \in Worker, ProcessExit(w) PROVE WorkerInv'
    BY <1>16, QueueAssumption DEF ProcessExit, Off, WorkerInv, Executing, TypeOK, rowVars, workerVars
  <1>17. ASSUME NEW w \in Worker, Crash(w) PROVE WorkerInv'
    BY <1>17, QueueAssumption DEF Crash, Off, WorkerInv, Executing, TypeOK, rowVars, workerVars
  <1>18. ASSUME NEW w \in Worker, Restart(w) PROVE WorkerInv'
    BY <1>18, QueueAssumption DEF Restart, WorkerInv, Executing, TypeOK, rowVars, workerVars
  <1>19. ASSUME NEW s \in Workspace, DeleteWorkspace(s) PROVE WorkerInv'
    BY <1>19, QueueAssumption DEF DeleteWorkspace, WorkerInv, Executing, TypeOK, rowVars, workerVars
  <1>20. ASSUME Tick PROVE WorkerInv'
    BY <1>20, QueueAssumption DEF Tick, WorkerInv, Executing, TypeOK, rowVars, workerVars
  <1>21. ASSUME UNCHANGED vars PROVE WorkerInv'
    BY <1>21 DEF vars, WorkerInv, Executing, TypeOK, rowVars, workerVars
  <1>22. QED
    BY <1>1, <1>2, <1>3, <1>4, <1>5, <1>6, <1>7, <1>8, <1>9, <1>10, <1>11, <1>12, <1>13, <1>14, <1>15, <1>16, <1>17, <1>18, <1>19, <1>20, <1>21 DEF Next, WorkerStep

\* No step takes a row from the worker that executes it, if no worker is
\* silent for as long as the staleness threshold.
LEMMA OwnStep ==
    ASSUME MaxSilence < Stale, TypeOK, KeyInv, WorkerInv, OwnInv, Next \/ UNCHANGED vars
    PROVE  OwnInv'
  <1>1. ASSUME NEW j \in Job, NEW k \in Key, EnqueueJob(j, k) PROVE OwnInv'
    BY <1>1, QueueAssumption DEF EnqueueJob, ActiveConflict, OwnInv, WorkerInv, Executing, TypeOK, JobWs, rowVars, workerVars
  <1>2. ASSUME NEW j \in Job, BackoffElapses(j) PROVE OwnInv'
    BY <1>2, QueueAssumption DEF BackoffElapses, JobWs, OwnInv, WorkerInv, Executing, TypeOK, rowVars, workerVars
  <1>3. ASSUME NEW w \in Worker, BeginTick(w) PROVE OwnInv'
    BY <1>3, QueueAssumption DEF BeginTick, OwnInv, WorkerInv, Executing, TypeOK, JobWs, rowVars, workerVars
  <1>4. ASSUME NEW w \in Worker, EndTick(w) PROVE OwnInv'
    BY <1>4, QueueAssumption DEF EndTick, OwnInv, WorkerInv, Executing, TypeOK, JobWs, rowVars, workerVars
  <1>5. ASSUME NEW w \in Worker, NEW s \in Workspace, RequeueStale(w, s) PROVE OwnInv'
    <2>1. ASSUME NEW v \in Worker, Executing(v)
          PROVE  job[v] \in Job /\ job[v] \notin StaleRows(s)
      BY <1>5, <2>1, QueueAssumption, SMTT(60)
         DEF RequeueStale, StaleRows, JobWs, OwnInv, WorkerInv, TypeOK
    <2>2. QED
      BY <1>5, <2>1 DEF RequeueStale, OwnInv, Executing, TypeOK
  <1>6. ASSUME NEW w \in Worker, NEW s \in Workspace, SkipDeleted(w, s) PROVE OwnInv'
    BY <1>6, QueueAssumption DEF SkipDeleted, OwnInv, WorkerInv, Executing, TypeOK, JobWs, rowVars, workerVars
  <1>7. ASSUME NEW w \in Worker, ClaimNextJob(w) PROVE OwnInv'
    BY <1>7, QueueAssumption, SMTT(60) DEF ClaimNextJob, OwnInv, WorkerInv, Executing, TypeOK, JobWs, rowVars, workerVars
  <1>8. ASSUME NEW w \in Worker, NothingToClaim(w) PROVE OwnInv'
    BY <1>8, QueueAssumption DEF NothingToClaim, OwnInv, WorkerInv, Executing, TypeOK, JobWs, rowVars, workerVars
  <1>9. ASSUME NEW w \in Worker, NEW ok \in BOOLEAN, HandlerEnds(w, ok) PROVE OwnInv'
    BY <1>9, QueueAssumption DEF HandlerEnds, OwnInv, WorkerInv, Executing, TypeOK, JobWs, rowVars, workerVars
  <1>10. ASSUME NEW w \in Worker, CompleteJob(w) PROVE OwnInv'
    BY <1>10, QueueAssumption DEF CompleteJob, Release, MayReport, OwnInv, WorkerInv, Executing, TypeOK, JobWs, rowVars, workerVars
  <1>11. ASSUME NEW w \in Worker, FailJob(w) PROVE OwnInv'
    BY <1>11, QueueAssumption DEF FailJob, Release, MayReport, AfterFailure, OwnInv, WorkerInv, Executing, TypeOK, JobWs, rowVars, workerVars
  <1>12. ASSUME NEW w \in Worker, Heartbeat(w) PROVE OwnInv'
    BY <1>12, QueueAssumption DEF Heartbeat, Beating, MayReport, OwnInv, WorkerInv, Executing, TypeOK, JobWs, rowVars, workerVars
  <1>13. ASSUME NEW w \in Worker, ReportLost(w) PROVE OwnInv'
    BY <1>13, QueueAssumption DEF ReportLost, Release, OwnInv, WorkerInv, Executing, TypeOK, JobWs, rowVars, workerVars
  <1>14. ASSUME NEW w \in Worker, StopRequested(w) PROVE OwnInv'
    BY <1>14, QueueAssumption DEF StopRequested, OwnInv, WorkerInv, Executing, TypeOK, JobWs, rowVars, workerVars
  <1>15. ASSUME NEW w \in Worker, StopTimesOut(w) PROVE OwnInv'
    BY <1>15, QueueAssumption DEF StopTimesOut, OwnInv, WorkerInv, Executing, TypeOK, JobWs, rowVars, workerVars
  <1>16. ASSUME NEW w \in Worker, ProcessExit(w) PROVE OwnInv'
    BY <1>16, QueueAssumption DEF ProcessExit, Off, OwnInv, WorkerInv, Executing, TypeOK, JobWs, rowVars, workerVars
  <1>17. ASSUME NEW w \in Worker, Crash(w) PROVE OwnInv'
    BY <1>17, QueueAssumption DEF Crash, Off, OwnInv, WorkerInv, Executing, TypeOK, JobWs, rowVars, workerVars
  <1>18. ASSUME NEW w \in Worker, Restart(w) PROVE OwnInv'
    BY <1>18, QueueAssumption DEF Restart, OwnInv, WorkerInv, Executing, TypeOK, JobWs, rowVars, workerVars
  <1>19. ASSUME NEW s \in Workspace, DeleteWorkspace(s) PROVE OwnInv'
    BY <1>19, QueueAssumption DEF DeleteWorkspace, OwnInv, WorkerInv, Executing, TypeOK, JobWs, rowVars, workerVars
  <1>20. ASSUME Tick PROVE OwnInv'
    BY <1>20, QueueAssumption DEF Tick, OwnInv, WorkerInv, Executing, TypeOK, JobWs, rowVars, workerVars
  <1>21. ASSUME UNCHANGED vars PROVE OwnInv'
    BY <1>21 DEF vars, OwnInv, WorkerInv, Executing, TypeOK, JobWs, rowVars, workerVars
  <1>22. QED
    BY <1>1, <1>2, <1>3, <1>4, <1>5, <1>6, <1>7, <1>8, <1>9, <1>10, <1>11, <1>12, <1>13, <1>14, <1>15, <1>16, <1>17, <1>18, <1>19, <1>20, <1>21 DEF Next, WorkerStep

\* No step makes a second active row for a key.
LEMMA OneActiveStep ==
    ASSUME TypeOK, KeyInv, WorkerInv, OneActivePerKey, Next \/ UNCHANGED vars
    PROVE  OneActivePerKey'
  <1>1. ASSUME NEW j \in Job, NEW k \in Key, EnqueueJob(j, k) PROVE OneActivePerKey'
    BY <1>1, QueueAssumption DEF EnqueueJob, ActiveConflict, OneActivePerKey, Active, StaleRows, WorkerInv, Executing, TypeOK, rowVars, workerVars
  <1>2. ASSUME NEW j \in Job, BackoffElapses(j) PROVE OneActivePerKey'
    BY <1>2, QueueAssumption DEF BackoffElapses, JobWs, OneActivePerKey, Active, StaleRows, WorkerInv, Executing, TypeOK, rowVars, workerVars
  <1>3. ASSUME NEW w \in Worker, BeginTick(w) PROVE OneActivePerKey'
    BY <1>3, QueueAssumption DEF BeginTick, OneActivePerKey, Active, StaleRows, WorkerInv, Executing, TypeOK, rowVars, workerVars
  <1>4. ASSUME NEW w \in Worker, EndTick(w) PROVE OneActivePerKey'
    BY <1>4, QueueAssumption DEF EndTick, OneActivePerKey, Active, StaleRows, WorkerInv, Executing, TypeOK, rowVars, workerVars
  <1>5. ASSUME NEW w \in Worker, NEW s \in Workspace, RequeueStale(w, s) PROVE OneActivePerKey'
    BY <1>5, QueueAssumption DEF RequeueStale, OneActivePerKey, Active, StaleRows, WorkerInv, Executing, TypeOK, rowVars, workerVars
  <1>6. ASSUME NEW w \in Worker, NEW s \in Workspace, SkipDeleted(w, s) PROVE OneActivePerKey'
    BY <1>6, QueueAssumption DEF SkipDeleted, OneActivePerKey, Active, StaleRows, WorkerInv, Executing, TypeOK, rowVars, workerVars
  <1>7. ASSUME NEW w \in Worker, ClaimNextJob(w) PROVE OneActivePerKey'
    BY <1>7, QueueAssumption DEF ClaimNextJob, OneActivePerKey, Active, StaleRows, WorkerInv, Executing, TypeOK, rowVars, workerVars
  <1>8. ASSUME NEW w \in Worker, NothingToClaim(w) PROVE OneActivePerKey'
    BY <1>8, QueueAssumption DEF NothingToClaim, OneActivePerKey, Active, StaleRows, WorkerInv, Executing, TypeOK, rowVars, workerVars
  <1>9. ASSUME NEW w \in Worker, NEW ok \in BOOLEAN, HandlerEnds(w, ok) PROVE OneActivePerKey'
    BY <1>9, QueueAssumption DEF HandlerEnds, OneActivePerKey, Active, StaleRows, WorkerInv, Executing, TypeOK, rowVars, workerVars
  <1>10. ASSUME NEW w \in Worker, CompleteJob(w) PROVE OneActivePerKey'
    BY <1>10, QueueAssumption DEF CompleteJob, Release, MayReport, OneActivePerKey, Active, StaleRows, WorkerInv, Executing, TypeOK, rowVars, workerVars
  <1>11. ASSUME NEW w \in Worker, FailJob(w) PROVE OneActivePerKey'
    BY <1>11, QueueAssumption DEF FailJob, Release, MayReport, AfterFailure, OneActivePerKey, Active, StaleRows, WorkerInv, Executing, TypeOK, rowVars, workerVars
  <1>12. ASSUME NEW w \in Worker, Heartbeat(w) PROVE OneActivePerKey'
    BY <1>12, QueueAssumption DEF Heartbeat, Beating, MayReport, OneActivePerKey, Active, StaleRows, WorkerInv, Executing, TypeOK, rowVars, workerVars
  <1>13. ASSUME NEW w \in Worker, ReportLost(w) PROVE OneActivePerKey'
    BY <1>13, QueueAssumption DEF ReportLost, Release, OneActivePerKey, Active, StaleRows, WorkerInv, Executing, TypeOK, rowVars, workerVars
  <1>14. ASSUME NEW w \in Worker, StopRequested(w) PROVE OneActivePerKey'
    BY <1>14, QueueAssumption DEF StopRequested, OneActivePerKey, Active, StaleRows, WorkerInv, Executing, TypeOK, rowVars, workerVars
  <1>15. ASSUME NEW w \in Worker, StopTimesOut(w) PROVE OneActivePerKey'
    BY <1>15, QueueAssumption DEF StopTimesOut, OneActivePerKey, Active, StaleRows, WorkerInv, Executing, TypeOK, rowVars, workerVars
  <1>16. ASSUME NEW w \in Worker, ProcessExit(w) PROVE OneActivePerKey'
    BY <1>16, QueueAssumption DEF ProcessExit, Off, OneActivePerKey, Active, StaleRows, WorkerInv, Executing, TypeOK, rowVars, workerVars
  <1>17. ASSUME NEW w \in Worker, Crash(w) PROVE OneActivePerKey'
    BY <1>17, QueueAssumption DEF Crash, Off, OneActivePerKey, Active, StaleRows, WorkerInv, Executing, TypeOK, rowVars, workerVars
  <1>18. ASSUME NEW w \in Worker, Restart(w) PROVE OneActivePerKey'
    BY <1>18, QueueAssumption DEF Restart, OneActivePerKey, Active, StaleRows, WorkerInv, Executing, TypeOK, rowVars, workerVars
  <1>19. ASSUME NEW s \in Workspace, DeleteWorkspace(s) PROVE OneActivePerKey'
    BY <1>19, QueueAssumption DEF DeleteWorkspace, OneActivePerKey, Active, StaleRows, WorkerInv, Executing, TypeOK, rowVars, workerVars
  <1>20. ASSUME Tick PROVE OneActivePerKey'
    BY <1>20, QueueAssumption DEF Tick, OneActivePerKey, Active, StaleRows, WorkerInv, Executing, TypeOK, rowVars, workerVars
  <1>21. ASSUME UNCHANGED vars PROVE OneActivePerKey'
    BY <1>21 DEF vars, OneActivePerKey, Active, StaleRows, WorkerInv, Executing, TypeOK, rowVars, workerVars
  <1>22. QED
    BY <1>1, <1>2, <1>3, <1>4, <1>5, <1>6, <1>7, <1>8, <1>9, <1>10, <1>11, <1>12, <1>13, <1>14, <1>15, <1>16, <1>17, <1>18, <1>19, <1>20, <1>21 DEF Next, WorkerStep

\* Types, keys and the workers' bookkeeping hold in every reachable state.
THEOREM Invariance == Spec => [](TypeOK /\ KeyInv /\ WorkerInv)
  <1>1. Init => TypeOK /\ KeyInv /\ WorkerInv
    BY QueueAssumption DEF Init, TypeOK, KeyInv, WorkerInv, Executing, Status, PCs
  <1>2. TypeOK /\ KeyInv /\ WorkerInv /\ [Next]_vars => (TypeOK /\ KeyInv /\ WorkerInv)'
    BY TypeStep, KeyStep, WorkerStepInv
  <1>3. QED
    BY <1>1, <1>2, PTL DEF Spec

\* Type correctness of the queue and its workers.
THEOREM TypeCorrect == Spec => []TypeOK
  BY Invariance, PTL

\* A live worker's job is never stolen (requeue_stale_jobs's promise): if no
\* worker is silent for the staleness threshold, every executing worker holds
\* a 'running' row that is claimed by it.
THEOREM ExclusiveClaims ==
    ASSUME MaxSilence < Stale
    PROVE  Spec => []ClaimIsExclusive
  <1>1. Init => OwnInv
    BY DEF Init, OwnInv, Executing
  <1>2. TypeOK /\ KeyInv /\ WorkerInv /\ OwnInv /\ [Next]_vars => OwnInv'
    BY OwnStep
  <1>3. OwnInv => ClaimIsExclusive
    BY DEF OwnInv, ClaimIsExclusive
  <1>4. QED
    BY <1>1, <1>2, <1>3, Invariance, PTL DEF Spec

\* One job in flight per (workspace, kind, workflow), whatever heartbeats are
\* lost and whoever reports late.
THEOREM OneActive == Spec => []OneActivePerKey
  <1>1. Init => OneActivePerKey
    BY DEF Init, OneActivePerKey, Active
  <1>2. TypeOK /\ KeyInv /\ WorkerInv /\ OneActivePerKey /\ [Next]_vars => OneActivePerKey'
    BY OneActiveStep
  <1>3. QED
    BY <1>1, <1>2, Invariance, PTL DEF Spec

\* Every step keeps TriedInv.
LEMMA TriedStep ==
    ASSUME TypeOK, KeyInv, WorkerInv, TriedInv, Next \/ UNCHANGED vars
    PROVE  TriedInv'
  <1>1. ASSUME NEW j \in Job, NEW k \in Key, EnqueueJob(j, k) PROVE TriedInv'
    BY <1>1, QueueAssumption DEF EnqueueJob, ActiveConflict, TriedInv, StaleRows, WorkerInv, Executing, TypeOK, rowVars, workerVars
  <1>2. ASSUME NEW j \in Job, BackoffElapses(j) PROVE TriedInv'
    BY <1>2, QueueAssumption DEF BackoffElapses, JobWs, TriedInv, StaleRows, WorkerInv, Executing, TypeOK, rowVars, workerVars
  <1>3. ASSUME NEW w \in Worker, BeginTick(w) PROVE TriedInv'
    BY <1>3, QueueAssumption DEF BeginTick, TriedInv, StaleRows, WorkerInv, Executing, TypeOK, rowVars, workerVars
  <1>4. ASSUME NEW w \in Worker, EndTick(w) PROVE TriedInv'
    BY <1>4, QueueAssumption DEF EndTick, TriedInv, StaleRows, WorkerInv, Executing, TypeOK, rowVars, workerVars
  <1>5. ASSUME NEW w \in Worker, NEW s \in Workspace, RequeueStale(w, s) PROVE TriedInv'
    BY <1>5, QueueAssumption DEF RequeueStale, TriedInv, StaleRows, WorkerInv, Executing, TypeOK, rowVars, workerVars
  <1>6. ASSUME NEW w \in Worker, NEW s \in Workspace, SkipDeleted(w, s) PROVE TriedInv'
    BY <1>6, QueueAssumption DEF SkipDeleted, TriedInv, StaleRows, WorkerInv, Executing, TypeOK, rowVars, workerVars
  <1>7. ASSUME NEW w \in Worker, ClaimNextJob(w) PROVE TriedInv'
    BY <1>7, QueueAssumption, SMTT(60) DEF ClaimNextJob, TriedInv, StaleRows, WorkerInv, Executing, TypeOK, rowVars, workerVars
  <1>8. ASSUME NEW w \in Worker, NothingToClaim(w) PROVE TriedInv'
    BY <1>8, QueueAssumption DEF NothingToClaim, TriedInv, StaleRows, WorkerInv, Executing, TypeOK, rowVars, workerVars
  <1>9. ASSUME NEW w \in Worker, NEW ok \in BOOLEAN, HandlerEnds(w, ok) PROVE TriedInv'
    BY <1>9, QueueAssumption DEF HandlerEnds, TriedInv, StaleRows, WorkerInv, Executing, TypeOK, rowVars, workerVars
  <1>10. ASSUME NEW w \in Worker, CompleteJob(w) PROVE TriedInv'
    BY <1>10, QueueAssumption DEF CompleteJob, Release, MayReport, TriedInv, StaleRows, WorkerInv, Executing, TypeOK, rowVars, workerVars
  <1>11. ASSUME NEW w \in Worker, FailJob(w) PROVE TriedInv'
    BY <1>11, QueueAssumption DEF FailJob, Release, MayReport, AfterFailure, TriedInv, StaleRows, WorkerInv, Executing, TypeOK, rowVars, workerVars
  <1>12. ASSUME NEW w \in Worker, Heartbeat(w) PROVE TriedInv'
    BY <1>12, QueueAssumption DEF Heartbeat, Beating, MayReport, TriedInv, StaleRows, WorkerInv, Executing, TypeOK, rowVars, workerVars
  <1>13. ASSUME NEW w \in Worker, ReportLost(w) PROVE TriedInv'
    BY <1>13, QueueAssumption DEF ReportLost, Release, TriedInv, StaleRows, WorkerInv, Executing, TypeOK, rowVars, workerVars
  <1>14. ASSUME NEW w \in Worker, StopRequested(w) PROVE TriedInv'
    BY <1>14, QueueAssumption DEF StopRequested, TriedInv, StaleRows, WorkerInv, Executing, TypeOK, rowVars, workerVars
  <1>15. ASSUME NEW w \in Worker, StopTimesOut(w) PROVE TriedInv'
    BY <1>15, QueueAssumption DEF StopTimesOut, TriedInv, StaleRows, WorkerInv, Executing, TypeOK, rowVars, workerVars
  <1>16. ASSUME NEW w \in Worker, ProcessExit(w) PROVE TriedInv'
    BY <1>16, QueueAssumption DEF ProcessExit, Off, TriedInv, StaleRows, WorkerInv, Executing, TypeOK, rowVars, workerVars
  <1>17. ASSUME NEW w \in Worker, Crash(w) PROVE TriedInv'
    BY <1>17, QueueAssumption DEF Crash, Off, TriedInv, StaleRows, WorkerInv, Executing, TypeOK, rowVars, workerVars
  <1>18. ASSUME NEW w \in Worker, Restart(w) PROVE TriedInv'
    BY <1>18, QueueAssumption DEF Restart, TriedInv, StaleRows, WorkerInv, Executing, TypeOK, rowVars, workerVars
  <1>19. ASSUME NEW s \in Workspace, DeleteWorkspace(s) PROVE TriedInv'
    BY <1>19, QueueAssumption DEF DeleteWorkspace, TriedInv, StaleRows, WorkerInv, Executing, TypeOK, rowVars, workerVars
  <1>20. ASSUME Tick PROVE TriedInv'
    BY <1>20, QueueAssumption DEF Tick, TriedInv, StaleRows, WorkerInv, Executing, TypeOK, rowVars, workerVars
  <1>21. ASSUME UNCHANGED vars PROVE TriedInv'
    BY <1>21 DEF vars, TriedInv, StaleRows, WorkerInv, Executing, TypeOK, rowVars, workerVars
  <1>22. QED
    BY <1>1, <1>2, <1>3, <1>4, <1>5, <1>6, <1>7, <1>8, <1>9, <1>10, <1>11, <1>12, <1>13, <1>14, <1>15, <1>16, <1>17, <1>18, <1>19, <1>20, <1>21 DEF Next, WorkerStep

\* Each step is a step of the contract or leaves it alone.
LEMMA ContractStep ==
    ASSUME TypeOK, KeyInv, WorkerInv, TriedInv, Next \/ UNCHANGED vars
    PROVE  Contract!Next \/ UNCHANGED Contract!vars
  <1> DEFINE out == [j \in Job |-> IF status[j] \in Active THEN "pending" ELSE status[j]]
  <1> USE DEF Active
  <1>1. ASSUME NEW j \in Job, NEW k \in Key, EnqueueJob(j, k)
        PROVE  Contract!Next \/ UNCHANGED Contract!vars
    <2>1. out' = [out EXCEPT ![j] = "pending"]
      BY <1>1 DEF EnqueueJob, TypeOK
    <2>2. \A i \in Job : out[i] = "pending" => key[i] # k
      BY <1>1 DEF EnqueueJob, ActiveConflict, TypeOK, Status
    <2>3. Contract!Submit(j, k)
      BY <1>1, <2>1, <2>2 DEF EnqueueJob, Contract!Submit
    <2>4. QED
      BY <2>3 DEF Contract!Next
  <1>2. ASSUME NEW j \in Job, BackoffElapses(j)
        PROVE  Contract!Next \/ UNCHANGED Contract!vars
    BY <1>2 DEF BackoffElapses, JobWs, Contract!vars, TypeOK, rowVars, workerVars
  <1>3. ASSUME NEW w \in Worker, BeginTick(w)
        PROVE  Contract!Next \/ UNCHANGED Contract!vars
    BY <1>3 DEF BeginTick, Contract!vars, TypeOK, rowVars, workerVars
  <1>4. ASSUME NEW w \in Worker, EndTick(w)
        PROVE  Contract!Next \/ UNCHANGED Contract!vars
    BY <1>4 DEF EndTick, Contract!vars, TypeOK, rowVars, workerVars
  <1>5. ASSUME NEW w \in Worker, NEW s \in Workspace, RequeueStale(w, s)
        PROVE  Contract!Next \/ UNCHANGED Contract!vars
    BY <1>5 DEF RequeueStale, Contract!vars, StaleRows, TypeOK, rowVars, workerVars
  <1>6. ASSUME NEW w \in Worker, NEW s \in Workspace, SkipDeleted(w, s)
        PROVE  Contract!Next \/ UNCHANGED Contract!vars
    BY <1>6 DEF SkipDeleted, Contract!vars, TypeOK, rowVars, workerVars
  <1>7. ASSUME NEW w \in Worker, ClaimNextJob(w)
        PROVE  Contract!Next \/ UNCHANGED Contract!vars
    <2> DEFINE j == Head(ready[at[w]])
    <2>1. j \in Job /\ status[j] = "queued"
      BY <1>7, SeqFacts DEF ClaimNextJob, WorkerInv, TypeOK
    <2>2. /\ status' = [status EXCEPT ![j] = "running"]
          /\ attempts' = [attempts EXCEPT ![j] = IF @ < AttemptsCap THEN @ + 1 ELSE @]
          /\ key' = key
      BY <1>7 DEF ClaimNextJob
    <2> HIDE DEF j
    <2>3. out' = out
      BY <2>1, <2>2 DEF TypeOK
    <2>4. Contract!Try(j)
      BY <2>1, <2>2, <2>3 DEF Contract!Try
    <2>5. QED
      BY <2>1, <2>4 DEF Contract!Next
  <1>8. ASSUME NEW w \in Worker, NothingToClaim(w)
        PROVE  Contract!Next \/ UNCHANGED Contract!vars
    BY <1>8 DEF NothingToClaim, Contract!vars, TypeOK, rowVars, workerVars
  <1>9. ASSUME NEW w \in Worker, NEW ok \in BOOLEAN, HandlerEnds(w, ok)
        PROVE  Contract!Next \/ UNCHANGED Contract!vars
    BY <1>9 DEF HandlerEnds, Contract!vars, TypeOK, rowVars, workerVars
  <1>10. ASSUME NEW w \in Worker, CompleteJob(w)
        PROVE  Contract!Next \/ UNCHANGED Contract!vars
    <2>0. PICK j \in Job : j = job[w]
      BY <1>10 DEF CompleteJob, WorkerInv, Executing, TypeOK
    <2>1. attempts[j] \in Nat /\ MaxAttempts \in Nat
      BY QueueAssumption DEF TypeOK
    <2>2. CASE MayReport(j)
      <3>1. /\ status[j] = "running"
            /\ status' = [status EXCEPT ![j] = "succeeded"]
            /\ key' = key /\ attempts' = attempts
        BY <1>10, <2>0, <2>2 DEF CompleteJob, MayReport
      <3>2. out' = [out EXCEPT ![j] = "succeeded"]
        BY <3>1 DEF TypeOK
      <3>3. Contract!Succeed(j)
        BY <2>1, <2>2, <3>1, <3>2 DEF TriedInv, Contract!Succeed
      <3>4. QED
        BY <3>3 DEF Contract!Next
    <2>3. CASE ~(MayReport(j))
      BY <1>10, <2>0, <2>1, <2>3 DEF CompleteJob, MayReport, Contract!vars, TypeOK
    <2>4. QED
      BY <2>2, <2>3
  <1>11. ASSUME NEW w \in Worker, FailJob(w)
        PROVE  Contract!Next \/ UNCHANGED Contract!vars
    <2>0. PICK j \in Job : j = job[w]
      BY <1>11 DEF FailJob, WorkerInv, Executing, TypeOK
    <2>1. attempts[j] \in Nat /\ MaxAttempts \in Nat
      BY QueueAssumption DEF TypeOK
    <2>2. CASE MayReport(j) /\ attempts[j] >= MaxAttempts
      <3>0. AfterFailure(j) = "failed"
        BY <2>1, <2>2 DEF AfterFailure
      <3>1. /\ status[j] = "running"
            /\ status' = [status EXCEPT ![j] = "failed"]
            /\ key' = key /\ attempts' = attempts
        BY <1>11, <2>0, <2>2, <3>0 DEF FailJob, MayReport
      <3>2. out' = [out EXCEPT ![j] = "failed"]
        BY <3>1 DEF TypeOK
      <3>3. Contract!GiveUp(j)
        BY <2>1, <2>2, <3>1, <3>2 DEF TriedInv, Contract!GiveUp
      <3>4. QED
        BY <3>3 DEF Contract!Next
    <2>3. CASE ~(MayReport(j) /\ attempts[j] >= MaxAttempts)
      BY <1>11, <2>0, <2>1, <2>3 DEF FailJob, AfterFailure, MayReport, Contract!vars, TypeOK
    <2>4. QED
      BY <2>2, <2>3
  <1>12. ASSUME NEW w \in Worker, Heartbeat(w)
        PROVE  Contract!Next \/ UNCHANGED Contract!vars
    BY <1>12 DEF Heartbeat, Beating, MayReport, Contract!vars, TypeOK, rowVars, workerVars
  <1>13. ASSUME NEW w \in Worker, ReportLost(w)
        PROVE  Contract!Next \/ UNCHANGED Contract!vars
    BY <1>13 DEF ReportLost, Release, Contract!vars, TypeOK, rowVars, workerVars
  <1>14. ASSUME NEW w \in Worker, StopRequested(w)
        PROVE  Contract!Next \/ UNCHANGED Contract!vars
    BY <1>14 DEF StopRequested, Contract!vars, TypeOK, rowVars, workerVars
  <1>15. ASSUME NEW w \in Worker, StopTimesOut(w)
        PROVE  Contract!Next \/ UNCHANGED Contract!vars
    BY <1>15 DEF StopTimesOut, Contract!vars, TypeOK, rowVars, workerVars
  <1>16. ASSUME NEW w \in Worker, ProcessExit(w)
        PROVE  Contract!Next \/ UNCHANGED Contract!vars
    BY <1>16 DEF ProcessExit, Off, Contract!vars, TypeOK, rowVars, workerVars
  <1>17. ASSUME NEW w \in Worker, Crash(w)
        PROVE  Contract!Next \/ UNCHANGED Contract!vars
    BY <1>17 DEF Crash, Off, Contract!vars, TypeOK, rowVars, workerVars
  <1>18. ASSUME NEW w \in Worker, Restart(w)
        PROVE  Contract!Next \/ UNCHANGED Contract!vars
    BY <1>18 DEF Restart, Contract!vars, TypeOK, rowVars, workerVars
  <1>19. ASSUME NEW s \in Workspace, DeleteWorkspace(s)
        PROVE  Contract!Next \/ UNCHANGED Contract!vars
    BY <1>19 DEF DeleteWorkspace, Contract!vars, TypeOK, rowVars, workerVars
  <1>20. ASSUME Tick
        PROVE  Contract!Next \/ UNCHANGED Contract!vars
    BY <1>20 DEF Tick, Contract!vars, TypeOK, rowVars, workerVars
  <1>21. ASSUME UNCHANGED vars
        PROVE  UNCHANGED Contract!vars
    BY <1>21 DEF vars, Contract!vars
  <1>22. QED
    BY <1>1, <1>2, <1>3, <1>4, <1>5, <1>6, <1>7, <1>8, <1>9, <1>10, <1>11, <1>12, <1>13, <1>14, <1>15, <1>16, <1>17, <1>18, <1>19, <1>20, <1>21 DEF Next, WorkerStep

\* JobQueue implements JobContract: with any number of workers, lost
\* heartbeats, crashes and late reports, the enqueuing side sees jobs that are
\* settled once, given up only after MaxAttempts tries and never duplicated.
THEOREM Refinement == Spec => ImplementsContract
  <1>1. Init => Contract!Init /\ TriedInv
    BY DEF Init, Contract!Init, TriedInv, Active
  <1>2. TypeOK /\ KeyInv /\ WorkerInv /\ TriedInv /\ [Next]_vars => TriedInv'
    BY TriedStep
  <1>3. TypeOK /\ KeyInv /\ WorkerInv /\ TriedInv /\ [Next]_vars => [Contract!Next]_(Contract!vars)
    BY ContractStep
  <1>4. QED
    BY <1>1, <1>2, <1>3, Invariance, PTL DEF Spec, ImplementsContract, Contract!Spec

\* A settled job stays settled.
THEOREM SettledForGood == Spec => TerminalIsFinal
  <1> DEFINE Keeps == \A j \in Job : status[j] \in Terminal => status'[j] = status[j]
  <1>1. TypeOK /\ KeyInv /\ WorkerInv /\ [Next]_vars => [Keeps]_vars
    <2> SUFFICES ASSUME TypeOK, KeyInv, WorkerInv, Next PROVE Keeps
      OBVIOUS
    <2> USE QueueAssumption, SeqFacts DEF TypeOK, Terminal, rowVars, workerVars
    <2>1. ASSUME NEW j \in Job, NEW k \in Key, EnqueueJob(j, k) PROVE Keeps
      BY <2>1 DEF EnqueueJob, ActiveConflict
    <2>2. ASSUME NEW j \in Job, BackoffElapses(j) PROVE Keeps
      BY <2>2 DEF BackoffElapses, JobWs
    <2>3. ASSUME NEW w \in Worker, BeginTick(w) PROVE Keeps
      BY <2>3 DEF BeginTick
    <2>4. ASSUME NEW w \in Worker, EndTick(w) PROVE Keeps
      BY <2>4 DEF EndTick
    <2>5. ASSUME NEW w \in Worker, NEW s \in Workspace, RequeueStale(w, s) PROVE Keeps
      BY <2>5 DEF RequeueStale, StaleRows
    <2>6. ASSUME NEW w \in Worker, NEW s \in Workspace, SkipDeleted(w, s) PROVE Keeps
      BY <2>6 DEF SkipDeleted
    <2>7. ASSUME NEW w \in Worker, ClaimNextJob(w) PROVE Keeps
      BY <2>7 DEF ClaimNextJob
    <2>8. ASSUME NEW w \in Worker, NothingToClaim(w) PROVE Keeps
      BY <2>8 DEF NothingToClaim
    <2>9. ASSUME NEW w \in Worker, NEW ok \in BOOLEAN, HandlerEnds(w, ok) PROVE Keeps
      BY <2>9 DEF HandlerEnds
    <2>10. ASSUME NEW w \in Worker, CompleteJob(w) PROVE Keeps
      BY <2>10 DEF CompleteJob, Release, MayReport, WorkerInv, Executing
    <2>11. ASSUME NEW w \in Worker, FailJob(w) PROVE Keeps
      BY <2>11 DEF FailJob, Release, MayReport, AfterFailure, WorkerInv, Executing
    <2>12. ASSUME NEW w \in Worker, Heartbeat(w) PROVE Keeps
      BY <2>12 DEF Heartbeat, Beating, MayReport
    <2>13. ASSUME NEW w \in Worker, ReportLost(w) PROVE Keeps
      BY <2>13 DEF ReportLost, Release
    <2>14. ASSUME NEW w \in Worker, StopRequested(w) PROVE Keeps
      BY <2>14 DEF StopRequested
    <2>15. ASSUME NEW w \in Worker, StopTimesOut(w) PROVE Keeps
      BY <2>15 DEF StopTimesOut
    <2>16. ASSUME NEW w \in Worker, ProcessExit(w) PROVE Keeps
      BY <2>16 DEF ProcessExit, Off
    <2>17. ASSUME NEW w \in Worker, Crash(w) PROVE Keeps
      BY <2>17 DEF Crash, Off
    <2>18. ASSUME NEW w \in Worker, Restart(w) PROVE Keeps
      BY <2>18 DEF Restart
    <2>19. ASSUME NEW s \in Workspace, DeleteWorkspace(s) PROVE Keeps
      BY <2>19 DEF DeleteWorkspace
    <2>20. ASSUME Tick PROVE Keeps
      BY <2>20 DEF Tick
    <2>21. QED
      BY <2>1, <2>2, <2>3, <2>4, <2>5, <2>6, <2>7, <2>8, <2>9, <2>10, <2>11, <2>12, <2>13, <2>14, <2>15, <2>16, <2>17, <2>18, <2>19, <2>20 DEF Next, WorkerStep
  <1>2. QED
    BY <1>1, Invariance, PTL DEF Spec, TerminalIsFinal

=============================================================================
