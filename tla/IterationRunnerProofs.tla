------------------------ MODULE IterationRunnerProofs -----------------------
(***************************************************************************)
(* Theorems about IterationRunner, for any number of runs, kernel          *)
(* instances and scores, and any rounding of them.                         *)
(***************************************************************************)
EXTENDS IterationRunner, FiniteSetTheorems, TLAPS

Unseen  == {"idle", "index", "insert", "workflow", "audit", "bench", "commit"}
Working == {"started", "llm", "mark", "traces", "clusters", "best", "complete"}
GatePC  == {"workflow", "audit", "bench", "commit"}

\* Where each kind of call can be, and what its row then shows.
PcInv ==
    \A r \in Run :
        /\ KindOf[r] = "gate" => pc[r] \in GatePC \cup {"idle", "done"} /\ state[r] # "running"
        /\ pc[r] \in GatePC => KindOf[r] = "gate"
        /\ pc[r] \in Unseen => state[r] = "absent"
        /\ pc[r] \in Working => state[r] \in {"running", "sandbox-error"}
        /\ pc[r] = "commit" => plan[r] \in Decision /\ (plan[r].decision = "pass" => plan[r].score > best[r])
        /\ pc[r] \in {"traces", "clusters", "best", "complete"} => plan[r] \in Cycle
        /\ state[r] \in {"absent", "running"} => after[r] = Null

\* Of any rows, one has the largest best-ever score: Max is defined.
Afters(S) == {after[r] : r \in S} \cup {Null}
MaxInv == \A S \in SUBSET Run : \E m \in Afters(S) : \A a \in Afters(S) : a <= m

\* The rows number 0, 1, 2, ...; an index that was read may be taken by now,
\* but is not beyond the next one.
PosInv ==
    /\ IndicesArePositions
    /\ \A r \in Run : pc[r] = "insert" => idx[r] <= Cardinality(Rows)

\* The workflow's row is locked by one gate run, and not shared meanwhile.
LockInv ==
    \A r \in Run : Excludes(r) => \A q \in Run : ~Shares(q) /\ (Excludes(q) => q = r)

\* The audit chain is locked by one transaction.
ChainInv == \A q, r \in Run : HoldsChain(q) /\ HoldsChain(r) => q = r

\* Only an instance that is up has requests and jobs in flight.
ModeInv == \A r \in Run : InFlight(r) /\ KindOf[r] # "gate" => mode[ProcessOf[r]] = "up"

-----------------------------------------------------------------------------
\* A score is rounded to one that is stored as it is, and never past another.
LEMMA StoreFacts ==
    /\ Written \subseteq Score
    /\ Written \cup {Null} \subseteq Nat
    /\ \A x \in Score \cup {Null} : x \in Nat /\ Store(x) \in Written \cup {Null}
    /\ \A x \in Written \cup {Null} : Store(x) = x
    /\ \A x, y \in Score \cup {Null} : x <= y => Store(x) <= Store(y)
  <1>1. Written \subseteq Score
    BY IterationAssumption DEF Written
  <1>2. Score \subseteq Nat /\ 0 \notin Score
    BY IterationAssumption
  <1>3. \A x \in Score : Stored[x] \in Written
    BY DEF Written
  <1>4. \A x \in Written : Stored[x] = x
    BY IterationAssumption DEF Written
  <1>5. \A x, y \in Score \cup {Null} : x <= y => Store(x) <= Store(y)
    <2> SUFFICES ASSUME NEW x \in Score \cup {Null}, NEW y \in Score \cup {Null}, x <= y
                 PROVE  Store(x) <= Store(y)
      OBVIOUS
    <2>1. CASE x = Null /\ y = Null
      BY <2>1 DEF Store, Null
    <2>2. CASE x = Null /\ y # Null
      <3>1. Stored[y] \in Nat
        BY <2>2, <1>1, <1>2, <1>3
      <3>2. QED
        BY <2>2, <3>1 DEF Store, Null
    <2>3. CASE x # Null /\ y = Null
      BY <2>3, <1>2 DEF Null
    <2>4. CASE x # Null /\ y # Null
      BY <2>4, IterationAssumption DEF Store
    <2>5. QED
      BY <2>1, <2>2, <2>3, <2>4
  <1>6. QED
    BY <1>1, <1>2, <1>3, <1>4, <1>5 DEF Store, Null

\* MAX(best_ever_score_after) is a stored score, and no row exceeds it.
LEMMA BestFacts ==
    ASSUME TypeOK, MaxInv, NEW S \in SUBSET Run
    PROVE  /\ BestOf(S) \in Written \cup {Null}
           /\ \A q \in S : after[q] <= BestOf(S)
  <1> DEFINE A == Afters(S)
  <1>1. A \subseteq Nat /\ A \subseteq Written \cup {Null}
    <2>1. \A q \in S : after[q] \in Written \cup {Null}
      BY DEF TypeOK
    <2>2. A \subseteq Written \cup {Null}
      BY <2>1 DEF Afters
    <2>3. Written \cup {Null} \subseteq Nat
      BY StoreFacts
    <2> HIDE DEF A
    <2>4. QED
      BY <2>2, <2>3
  <1>2. \E m \in A : \A a \in A : m >= a
    BY <1>1 DEF MaxInv
  <1>3. Max(A) \in A /\ \A a \in A : Max(A) >= a
    <2> HIDE DEF A
    <2>1. QED
      BY <1>2 DEF Max
  <1>4. BestOf(S) = Max(A)
    BY DEF BestOf, Afters
  <1>5. Max(A) \in Nat
    BY <1>1, <1>3
  <1>6. \A q \in S : after[q] \in A
    BY DEF Afters
  <1> HIDE DEF A
  <1>7. QED
    BY <1>1, <1>3, <1>4, <1>5, <1>6

\* The number of rows, and COALESCE(MAX(iteration_index), -1) + 1 when they are
\* numbered from 0 on.
LEMMA CountFacts ==
    /\ IsFiniteSet(Rows)
    /\ Cardinality(Rows) \in Nat
    /\ Cardinality(Run) \in Nat
    /\ Cardinality(Rows) <= Cardinality(Run)
  BY IterationAssumption, FS_Subset, FS_CardinalityType DEF Rows

\* The next index is the number of rows.
LEMMA NextFacts ==
    ASSUME TypeOK, IndicesArePositions
    PROVE  NextIndex = Cardinality(Rows)
  <1> DEFINE I == {index[r] : r \in Rows}
             n == Cardinality(Rows)
  <1>1. n \in Nat /\ n <= Cardinality(Run) /\ Cardinality(Run) \in Nat
    BY CountFacts
  <1>2. I = {k \in 0..Cardinality(Run) : k < n}
    BY DEF IndicesArePositions
  <1>3. CASE Rows = {}
    BY <1>3, FS_EmptySet DEF NextIndex
  <1>4. CASE Rows # {}
    <2>1. n # 0
      BY <1>4, CountFacts, FS_EmptySet
    <2>2. n - 1 \in I /\ \A i \in I : n - 1 >= i /\ i \in Nat
      <3> HIDE DEF I, n
      <3>1. QED
        BY <1>1, <1>2, <2>1
    <2>3. Max(I) = n - 1
      <3> HIDE DEF I
      <3>1. Max(I) \in I /\ \A i \in I : Max(I) >= i
        BY <2>2 DEF Max
      <3> HIDE DEF n
      <3>2. QED
        BY <3>1, <2>2, <1>1
    <2>4. QED
      BY <1>1, <2>3, <1>4 DEF NextIndex
  <1>5. QED
    BY <1>3, <1>4


\* A gate run's decision maps to a state that is final.
LEMMA GateEnds ==
    ASSUME NEW o \in Decision
    PROVE  /\ AfterGate(o.decision) \in Ended
           /\ AfterGate(o.decision) = "gate-pass" <=> o.decision = "pass"
  BY DEF Decision, AfterGate, Ended

\* What a run or a gate writes as its best-ever score is a stored score.
LEMMA RunStores ==
    ASSUME TypeOK, PcInv, NEW r \in Run, CommitRun(r)
    PROVE  Store(Larger(best[r], plan[r].score)) \in Written \cup {Null}
  <1>1. plan[r].score \in Score
    BY DEF CommitRun, PcInv, Cycle
  <1>2. best[r] \in Score \cup {Null}
    BY StoreFacts DEF TypeOK
  <1>3. Larger(best[r], plan[r].score) \in Score \cup {Null}
    BY <1>1, <1>2 DEF Larger
  <1>4. QED
    BY <1>3, StoreFacts

LEMMA GateStores ==
    ASSUME TypeOK, PcInv, NEW r \in Run, CommitGate(r)
    PROVE  Store(NewBest(r)) \in Written \cup {Null}
  <1>1. plan[r].score \in Score \cup {Null}
    BY DEF CommitGate, PcInv, Decision
  <1>2. best[r] \in Score \cup {Null}
    BY StoreFacts DEF TypeOK
  <1>3. NewBest(r) \in Score \cup {Null}
    BY <1>1, <1>2 DEF NewBest, Larger
  <1>4. QED
    BY <1>3, StoreFacts

\* Every step keeps PcInv.
LEMMA PcStep ==
    TypeOK /\ PcInv /\ [Next]_vars => PcInv'
  <1> SUFFICES ASSUME TypeOK, PcInv, [Next]_vars
                 PROVE  PcInv'
    OBVIOUS
  <1>1. ASSUME NEW r \in Run, Start(r)
         PROVE  PcInv'
    BY <1>1 DEF PcInv, TypeOK, Unseen, Working, GatePC, PC, Start, Goto, Returns, Alive, rowVars
  <1>2. ASSUME NEW r \in Run, ReadIndex(r)
         PROVE  PcInv'
    BY <1>2 DEF PcInv, TypeOK, Unseen, Working, GatePC, PC, ReadIndex, Alive, rowVars
  <1>3. ASSUME NEW r \in Run, InsertRow(r)
         PROVE  PcInv'
    BY <1>3 DEF PcInv, TypeOK, Unseen, Working, GatePC, PC, InsertRow, Goto, Returns, Alive, rowVars
  <1>4. ASSUME NEW r \in Run, AuditStarted(r)
         PROVE  PcInv'
    BY <1>4 DEF PcInv, TypeOK, Unseen, Working, GatePC, PC, AuditStarted, Goto, Alive, rowVars
  <1>5. ASSUME NEW r \in Run, NEW cycle \in Cycle, RunLoop(r, cycle)
         PROVE  PcInv'
    BY <1>5 DEF PcInv, TypeOK, Unseen, Working, GatePC, PC, RunLoop, Alive, rowVars
  <1>6. ASSUME NEW r \in Run, LoopFails(r)
         PROVE  PcInv'
    BY <1>6 DEF PcInv, TypeOK, Unseen, Working, GatePC, PC, LoopFails, Goto, Alive, rowVars
  <1>7. ASSUME NEW r \in Run, MarkError(r)
         PROVE  PcInv'
    BY <1>7 DEF PcInv, TypeOK, Unseen, Working, GatePC, PC, MarkError, Returns, Alive, rowVars
  <1>8. ASSUME NEW r \in Run, PersistTraces(r)
         PROVE  PcInv'
    BY <1>8 DEF PcInv, TypeOK, Unseen, Working, GatePC, PC, PersistTraces, Goto, Alive, rowVars
  <1>9. ASSUME NEW r \in Run, WriteProposal(r)
         PROVE  PcInv'
    BY <1>9 DEF PcInv, TypeOK, Unseen, Working, GatePC, PC, WriteProposal, Goto, Alive, rowVars
  <1>10. ASSUME NEW r \in Run, ReadBest(r)
         PROVE  PcInv'
    BY <1>10 DEF PcInv, TypeOK, Unseen, Working, GatePC, PC, ReadBest, Alive, rowVars
  <1>11. ASSUME NEW r \in Run, CommitRun(r)
         PROVE  PcInv'
    BY <1>11 DEF PcInv, TypeOK, Unseen, Working, GatePC, PC, CommitRun, Returns, Alive, rowVars
  <1>12. ASSUME NEW r \in Run, PersistFails(r)
         PROVE  PcInv'
    BY <1>12 DEF PcInv, TypeOK, Unseen, Working, GatePC, PC, PersistFails, Goto, Alive, rowVars
  <1>13. ASSUME NEW r \in Run, FailsUnmarked(r)
         PROVE  PcInv'
    BY <1>13 DEF PcInv, TypeOK, Unseen, Working, GatePC, PC, FailsUnmarked, Returns, Alive,
       rowVars
  <1>14. ASSUME NEW r \in Run, BeginGate(r)
         PROVE  PcInv'
    BY <1>14 DEF PcInv, TypeOK, Unseen, Working, GatePC, PC, BeginGate, Goto, rowVars
  <1>15. ASSUME NEW r \in Run, LockWorkflow(r)
         PROVE  PcInv'
    BY <1>15 DEF PcInv, TypeOK, Unseen, Working, GatePC, PC, LockWorkflow, rowVars
  <1>16. ASSUME NEW r \in Run, AuditGate(r)
         PROVE  PcInv'
    BY <1>16 DEF PcInv, TypeOK, Unseen, Working, GatePC, PC, AuditGate, Goto, rowVars
  <1>17. ASSUME NEW r \in Run, NEW outcome \in Decision, RunBenchmark(r, outcome)
         PROVE  PcInv'
    BY <1>17 DEF PcInv, TypeOK, Unseen, Working, GatePC, PC, RunBenchmark, rowVars
  <1>18. ASSUME NEW r \in Run, CommitGate(r)
         PROVE  PcInv'
    <2>1. KindOf[r] = "gate" /\ plan[r] \in Decision
      BY <1>18 DEF CommitGate, PcInv, GatePC
    <2>2. AfterGate(plan[r].decision) \in Ended
      BY <2>1, GateEnds
    <2>3. state'[r] \in Ended /\ pc'[r] = "done"
      BY <1>18, <2>2 DEF CommitGate, Returns, TypeOK
    <2>4. \A q \in Run \ {r} : /\ state'[q] = state[q] /\ pc'[q] = pc[q] /\ plan'[q] = plan[q]
                               /\ best'[q] = best[q] /\ after'[q] = after[q]
      BY <1>18 DEF CommitGate, Returns, TypeOK
    <2>5. QED
      BY <2>1, <2>3, <2>4 DEF PcInv, Unseen, Working, GatePC, Ended
  <1>19. ASSUME NEW r \in Run, AbortGate(r)
         PROVE  PcInv'
    BY <1>19 DEF PcInv, TypeOK, Unseen, Working, GatePC, PC, AbortGate, Returns, rowVars
  <1>20. ASSUME NEW p \in Process, Crash(p)
         PROVE  PcInv'
    BY <1>20 DEF PcInv, TypeOK, Unseen, Working, GatePC, PC, Crash, Dies, rowVars
  <1>21. ASSUME NEW p \in Process, Boot(p)
         PROVE  PcInv'
    BY <1>21 DEF PcInv, TypeOK, Unseen, Working, GatePC, PC, Boot, rowVars, runVars
  <1>22. ASSUME NEW p \in Process, Sweep(p)
         PROVE  PcInv'
    BY <1>22 DEF PcInv, TypeOK, Unseen, Working, GatePC, PC, Sweep, rowVars, runVars, Orphans
  <1>23. ASSUME NEW p \in Process, SweepFails(p)
         PROVE  PcInv'
    BY <1>23 DEF PcInv, TypeOK, Unseen, Working, GatePC, PC, SweepFails, rowVars, runVars
  <1>24. CASE UNCHANGED vars
    BY <1>24 DEF PcInv, TypeOK, Unseen, Working, GatePC, PC, vars
  <1>25. QED
    BY <1>1, <1>2, <1>3, <1>4, <1>5, <1>6, <1>7, <1>8, <1>9, <1>10, <1>11, <1>12, <1>13, <1>14,
       <1>15, <1>16, <1>17, <1>18, <1>19, <1>20, <1>21, <1>22, <1>23, <1>24 DEF Next, Step, Fault

\* Every step keeps the types.
LEMMA TypeStep ==
    TypeOK /\ PcInv /\ MaxInv /\ PosInv /\ [Next]_vars => TypeOK'
  <1> SUFFICES ASSUME TypeOK, PcInv, MaxInv, PosInv, [Next]_vars
                 PROVE  TypeOK'
    OBVIOUS
  <1> USE DEF TypeOK, PC
  <1>1. ASSUME NEW r \in Run, Start(r)
         PROVE  TypeOK'
    BY <1>1 DEF Start, Goto, Returns, Alive, rowVars, NoPlan, Null
  <1>2. ASSUME NEW r \in Run, ReadIndex(r)
         PROVE  TypeOK'
    BY <1>2, NextFacts, CountFacts DEF ReadIndex, Alive, rowVars, PosInv
  <1>3. ASSUME NEW r \in Run, InsertRow(r)
         PROVE  TypeOK'
    BY <1>3, SMTT(60) DEF InsertRow, Goto, Returns, Alive, rowVars, NoPlan, Null, State
  <1>4. ASSUME NEW r \in Run, AuditStarted(r)
         PROVE  TypeOK'
    BY <1>4 DEF AuditStarted, Goto, Alive, rowVars
  <1>5. ASSUME NEW r \in Run, NEW cycle \in Cycle, RunLoop(r, cycle)
         PROVE  TypeOK'
    BY <1>5 DEF RunLoop, Alive, rowVars
  <1>6. ASSUME NEW r \in Run, LoopFails(r)
         PROVE  TypeOK'
    BY <1>6 DEF LoopFails, Goto, Alive, rowVars
  <1>7. ASSUME NEW r \in Run, MarkError(r)
         PROVE  TypeOK'
    BY <1>7 DEF MarkError, Returns, Alive, rowVars, NoPlan, Null, State
  <1>8. ASSUME NEW r \in Run, PersistTraces(r)
         PROVE  TypeOK'
    BY <1>8 DEF PersistTraces, Goto, Alive, rowVars
  <1>9. ASSUME NEW r \in Run, WriteProposal(r)
         PROVE  TypeOK'
    BY <1>9 DEF WriteProposal, Goto, Alive, rowVars
  <1>10. ASSUME NEW r \in Run, ReadBest(r)
         PROVE  TypeOK'
    BY <1>10, BestFacts DEF ReadBest, Alive, rowVars, BestForRunner, Rows
  <1>11. ASSUME NEW r \in Run, CommitRun(r)
         PROVE  TypeOK'
    <2>1. after' \in [Run -> Written \cup {Null}]
      BY <1>11, RunStores DEF CommitRun
    <2>2. state' \in [Run -> State] /\ before' \in [Run -> Written \cup {Null}]
      BY <1>11 DEF CommitRun, State
    <2>3. proposal' \in [Run -> BOOLEAN]
      <3>1. plan[r].edit \in BOOLEAN
        BY <1>11 DEF CommitRun, PcInv, Cycle
      <3>2. QED
        BY <1>11, <3>1 DEF CommitRun
    <2>4. QED
      BY <1>11, <2>1, <2>2, <2>3 DEF CommitRun, Returns, NoPlan, Null
  <1>12. ASSUME NEW r \in Run, PersistFails(r)
         PROVE  TypeOK'
    BY <1>12 DEF PersistFails, Goto, Alive, rowVars
  <1>13. ASSUME NEW r \in Run, FailsUnmarked(r)
         PROVE  TypeOK'
    BY <1>13, IterationAssumption DEF FailsUnmarked, Returns, Alive, rowVars, NoPlan, Null
  <1>14. ASSUME NEW r \in Run, BeginGate(r)
         PROVE  TypeOK'
    BY <1>14 DEF BeginGate, Goto, rowVars
  <1>15. ASSUME NEW r \in Run, LockWorkflow(r)
         PROVE  TypeOK'
    BY <1>15, BestFacts, NextFacts, CountFacts DEF LockWorkflow, rowVars, BestForGate, Rows, PosInv
  <1>16. ASSUME NEW r \in Run, AuditGate(r)
         PROVE  TypeOK'
    BY <1>16 DEF AuditGate, Goto, rowVars
  <1>17. ASSUME NEW r \in Run, NEW outcome \in Decision, RunBenchmark(r, outcome)
         PROVE  TypeOK'
    BY <1>17 DEF RunBenchmark, rowVars
  <1>18. ASSUME NEW r \in Run, CommitGate(r)
         PROVE  TypeOK'
    <2>1. AfterGate(plan[r].decision) \in State
      BY <1>18, GateEnds DEF CommitGate, PcInv, Ended, State
    <2>2. QED
      BY <1>18, <2>1, GateStores DEF CommitGate, Returns, rowVars, NoPlan, Null
  <1>19. ASSUME NEW r \in Run, AbortGate(r)
         PROVE  TypeOK'
    BY <1>19 DEF AbortGate, Returns, rowVars, NoPlan, Null
  <1>20. ASSUME NEW p \in Process, Crash(p)
         PROVE  TypeOK'
    BY <1>20, IterationAssumption DEF Crash, Dies, rowVars, NoPlan, Null
  <1>21. ASSUME NEW p \in Process, Boot(p)
         PROVE  TypeOK'
    BY <1>21 DEF Boot, rowVars, runVars
  <1>22. ASSUME NEW p \in Process, Sweep(p)
         PROVE  TypeOK'
    BY <1>22 DEF Sweep, rowVars, runVars, State, Orphans
  <1>23. ASSUME NEW p \in Process, SweepFails(p)
         PROVE  TypeOK'
    BY <1>23, IterationAssumption DEF SweepFails, rowVars, runVars
  <1>24. CASE UNCHANGED vars
    BY <1>24 DEF vars
  <1>25. QED
    BY <1>1, <1>2, <1>3, <1>4, <1>5, <1>6, <1>7, <1>8, <1>9, <1>10, <1>11, <1>12, <1>13, <1>14,
       <1>15, <1>16, <1>17, <1>18, <1>19, <1>20, <1>21, <1>22, <1>23, <1>24 DEF Next, Step, Fault

\* Every step keeps the locks of the workflow's row exclusive.
LEMMA LockStep ==
    TypeOK /\ PcInv /\ LockInv /\ [Next]_vars => LockInv'
  <1> SUFFICES ASSUME TypeOK, PcInv, LockInv, [Next]_vars
                 PROVE  LockInv'
    OBVIOUS
  <1> USE DEF LockInv, TypeOK, Excludes, Shares
  <1>1. ASSUME NEW r \in Run, Start(r)
         PROVE  LockInv'
    BY <1>1 DEF Start, Goto, Returns, Alive, rowVars
  <1>2. ASSUME NEW r \in Run, ReadIndex(r)
         PROVE  LockInv'
    BY <1>2 DEF ReadIndex, Alive, rowVars
  <1>3. ASSUME NEW r \in Run, InsertRow(r)
         PROVE  LockInv'
    BY <1>3 DEF InsertRow, Goto, Returns, Alive, rowVars
  <1>4. ASSUME NEW r \in Run, AuditStarted(r)
         PROVE  LockInv'
    BY <1>4 DEF AuditStarted, Goto, Alive, rowVars
  <1>5. ASSUME NEW r \in Run, NEW cycle \in Cycle, RunLoop(r, cycle)
         PROVE  LockInv'
    BY <1>5 DEF RunLoop, Alive, rowVars
  <1>6. ASSUME NEW r \in Run, LoopFails(r)
         PROVE  LockInv'
    BY <1>6 DEF LoopFails, Goto, Alive, rowVars
  <1>7. ASSUME NEW r \in Run, MarkError(r)
         PROVE  LockInv'
    BY <1>7 DEF MarkError, Returns, Alive, rowVars
  <1>8. ASSUME NEW r \in Run, PersistTraces(r)
         PROVE  LockInv'
    BY <1>8 DEF PersistTraces, Goto, Alive, rowVars, WorkflowUnlocked
  <1>9. ASSUME NEW r \in Run, WriteProposal(r)
         PROVE  LockInv'
    BY <1>9 DEF WriteProposal, Goto, Alive, rowVars
  <1>10. ASSUME NEW r \in Run, ReadBest(r)
         PROVE  LockInv'
    BY <1>10 DEF ReadBest, Alive, rowVars
  <1>11. ASSUME NEW r \in Run, CommitRun(r)
         PROVE  LockInv'
    BY <1>11 DEF CommitRun, Returns, Alive, rowVars
  <1>12. ASSUME NEW r \in Run, PersistFails(r)
         PROVE  LockInv'
    BY <1>12 DEF PersistFails, Goto, Alive, rowVars
  <1>13. ASSUME NEW r \in Run, FailsUnmarked(r)
         PROVE  LockInv'
    BY <1>13 DEF FailsUnmarked, Returns, Alive, rowVars
  <1>14. ASSUME NEW r \in Run, BeginGate(r)
         PROVE  LockInv'
    BY <1>14 DEF BeginGate, Goto, rowVars
  <1>15. ASSUME NEW r \in Run, LockWorkflow(r)
         PROVE  LockInv'
    BY <1>15 DEF LockWorkflow, rowVars, WorkflowUnlocked, PcInv, GatePC
  <1>16. ASSUME NEW r \in Run, AuditGate(r)
         PROVE  LockInv'
    BY <1>16 DEF AuditGate, Goto, rowVars, PcInv, GatePC
  <1>17. ASSUME NEW r \in Run, NEW outcome \in Decision, RunBenchmark(r, outcome)
         PROVE  LockInv'
    BY <1>17 DEF RunBenchmark, rowVars, PcInv, GatePC
  <1>18. ASSUME NEW r \in Run, CommitGate(r)
         PROVE  LockInv'
    BY <1>18 DEF CommitGate, Returns, rowVars
  <1>19. ASSUME NEW r \in Run, AbortGate(r)
         PROVE  LockInv'
    BY <1>19 DEF AbortGate, Returns, rowVars
  <1>20. ASSUME NEW p \in Process, Crash(p)
         PROVE  LockInv'
    BY <1>20 DEF Crash, Dies, rowVars, InFlight
  <1>21. ASSUME NEW p \in Process, Boot(p)
         PROVE  LockInv'
    BY <1>21 DEF Boot, rowVars, runVars
  <1>22. ASSUME NEW p \in Process, Sweep(p)
         PROVE  LockInv'
    BY <1>22 DEF Sweep, rowVars, runVars
  <1>23. ASSUME NEW p \in Process, SweepFails(p)
         PROVE  LockInv'
    BY <1>23 DEF SweepFails, rowVars, runVars
  <1>24. CASE UNCHANGED vars
    BY <1>24 DEF vars
  <1>25. QED
    BY <1>1, <1>2, <1>3, <1>4, <1>5, <1>6, <1>7, <1>8, <1>9, <1>10, <1>11, <1>12, <1>13, <1>14,
       <1>15, <1>16, <1>17, <1>18, <1>19, <1>20, <1>21, <1>22, <1>23, <1>24 DEF Next, Step, Fault

\* Every step keeps the lock of the audit chain exclusive.
LEMMA ChainStep ==
    TypeOK /\ PcInv /\ ChainInv /\ [Next]_vars => ChainInv'
  <1> SUFFICES ASSUME TypeOK, PcInv, ChainInv, [Next]_vars
                 PROVE  ChainInv'
    OBVIOUS
  <1> USE DEF ChainInv, TypeOK, HoldsChain
  <1>1. ASSUME NEW r \in Run, Start(r)
         PROVE  ChainInv'
    BY <1>1 DEF Start, Goto, Returns, Alive, rowVars
  <1>2. ASSUME NEW r \in Run, ReadIndex(r)
         PROVE  ChainInv'
    BY <1>2 DEF ReadIndex, Alive, rowVars
  <1>3. ASSUME NEW r \in Run, InsertRow(r)
         PROVE  ChainInv'
    BY <1>3 DEF InsertRow, Goto, Returns, Alive, rowVars
  <1>4. ASSUME NEW r \in Run, AuditStarted(r)
         PROVE  ChainInv'
    BY <1>4 DEF AuditStarted, Goto, Alive, rowVars
  <1>5. ASSUME NEW r \in Run, NEW cycle \in Cycle, RunLoop(r, cycle)
         PROVE  ChainInv'
    BY <1>5 DEF RunLoop, Alive, rowVars
  <1>6. ASSUME NEW r \in Run, LoopFails(r)
         PROVE  ChainInv'
    BY <1>6 DEF LoopFails, Goto, Alive, rowVars
  <1>7. ASSUME NEW r \in Run, MarkError(r)
         PROVE  ChainInv'
    BY <1>7 DEF MarkError, Returns, Alive, rowVars
  <1>8. ASSUME NEW r \in Run, PersistTraces(r)
         PROVE  ChainInv'
    BY <1>8 DEF PersistTraces, Goto, Alive, rowVars
  <1>9. ASSUME NEW r \in Run, WriteProposal(r)
         PROVE  ChainInv'
    BY <1>9 DEF WriteProposal, Goto, Alive, rowVars, ChainFree
  <1>10. ASSUME NEW r \in Run, ReadBest(r)
         PROVE  ChainInv'
    BY <1>10 DEF ReadBest, Alive, rowVars
  <1>11. ASSUME NEW r \in Run, CommitRun(r)
         PROVE  ChainInv'
    BY <1>11 DEF CommitRun, Returns, Alive, rowVars
  <1>12. ASSUME NEW r \in Run, PersistFails(r)
         PROVE  ChainInv'
    BY <1>12 DEF PersistFails, Goto, Alive, rowVars
  <1>13. ASSUME NEW r \in Run, FailsUnmarked(r)
         PROVE  ChainInv'
    BY <1>13 DEF FailsUnmarked, Returns, Alive, rowVars
  <1>14. ASSUME NEW r \in Run, BeginGate(r)
         PROVE  ChainInv'
    BY <1>14 DEF BeginGate, Goto, rowVars
  <1>15. ASSUME NEW r \in Run, LockWorkflow(r)
         PROVE  ChainInv'
    BY <1>15 DEF LockWorkflow, rowVars
  <1>16. ASSUME NEW r \in Run, AuditGate(r)
         PROVE  ChainInv'
    BY <1>16 DEF AuditGate, Goto, rowVars, ChainFree
  <1>17. ASSUME NEW r \in Run, NEW outcome \in Decision, RunBenchmark(r, outcome)
         PROVE  ChainInv'
    BY <1>17 DEF RunBenchmark, rowVars
  <1>18. ASSUME NEW r \in Run, CommitGate(r)
         PROVE  ChainInv'
    BY <1>18 DEF CommitGate, Returns, rowVars
  <1>19. ASSUME NEW r \in Run, AbortGate(r)
         PROVE  ChainInv'
    BY <1>19 DEF AbortGate, Returns, rowVars
  <1>20. ASSUME NEW p \in Process, Crash(p)
         PROVE  ChainInv'
    BY <1>20 DEF Crash, Dies, rowVars, InFlight
  <1>21. ASSUME NEW p \in Process, Boot(p)
         PROVE  ChainInv'
    BY <1>21 DEF Boot, rowVars, runVars
  <1>22. ASSUME NEW p \in Process, Sweep(p)
         PROVE  ChainInv'
    BY <1>22 DEF Sweep, rowVars, runVars
  <1>23. ASSUME NEW p \in Process, SweepFails(p)
         PROVE  ChainInv'
    BY <1>23 DEF SweepFails, rowVars, runVars
  <1>24. CASE UNCHANGED vars
    BY <1>24 DEF vars
  <1>25. QED
    BY <1>1, <1>2, <1>3, <1>4, <1>5, <1>6, <1>7, <1>8, <1>9, <1>10, <1>11, <1>12, <1>13, <1>14,
       <1>15, <1>16, <1>17, <1>18, <1>19, <1>20, <1>21, <1>22, <1>23, <1>24 DEF Next, Step, Fault

\* Every step keeps ModeInv.
LEMMA ModeStep ==
    TypeOK /\ PcInv /\ ModeInv /\ [Next]_vars => ModeInv'
  <1> SUFFICES ASSUME TypeOK, PcInv, ModeInv, [Next]_vars
                 PROVE  ModeInv'
    OBVIOUS
  <1> USE DEF ModeInv, TypeOK, InFlight
  <1>1. ASSUME NEW r \in Run, Start(r)
         PROVE  ModeInv'
    BY <1>1 DEF Start, Goto, Returns, Alive, rowVars
  <1>2. ASSUME NEW r \in Run, ReadIndex(r)
         PROVE  ModeInv'
    BY <1>2 DEF ReadIndex, Alive, rowVars
  <1>3. ASSUME NEW r \in Run, InsertRow(r)
         PROVE  ModeInv'
    BY <1>3 DEF InsertRow, Goto, Returns, Alive, rowVars
  <1>4. ASSUME NEW r \in Run, AuditStarted(r)
         PROVE  ModeInv'
    BY <1>4 DEF AuditStarted, Goto, Alive, rowVars
  <1>5. ASSUME NEW r \in Run, NEW cycle \in Cycle, RunLoop(r, cycle)
         PROVE  ModeInv'
    BY <1>5 DEF RunLoop, Alive, rowVars
  <1>6. ASSUME NEW r \in Run, LoopFails(r)
         PROVE  ModeInv'
    BY <1>6 DEF LoopFails, Goto, Alive, rowVars
  <1>7. ASSUME NEW r \in Run, MarkError(r)
         PROVE  ModeInv'
    BY <1>7 DEF MarkError, Returns, Alive, rowVars
  <1>8. ASSUME NEW r \in Run, PersistTraces(r)
         PROVE  ModeInv'
    BY <1>8 DEF PersistTraces, Goto, Alive, rowVars
  <1>9. ASSUME NEW r \in Run, WriteProposal(r)
         PROVE  ModeInv'
    BY <1>9 DEF WriteProposal, Goto, Alive, rowVars
  <1>10. ASSUME NEW r \in Run, ReadBest(r)
         PROVE  ModeInv'
    BY <1>10 DEF ReadBest, Alive, rowVars
  <1>11. ASSUME NEW r \in Run, CommitRun(r)
         PROVE  ModeInv'
    BY <1>11 DEF CommitRun, Returns, Alive, rowVars
  <1>12. ASSUME NEW r \in Run, PersistFails(r)
         PROVE  ModeInv'
    BY <1>12 DEF PersistFails, Goto, Alive, rowVars
  <1>13. ASSUME NEW r \in Run, FailsUnmarked(r)
         PROVE  ModeInv'
    BY <1>13 DEF FailsUnmarked, Returns, Alive, rowVars
  <1>14. ASSUME NEW r \in Run, BeginGate(r)
         PROVE  ModeInv'
    BY <1>14 DEF BeginGate, Goto, rowVars
  <1>15. ASSUME NEW r \in Run, LockWorkflow(r)
         PROVE  ModeInv'
    BY <1>15 DEF LockWorkflow, rowVars, PcInv, GatePC
  <1>16. ASSUME NEW r \in Run, AuditGate(r)
         PROVE  ModeInv'
    BY <1>16 DEF AuditGate, Goto, rowVars, PcInv, GatePC
  <1>17. ASSUME NEW r \in Run, NEW outcome \in Decision, RunBenchmark(r, outcome)
         PROVE  ModeInv'
    BY <1>17 DEF RunBenchmark, rowVars, PcInv, GatePC
  <1>18. ASSUME NEW r \in Run, CommitGate(r)
         PROVE  ModeInv'
    BY <1>18 DEF CommitGate, Returns, rowVars
  <1>19. ASSUME NEW r \in Run, AbortGate(r)
         PROVE  ModeInv'
    BY <1>19 DEF AbortGate, Returns, rowVars
  <1>20. ASSUME NEW p \in Process, Crash(p)
         PROVE  ModeInv'
    BY <1>20 DEF Crash, Dies, rowVars
  <1>21. ASSUME NEW p \in Process, Boot(p)
         PROVE  ModeInv'
    BY <1>21 DEF Boot, rowVars, runVars
  <1>22. ASSUME NEW p \in Process, Sweep(p)
         PROVE  ModeInv'
    BY <1>22 DEF Sweep, rowVars, runVars
  <1>23. ASSUME NEW p \in Process, SweepFails(p)
         PROVE  ModeInv'
    BY <1>23 DEF SweepFails, rowVars, runVars
  <1>24. CASE UNCHANGED vars
    BY <1>24 DEF vars
  <1>25. QED
    BY <1>1, <1>2, <1>3, <1>4, <1>5, <1>6, <1>7, <1>8, <1>9, <1>10, <1>11, <1>12, <1>13, <1>14,
       <1>15, <1>16, <1>17, <1>18, <1>19, <1>20, <1>21, <1>22, <1>23, <1>24 DEF Next, Step, Fault


\* One new score leaves a largest one.
LEMMA MaxUpdate ==
    ASSUME TypeOK, MaxInv, NEW r \in Run, NEW x \in Nat, after' = [after EXCEPT ![r] = x]
    PROVE  MaxInv'
  <1> SUFFICES ASSUME NEW S \in SUBSET Run
               PROVE  \E m \in Afters(S)' : \A a \in Afters(S)' : a <= m
    BY DEF MaxInv
  <1>1. \A q \in Run : after[q] \in Nat
    <2>1. \A q \in Run : after[q] \in Written \cup {Null}
      BY DEF TypeOK
    <2>2. Written \cup {Null} \subseteq Nat
      BY StoreFacts
    <2>3. QED
      BY <2>1, <2>2
  <1>2. \A q \in Run : after'[q] = IF q = r THEN x ELSE after[q]
    BY DEF TypeOK
  <1>3. CASE r \notin S
    <2>1. Afters(S)' = Afters(S)
      BY <1>2, <1>3 DEF Afters
    <2>2. QED
      BY <2>1 DEF MaxInv
  <1>4. CASE r \in S
    <2> DEFINE T == S \ {r}
    <2>1. Afters(S)' = Afters(T) \cup {x}
      BY <1>2, <1>4 DEF Afters
    <2>2. T \in SUBSET Run
      OBVIOUS
    <2> HIDE DEF T
    <2>3. PICK m \in Afters(T) : \A a \in Afters(T) : a <= m
      BY <2>2 DEF MaxInv
    <2>4. Afters(T) \subseteq Nat
      BY <1>1, <2>2 DEF Afters, Null
    <2>5. CASE m <= x
      <3>1. \A a \in Afters(T) : a <= x
        BY <2>3, <2>4, <2>5
      <3>2. QED
        BY <2>1, <3>1
    <2>6. CASE ~(m <= x)
      <3>1. x <= m
        BY <2>4, <2>6
      <3>2. QED
        BY <2>1, <2>3, <3>1
    <2>7. QED
      BY <2>5, <2>6
  <1>5. QED
    BY <1>3, <1>4

\* Only the commits of a run and of a gate write a best-ever score.
KeepsAfter ==
    after' = after \/ \E r \in Run : CommitRun(r) \/ CommitGate(r)

\* No other step writes one.
LEMMA AfterKept ==
    TypeOK /\ [Next]_vars => KeepsAfter
  <1> SUFFICES ASSUME TypeOK, [Next]_vars
                 PROVE  KeepsAfter
    OBVIOUS
  <1> USE DEF KeepsAfter
  <1>1. ASSUME NEW r \in Run, Start(r)
         PROVE  KeepsAfter
    BY <1>1 DEF Start, Goto, Returns, Alive, rowVars
  <1>2. ASSUME NEW r \in Run, ReadIndex(r)
         PROVE  KeepsAfter
    BY <1>2 DEF ReadIndex, Alive, rowVars
  <1>3. ASSUME NEW r \in Run, InsertRow(r)
         PROVE  KeepsAfter
    BY <1>3 DEF InsertRow, Goto, Returns, Alive, rowVars
  <1>4. ASSUME NEW r \in Run, AuditStarted(r)
         PROVE  KeepsAfter
    BY <1>4 DEF AuditStarted, Goto, Alive, rowVars
  <1>5. ASSUME NEW r \in Run, NEW cycle \in Cycle, RunLoop(r, cycle)
         PROVE  KeepsAfter
    BY <1>5 DEF RunLoop, Alive, rowVars
  <1>6. ASSUME NEW r \in Run, LoopFails(r)
         PROVE  KeepsAfter
    BY <1>6 DEF LoopFails, Goto, Alive, rowVars
  <1>7. ASSUME NEW r \in Run, MarkError(r)
         PROVE  KeepsAfter
    BY <1>7 DEF MarkError, Returns, Alive, rowVars
  <1>8. ASSUME NEW r \in Run, PersistTraces(r)
         PROVE  KeepsAfter
    BY <1>8 DEF PersistTraces, Goto, Alive, rowVars
  <1>9. ASSUME NEW r \in Run, WriteProposal(r)
         PROVE  KeepsAfter
    BY <1>9 DEF WriteProposal, Goto, Alive, rowVars
  <1>10. ASSUME NEW r \in Run, ReadBest(r)
         PROVE  KeepsAfter
    BY <1>10 DEF ReadBest, Alive, rowVars
  <1>11. ASSUME NEW r \in Run, CommitRun(r)
         PROVE  KeepsAfter
    BY <1>11 DEF CommitRun, Returns, Alive, rowVars
  <1>12. ASSUME NEW r \in Run, PersistFails(r)
         PROVE  KeepsAfter
    BY <1>12 DEF PersistFails, Goto, Alive, rowVars
  <1>13. ASSUME NEW r \in Run, FailsUnmarked(r)
         PROVE  KeepsAfter
    BY <1>13 DEF FailsUnmarked, Returns, Alive, rowVars
  <1>14. ASSUME NEW r \in Run, BeginGate(r)
         PROVE  KeepsAfter
    BY <1>14 DEF BeginGate, Goto, rowVars
  <1>15. ASSUME NEW r \in Run, LockWorkflow(r)
         PROVE  KeepsAfter
    BY <1>15 DEF LockWorkflow, rowVars
  <1>16. ASSUME NEW r \in Run, AuditGate(r)
         PROVE  KeepsAfter
    BY <1>16 DEF AuditGate, Goto, rowVars
  <1>17. ASSUME NEW r \in Run, NEW outcome \in Decision, RunBenchmark(r, outcome)
         PROVE  KeepsAfter
    BY <1>17 DEF RunBenchmark, rowVars
  <1>18. ASSUME NEW r \in Run, CommitGate(r)
         PROVE  KeepsAfter
    BY <1>18 DEF CommitGate, Returns, rowVars
  <1>19. ASSUME NEW r \in Run, AbortGate(r)
         PROVE  KeepsAfter
    BY <1>19 DEF AbortGate, Returns, rowVars
  <1>20. ASSUME NEW p \in Process, Crash(p)
         PROVE  KeepsAfter
    BY <1>20 DEF Crash, Dies, rowVars
  <1>21. ASSUME NEW p \in Process, Boot(p)
         PROVE  KeepsAfter
    BY <1>21 DEF Boot, rowVars, runVars
  <1>22. ASSUME NEW p \in Process, Sweep(p)
         PROVE  KeepsAfter
    BY <1>22 DEF Sweep, rowVars, runVars
  <1>23. ASSUME NEW p \in Process, SweepFails(p)
         PROVE  KeepsAfter
    BY <1>23 DEF SweepFails, rowVars, runVars
  <1>24. CASE UNCHANGED vars
    BY <1>24 DEF vars
  <1>25. QED
    BY <1>1, <1>2, <1>3, <1>4, <1>5, <1>6, <1>7, <1>8, <1>9, <1>10, <1>11, <1>12, <1>13, <1>14,
       <1>15, <1>16, <1>17, <1>18, <1>19, <1>20, <1>21, <1>22, <1>23, <1>24 DEF Next, Step, Fault

\* The rows and their indices stay, but for an insert and the commit of a gate.
Grows ==
    \/ Rows' = Rows /\ index' = index
    \/ \E r \in Run : /\ (InsertRow(r) /\ ~Taken(r)) \/ CommitGate(r)
                      /\ r \notin Rows /\ Rows' = Rows \cup {r}
                      /\ index' = [index EXCEPT ![r] = idx[r]]

\* No step removes or renumbers a row.
LEMMA Growth ==
    TypeOK /\ PcInv /\ [Next]_vars => Grows
  <1> SUFFICES ASSUME TypeOK, PcInv, [Next]_vars
                 PROVE  Grows
    OBVIOUS
  <1>1. ASSUME NEW r \in Run, Start(r)
         PROVE  Grows
    BY <1>1 DEF TypeOK, PcInv, Rows, Grows, Start, Goto, Returns, Alive, rowVars
  <1>2. ASSUME NEW r \in Run, ReadIndex(r)
         PROVE  Grows
    BY <1>2 DEF TypeOK, PcInv, Rows, Grows, ReadIndex, Alive, rowVars
  <1>3. ASSUME NEW r \in Run, InsertRow(r)
         PROVE  Grows
    BY <1>3 DEF TypeOK, PcInv, Rows, Grows, InsertRow, Goto, Returns, Alive, rowVars, Unseen
  <1>4. ASSUME NEW r \in Run, AuditStarted(r)
         PROVE  Grows
    BY <1>4 DEF TypeOK, PcInv, Rows, Grows, AuditStarted, Goto, Alive, rowVars
  <1>5. ASSUME NEW r \in Run, NEW cycle \in Cycle, RunLoop(r, cycle)
         PROVE  Grows
    BY <1>5 DEF TypeOK, PcInv, Rows, Grows, RunLoop, Alive, rowVars
  <1>6. ASSUME NEW r \in Run, LoopFails(r)
         PROVE  Grows
    BY <1>6 DEF TypeOK, PcInv, Rows, Grows, LoopFails, Goto, Alive, rowVars
  <1>7. ASSUME NEW r \in Run, MarkError(r)
         PROVE  Grows
    BY <1>7 DEF TypeOK, PcInv, Rows, Grows, MarkError, Returns, Alive, rowVars, Working
  <1>8. ASSUME NEW r \in Run, PersistTraces(r)
         PROVE  Grows
    BY <1>8 DEF TypeOK, PcInv, Rows, Grows, PersistTraces, Goto, Alive, rowVars
  <1>9. ASSUME NEW r \in Run, WriteProposal(r)
         PROVE  Grows
    BY <1>9 DEF TypeOK, PcInv, Rows, Grows, WriteProposal, Goto, Alive, rowVars
  <1>10. ASSUME NEW r \in Run, ReadBest(r)
         PROVE  Grows
    BY <1>10 DEF TypeOK, PcInv, Rows, Grows, ReadBest, Alive, rowVars
  <1>11. ASSUME NEW r \in Run, CommitRun(r)
         PROVE  Grows
    BY <1>11 DEF TypeOK, PcInv, Rows, Grows, CommitRun, Returns, Alive, rowVars, Working
  <1>12. ASSUME NEW r \in Run, PersistFails(r)
         PROVE  Grows
    BY <1>12 DEF TypeOK, PcInv, Rows, Grows, PersistFails, Goto, Alive, rowVars
  <1>13. ASSUME NEW r \in Run, FailsUnmarked(r)
         PROVE  Grows
    BY <1>13 DEF TypeOK, PcInv, Rows, Grows, FailsUnmarked, Returns, Alive, rowVars
  <1>14. ASSUME NEW r \in Run, BeginGate(r)
         PROVE  Grows
    BY <1>14 DEF TypeOK, PcInv, Rows, Grows, BeginGate, Goto, rowVars
  <1>15. ASSUME NEW r \in Run, LockWorkflow(r)
         PROVE  Grows
    BY <1>15 DEF TypeOK, PcInv, Rows, Grows, LockWorkflow, rowVars
  <1>16. ASSUME NEW r \in Run, AuditGate(r)
         PROVE  Grows
    BY <1>16 DEF TypeOK, PcInv, Rows, Grows, AuditGate, Goto, rowVars
  <1>17. ASSUME NEW r \in Run, NEW outcome \in Decision, RunBenchmark(r, outcome)
         PROVE  Grows
    BY <1>17 DEF TypeOK, PcInv, Rows, Grows, RunBenchmark, rowVars
  <1>18. ASSUME NEW r \in Run, CommitGate(r)
         PROVE  Grows
    <2>1. plan[r] \in Decision /\ state[r] = "absent"
      BY <1>18 DEF CommitGate, PcInv, Unseen
    <2>2. state'[r] \in Ended /\ \A q \in Run \ {r} : state'[q] = state[q]
      BY <1>18, <2>1, GateEnds DEF CommitGate, TypeOK
    <2>3. Rows' = Rows \cup {r}
      BY <2>1, <2>2 DEF Rows, Ended
    <2>4. QED
      BY <1>18, <2>1, <2>3 DEF CommitGate, Rows, Grows
  <1>19. ASSUME NEW r \in Run, AbortGate(r)
         PROVE  Grows
    BY <1>19 DEF TypeOK, PcInv, Rows, Grows, AbortGate, Returns, rowVars
  <1>20. ASSUME NEW p \in Process, Crash(p)
         PROVE  Grows
    BY <1>20 DEF TypeOK, PcInv, Rows, Grows, Crash, Dies, rowVars
  <1>21. ASSUME NEW p \in Process, Boot(p)
         PROVE  Grows
    BY <1>21 DEF TypeOK, PcInv, Rows, Grows, Boot, rowVars, runVars
  <1>22. ASSUME NEW p \in Process, Sweep(p)
         PROVE  Grows
    BY <1>22 DEF TypeOK, PcInv, Rows, Grows, Sweep, rowVars, runVars, Orphans
  <1>23. ASSUME NEW p \in Process, SweepFails(p)
         PROVE  Grows
    BY <1>23 DEF TypeOK, PcInv, Rows, Grows, SweepFails, rowVars, runVars
  <1>24. CASE UNCHANGED vars
    BY <1>24 DEF TypeOK, PcInv, Rows, Grows, vars
  <1>25. QED
    BY <1>1, <1>2, <1>3, <1>4, <1>5, <1>6, <1>7, <1>8, <1>9, <1>10, <1>11, <1>12, <1>13, <1>14,
       <1>15, <1>16, <1>17, <1>18, <1>19, <1>20, <1>21, <1>22, <1>23, <1>24 DEF Next, Step, Fault


\* The best-ever scores that are written are numbers.
LEMMA MaxStep ==
    TypeOK /\ PcInv /\ MaxInv /\ [Next]_vars => MaxInv'
  <1> SUFFICES ASSUME TypeOK, PcInv, MaxInv, [Next]_vars
               PROVE  MaxInv'
    OBVIOUS
  <1>1. CASE after' = after
    BY <1>1 DEF MaxInv, Afters
  <1>3. ASSUME NEW r \in Run, CommitRun(r)
        PROVE  MaxInv'
    <2>1. Store(Larger(best[r], plan[r].score)) \in Written \cup {Null}
      BY <1>3, RunStores
    <2>2. Store(Larger(best[r], plan[r].score)) \in Nat
      BY <2>1, StoreFacts
    <2>3. QED
      BY <1>3, <2>2, MaxUpdate DEF CommitRun
  <1>4. ASSUME NEW r \in Run, CommitGate(r)
        PROVE  MaxInv'
    <2>1. Store(NewBest(r)) \in Written \cup {Null}
      BY <1>4, GateStores
    <2>2. Store(NewBest(r)) \in Nat
      BY <2>1, StoreFacts
    <2>3. QED
      BY <1>4, <2>2, MaxUpdate DEF CommitGate
  <1>5. QED
    BY <1>1, <1>3, <1>4, AfterKept DEF KeepsAfter

\* A row that has not ended has no score, so both readers of the best-ever
\* score read it of all runs that matter to them.
LEMMA BestReads ==
    ASSUME PcInv
    PROVE  /\ BestForGate = BestOf(Run)
           /\ \A r \in Run : BestForRunner(r) = BestOf(Run \ {r})
  <1>1. {after[q] : q \in Rows} \cup {Null} = {after[q] : q \in Run} \cup {Null}
    BY DEF PcInv, Rows
  <1>2. ASSUME NEW r \in Run
        PROVE  {after[q] : q \in {s \in Rows \ {r} : state[s] # "running"}} \cup {Null}
                 = {after[q] : q \in Run \ {r}} \cup {Null}
    BY DEF PcInv, Rows
  <1>3. QED
    BY <1>1, <1>2 DEF BestForGate, BestForRunner, BestOf

\* A run comes to its insert with the next index.
InsertsNext ==
    \A s \in Run : pc'[s] = "insert" =>
        \/ pc[s] = "insert" /\ idx'[s] = idx[s]
        \/ idx'[s] = NextIndex

\* A run comes to its insert with the next index, and keeps it.
LEMMA InsertEntry ==
    TypeOK /\ [Next]_vars => InsertsNext
  <1> SUFFICES ASSUME TypeOK, [Next]_vars
                 PROVE  InsertsNext
    OBVIOUS
  <1> USE DEF TypeOK, InsertsNext
  <1>1. ASSUME NEW r \in Run, Start(r)
         PROVE  InsertsNext
    BY <1>1 DEF Start, Goto, Returns, Alive, rowVars
  <1>2. ASSUME NEW r \in Run, ReadIndex(r)
         PROVE  InsertsNext
    BY <1>2 DEF ReadIndex, Alive, rowVars
  <1>3. ASSUME NEW r \in Run, InsertRow(r)
         PROVE  InsertsNext
    BY <1>3 DEF InsertRow, Goto, Returns, Alive, rowVars
  <1>4. ASSUME NEW r \in Run, AuditStarted(r)
         PROVE  InsertsNext
    BY <1>4 DEF AuditStarted, Goto, Alive, rowVars
  <1>5. ASSUME NEW r \in Run, NEW cycle \in Cycle, RunLoop(r, cycle)
         PROVE  InsertsNext
    BY <1>5 DEF RunLoop, Alive, rowVars
  <1>6. ASSUME NEW r \in Run, LoopFails(r)
         PROVE  InsertsNext
    BY <1>6 DEF LoopFails, Goto, Alive, rowVars
  <1>7. ASSUME NEW r \in Run, MarkError(r)
         PROVE  InsertsNext
    BY <1>7 DEF MarkError, Returns, Alive, rowVars
  <1>8. ASSUME NEW r \in Run, PersistTraces(r)
         PROVE  InsertsNext
    BY <1>8 DEF PersistTraces, Goto, Alive, rowVars
  <1>9. ASSUME NEW r \in Run, WriteProposal(r)
         PROVE  InsertsNext
    BY <1>9 DEF WriteProposal, Goto, Alive, rowVars
  <1>10. ASSUME NEW r \in Run, ReadBest(r)
         PROVE  InsertsNext
    BY <1>10 DEF ReadBest, Alive, rowVars
  <1>11. ASSUME NEW r \in Run, CommitRun(r)
         PROVE  InsertsNext
    BY <1>11 DEF CommitRun, Returns, Alive, rowVars
  <1>12. ASSUME NEW r \in Run, PersistFails(r)
         PROVE  InsertsNext
    BY <1>12 DEF PersistFails, Goto, Alive, rowVars
  <1>13. ASSUME NEW r \in Run, FailsUnmarked(r)
         PROVE  InsertsNext
    BY <1>13 DEF FailsUnmarked, Returns, Alive, rowVars
  <1>14. ASSUME NEW r \in Run, BeginGate(r)
         PROVE  InsertsNext
    BY <1>14 DEF BeginGate, Goto, rowVars
  <1>15. ASSUME NEW r \in Run, LockWorkflow(r)
         PROVE  InsertsNext
    BY <1>15 DEF LockWorkflow, rowVars
  <1>16. ASSUME NEW r \in Run, AuditGate(r)
         PROVE  InsertsNext
    BY <1>16 DEF AuditGate, Goto, rowVars
  <1>17. ASSUME NEW r \in Run, NEW outcome \in Decision, RunBenchmark(r, outcome)
         PROVE  InsertsNext
    BY <1>17 DEF RunBenchmark, rowVars
  <1>18. ASSUME NEW r \in Run, CommitGate(r)
         PROVE  InsertsNext
    BY <1>18 DEF CommitGate, Returns, rowVars
  <1>19. ASSUME NEW r \in Run, AbortGate(r)
         PROVE  InsertsNext
    BY <1>19 DEF AbortGate, Returns, rowVars
  <1>20. ASSUME NEW p \in Process, Crash(p)
         PROVE  InsertsNext
    BY <1>20 DEF Crash, Dies, rowVars
  <1>21. ASSUME NEW p \in Process, Boot(p)
         PROVE  InsertsNext
    BY <1>21 DEF Boot, rowVars, runVars
  <1>22. ASSUME NEW p \in Process, Sweep(p)
         PROVE  InsertsNext
    BY <1>22 DEF Sweep, rowVars, runVars
  <1>23. ASSUME NEW p \in Process, SweepFails(p)
         PROVE  InsertsNext
    BY <1>23 DEF SweepFails, rowVars, runVars
  <1>24. CASE UNCHANGED vars
    BY <1>24 DEF vars
  <1>25. QED
    BY <1>1, <1>2, <1>3, <1>4, <1>5, <1>6, <1>7, <1>8, <1>9, <1>10, <1>11, <1>12, <1>13, <1>14,
       <1>15, <1>16, <1>17, <1>18, <1>19, <1>20, <1>21, <1>22, <1>23, <1>24 DEF Next, Step, Fault


\* A new row has the next index: the gate read it under the lock that it still
\* holds; a runner's was next when it was read, and the insert finds it free.
LEMMA NewIndex ==
    ASSUME TypeOK, PcInv, PosInv, GateViewIsCurrent, NEW r \in Run,
           (InsertRow(r) /\ ~Taken(r)) \/ CommitGate(r)
    PROVE  idx[r] = Cardinality(Rows)
  <1> DEFINE n == Cardinality(Rows)
  <1>1. n \in Nat /\ n <= Cardinality(Run) /\ Cardinality(Run) \in Nat
    BY CountFacts
  <1>2. CASE InsertRow(r) /\ ~Taken(r)
    <2>1. idx[r] \in Nat /\ idx[r] <= n
      BY <1>2 DEF InsertRow, PosInv, TypeOK
    <2>2. idx[r] \notin {index[q] : q \in Rows}
      BY <1>2 DEF Taken
    <2>3. ~(idx[r] < n)
      <3>1. {index[q] : q \in Rows} = {k \in 0..Cardinality(Run) : k < n}
        BY DEF PosInv, IndicesArePositions
      <3> HIDE DEF n
      <3>2. QED
        BY <1>1, <2>1, <2>2, <3>1
    <2>4. idx[r] = n
      <3> HIDE DEF n
      <3>1. QED
        BY <1>1, <2>1, <2>3
    <2>5. QED
      BY <2>4
  <1>3. CASE CommitGate(r)
    <2>1. Excludes(r)
      BY <1>3 DEF CommitGate, PcInv, GatePC, Excludes
    <2>2. QED
      BY <2>1, NextFacts DEF GateViewIsCurrent, PosInv
  <1>4. QED
    BY <1>2, <1>3

\* Every step keeps the indices positions.
LEMMA PosStep ==
    TypeOK /\ PcInv /\ PosInv /\ GateViewIsCurrent /\ [Next]_vars => PosInv'
  <1> SUFFICES ASSUME TypeOK, PcInv, PosInv, GateViewIsCurrent, [Next]_vars
               PROVE  PosInv'
    OBVIOUS
  <1> DEFINE n == Cardinality(Rows)
             N == Cardinality(Run)
             I == {index[q] : q \in Rows}
  <1>1. /\ n \in Nat /\ N \in Nat /\ n <= N
        /\ I = {k \in 0..N : k < n}
        /\ Cardinality(Rows)' <= N
    BY CountFacts, IterationAssumption, FS_Subset DEF PosInv, IndicesArePositions, Rows
  <1>2. ASSUME NEW r \in Run, (InsertRow(r) /\ ~Taken(r)) \/ CommitGate(r),
               r \notin Rows, Rows' = Rows \cup {r}, index' = [index EXCEPT ![r] = idx[r]]
        PROVE  IndicesArePositions' /\ Cardinality(Rows)' = n + 1
    <2>1. Cardinality(Rows)' = n + 1
      BY <1>2, CountFacts, FS_AddElement
    <2>2. idx[r] = n
      BY <1>2, NewIndex
    <2>3. {index[q] : q \in Rows}' = I \cup {n}
      <3>1. index'[r] = n /\ \A q \in Rows : index'[q] = index[q]
        BY <1>2, <2>2 DEF TypeOK, Rows
      <3>2. {index[q] : q \in Rows}' = {index'[q] : q \in Rows \cup {r}}
        BY <1>2
      <3> HIDE DEF n
      <3>3. QED
        BY <3>1, <3>2
    <2>4. I \cup {n} = {k \in 0..N : k < n + 1}
      <3> HIDE DEF I, n, N
      <3>1. n + 1 <= N
        BY <1>1, <2>1
      <3>2. QED
        BY <1>1, <3>1
    <2>5. QED
      BY <2>1, <2>3, <2>4 DEF IndicesArePositions
  <1>3. IndicesArePositions' /\ n <= Cardinality(Rows)'
    <2>1. CASE Rows' = Rows /\ index' = index
      BY <2>1, <1>1 DEF PosInv, IndicesArePositions
    <2> HIDE DEF n
    <2>2. QED
      BY <2>1, <1>1, <1>2, Growth DEF Grows
  <1>4. ASSUME NEW s \in Run, pc'[s] = "insert"
        PROVE  idx'[s] <= Cardinality(Rows)'
    <2>1. idx'[s] \in Nat /\ idx'[s] <= n
      <3>1. CASE pc[s] = "insert" /\ idx'[s] = idx[s]
        BY <3>1 DEF PosInv, TypeOK
      <3>2. CASE idx'[s] = NextIndex
        BY <3>2, <1>1, NextFacts DEF PosInv
      <3>3. QED
        BY <1>4, <3>1, <3>2, InsertEntry DEF InsertsNext
    <2>2. Cardinality(Rows)' \in Nat
      BY IterationAssumption, FS_Subset, FS_CardinalityType DEF Rows
    <2> HIDE DEF n
    <2>3. QED
      BY <1>1, <1>3, <2>1, <2>2
  <1>5. QED
    BY <1>3, <1>4 DEF PosInv

\* What a gate run has read is replaced by no step while it holds the lock.
KeepsReads ==
    \A s \in Run : Excludes(s)' =>
        \/ Excludes(s) /\ idx'[s] = idx[s] /\ best'[s] = best[s]
        \/ LockWorkflow(s)

\* What a run read while it excludes writers stays as it was.
LEMMA ExcluderKept ==
    TypeOK /\ PcInv /\ [Next]_vars => KeepsReads
  <1> SUFFICES ASSUME TypeOK, PcInv, [Next]_vars
                 PROVE  KeepsReads
    OBVIOUS
  <1> USE DEF TypeOK, Excludes, KeepsReads
  <1>1. ASSUME NEW r \in Run, Start(r)
         PROVE  KeepsReads
    BY <1>1 DEF Start, Goto, Returns, Alive, rowVars
  <1>2. ASSUME NEW r \in Run, ReadIndex(r)
         PROVE  KeepsReads
    BY <1>2 DEF ReadIndex, Alive, rowVars, PcInv, GatePC
  <1>3. ASSUME NEW r \in Run, InsertRow(r)
         PROVE  KeepsReads
    BY <1>3 DEF InsertRow, Goto, Returns, Alive, rowVars
  <1>4. ASSUME NEW r \in Run, AuditStarted(r)
         PROVE  KeepsReads
    BY <1>4 DEF AuditStarted, Goto, Alive, rowVars
  <1>5. ASSUME NEW r \in Run, NEW cycle \in Cycle, RunLoop(r, cycle)
         PROVE  KeepsReads
    BY <1>5 DEF RunLoop, Alive, rowVars
  <1>6. ASSUME NEW r \in Run, LoopFails(r)
         PROVE  KeepsReads
    BY <1>6 DEF LoopFails, Goto, Alive, rowVars
  <1>7. ASSUME NEW r \in Run, MarkError(r)
         PROVE  KeepsReads
    BY <1>7 DEF MarkError, Returns, Alive, rowVars
  <1>8. ASSUME NEW r \in Run, PersistTraces(r)
         PROVE  KeepsReads
    BY <1>8 DEF PersistTraces, Goto, Alive, rowVars
  <1>9. ASSUME NEW r \in Run, WriteProposal(r)
         PROVE  KeepsReads
    BY <1>9 DEF WriteProposal, Goto, Alive, rowVars
  <1>10. ASSUME NEW r \in Run, ReadBest(r)
         PROVE  KeepsReads
    BY <1>10 DEF ReadBest, Alive, rowVars, PcInv, GatePC
  <1>11. ASSUME NEW r \in Run, CommitRun(r)
         PROVE  KeepsReads
    BY <1>11 DEF CommitRun, Returns, Alive, rowVars
  <1>12. ASSUME NEW r \in Run, PersistFails(r)
         PROVE  KeepsReads
    BY <1>12 DEF PersistFails, Goto, Alive, rowVars
  <1>13. ASSUME NEW r \in Run, FailsUnmarked(r)
         PROVE  KeepsReads
    BY <1>13 DEF FailsUnmarked, Returns, Alive, rowVars
  <1>14. ASSUME NEW r \in Run, BeginGate(r)
         PROVE  KeepsReads
    BY <1>14 DEF BeginGate, Goto, rowVars
  <1>15. ASSUME NEW r \in Run, LockWorkflow(r)
         PROVE  KeepsReads
    BY <1>15 DEF LockWorkflow, rowVars
  <1>16. ASSUME NEW r \in Run, AuditGate(r)
         PROVE  KeepsReads
    BY <1>16 DEF AuditGate, Goto, rowVars
  <1>17. ASSUME NEW r \in Run, NEW outcome \in Decision, RunBenchmark(r, outcome)
         PROVE  KeepsReads
    BY <1>17 DEF RunBenchmark, rowVars
  <1>18. ASSUME NEW r \in Run, CommitGate(r)
         PROVE  KeepsReads
    BY <1>18 DEF CommitGate, Returns, rowVars
  <1>19. ASSUME NEW r \in Run, AbortGate(r)
         PROVE  KeepsReads
    BY <1>19 DEF AbortGate, Returns, rowVars
  <1>20. ASSUME NEW p \in Process, Crash(p)
         PROVE  KeepsReads
    BY <1>20 DEF Crash, Dies, rowVars
  <1>21. ASSUME NEW p \in Process, Boot(p)
         PROVE  KeepsReads
    BY <1>21 DEF Boot, rowVars, runVars
  <1>22. ASSUME NEW p \in Process, Sweep(p)
         PROVE  KeepsReads
    BY <1>22 DEF Sweep, rowVars, runVars
  <1>23. ASSUME NEW p \in Process, SweepFails(p)
         PROVE  KeepsReads
    BY <1>23 DEF SweepFails, rowVars, runVars
  <1>24. CASE UNCHANGED vars
    BY <1>24 DEF vars
  <1>25. QED
    BY <1>1, <1>2, <1>3, <1>4, <1>5, <1>6, <1>7, <1>8, <1>9, <1>10, <1>11, <1>12, <1>13, <1>14,
       <1>15, <1>16, <1>17, <1>18, <1>19, <1>20, <1>21, <1>22, <1>23, <1>24 DEF Next, Step, Fault


\* Every step keeps the view of a gate run current.
LEMMA GateViewStep ==
    TypeOK /\ PcInv /\ LockInv /\ GateViewIsCurrent /\ [Next]_vars => GateViewIsCurrent'
  <1> SUFFICES ASSUME TypeOK, PcInv, LockInv, GateViewIsCurrent, [Next]_vars,
                      NEW s \in Run, Excludes(s)'
               PROVE  (idx[s] = NextIndex /\ best[s] = BestForGate)'
    BY DEF GateViewIsCurrent
  <1>1. CASE LockWorkflow(s)
    BY <1>1 DEF LockWorkflow, TypeOK, rowVars, NextIndex, BestForGate, BestOf, Rows
  <1>2. CASE Excludes(s) /\ idx'[s] = idx[s] /\ best'[s] = best[s]
    <2>1. \A r \in Run : ~InsertRow(r)
      BY <1>2 DEF InsertRow, WorkflowUnlocked
    <2>2. \A r \in Run : ~CommitRun(r)
      BY <1>2 DEF CommitRun, Alive, LockInv, Shares
    <2>3. \A r \in Run : ~CommitGate(r)
      <3> SUFFICES ASSUME NEW r \in Run, CommitGate(r) PROVE FALSE
        OBVIOUS
      <3>1. r = s
        BY <1>2 DEF CommitGate, PcInv, GatePC, LockInv, Excludes
      <3>2. pc'[s] = "done"
        BY <3>1 DEF CommitGate, Returns, TypeOK
      <3>3. QED
        BY <3>2 DEF Excludes
    <2>4. Rows' = Rows /\ index' = index
      BY <2>1, <2>3, Growth DEF Grows
    <2>5. after' = after
      BY <2>2, <2>3, AfterKept DEF KeepsAfter
    <2>6. NextIndex' = NextIndex /\ BestForGate' = BestForGate
      BY <2>4, <2>5 DEF NextIndex, BestForGate, BestOf
    <2>7. QED
      BY <1>2, <2>6 DEF GateViewIsCurrent
  <1>3. QED
    BY <1>1, <1>2, ExcluderKept DEF KeepsReads


\* A gate that passes puts its score above the best-ever score of all rows.
LEMMA BarStep ==
    TypeOK /\ PcInv /\ MaxInv /\ PosInv /\ GateViewIsCurrent /\ PassesRaiseTheBar /\ [Next]_vars => PassesRaiseTheBar'
  <1> SUFFICES ASSUME TypeOK, PcInv, MaxInv, PosInv, GateViewIsCurrent, PassesRaiseTheBar, [Next]_vars
                 PROVE  PassesRaiseTheBar'
    OBVIOUS
  <1>1. ASSUME NEW r \in Run, Start(r)
         PROVE  PassesRaiseTheBar'
    BY <1>1 DEF PassesRaiseTheBar, TypeOK, Rows, Start, Goto, Returns, Alive, rowVars
  <1>2. ASSUME NEW r \in Run, ReadIndex(r)
         PROVE  PassesRaiseTheBar'
    BY <1>2 DEF PassesRaiseTheBar, TypeOK, Rows, ReadIndex, Alive, rowVars
  <1>3. ASSUME NEW r \in Run, InsertRow(r)
         PROVE  PassesRaiseTheBar'
    BY <1>3 DEF PassesRaiseTheBar, TypeOK, Rows, InsertRow, Goto, Returns, Alive, rowVars, PcInv
  <1>4. ASSUME NEW r \in Run, AuditStarted(r)
         PROVE  PassesRaiseTheBar'
    BY <1>4 DEF PassesRaiseTheBar, TypeOK, Rows, AuditStarted, Goto, Alive, rowVars
  <1>5. ASSUME NEW r \in Run, NEW cycle \in Cycle, RunLoop(r, cycle)
         PROVE  PassesRaiseTheBar'
    BY <1>5 DEF PassesRaiseTheBar, TypeOK, Rows, RunLoop, Alive, rowVars
  <1>6. ASSUME NEW r \in Run, LoopFails(r)
         PROVE  PassesRaiseTheBar'
    BY <1>6 DEF PassesRaiseTheBar, TypeOK, Rows, LoopFails, Goto, Alive, rowVars
  <1>7. ASSUME NEW r \in Run, MarkError(r)
         PROVE  PassesRaiseTheBar'
    BY <1>7 DEF PassesRaiseTheBar, TypeOK, Rows, MarkError, Returns, Alive, rowVars, PcInv, Working
  <1>8. ASSUME NEW r \in Run, PersistTraces(r)
         PROVE  PassesRaiseTheBar'
    BY <1>8 DEF PassesRaiseTheBar, TypeOK, Rows, PersistTraces, Goto, Alive, rowVars
  <1>9. ASSUME NEW r \in Run, WriteProposal(r)
         PROVE  PassesRaiseTheBar'
    BY <1>9 DEF PassesRaiseTheBar, TypeOK, Rows, WriteProposal, Goto, Alive, rowVars
  <1>10. ASSUME NEW r \in Run, ReadBest(r)
         PROVE  PassesRaiseTheBar'
    BY <1>10 DEF PassesRaiseTheBar, TypeOK, Rows, ReadBest, Alive, rowVars
  <1>11. ASSUME NEW r \in Run, CommitRun(r)
         PROVE  PassesRaiseTheBar'
    BY <1>11 DEF PassesRaiseTheBar, TypeOK, Rows, CommitRun, Returns, Alive, rowVars, PcInv
  <1>12. ASSUME NEW r \in Run, PersistFails(r)
         PROVE  PassesRaiseTheBar'
    BY <1>12 DEF PassesRaiseTheBar, TypeOK, Rows, PersistFails, Goto, Alive, rowVars
  <1>13. ASSUME NEW r \in Run, FailsUnmarked(r)
         PROVE  PassesRaiseTheBar'
    BY <1>13 DEF PassesRaiseTheBar, TypeOK, Rows, FailsUnmarked, Returns, Alive, rowVars
  <1>14. ASSUME NEW r \in Run, BeginGate(r)
         PROVE  PassesRaiseTheBar'
    BY <1>14 DEF PassesRaiseTheBar, TypeOK, Rows, BeginGate, Goto, rowVars
  <1>15. ASSUME NEW r \in Run, LockWorkflow(r)
         PROVE  PassesRaiseTheBar'
    BY <1>15 DEF PassesRaiseTheBar, TypeOK, Rows, LockWorkflow, rowVars
  <1>16. ASSUME NEW r \in Run, AuditGate(r)
         PROVE  PassesRaiseTheBar'
    BY <1>16 DEF PassesRaiseTheBar, TypeOK, Rows, AuditGate, Goto, rowVars
  <1>17. ASSUME NEW r \in Run, NEW outcome \in Decision, RunBenchmark(r, outcome)
         PROVE  PassesRaiseTheBar'
    BY <1>17 DEF PassesRaiseTheBar, TypeOK, Rows, RunBenchmark, rowVars
  <1>18. ASSUME NEW r \in Run, CommitGate(r)
         PROVE  PassesRaiseTheBar'
    <2>1. /\ plan[r] \in Decision /\ state[r] = "absent" /\ KindOf[r] = "gate"
          /\ plan[r].decision = "pass" => plan[r].score > best[r]
      BY <1>18 DEF CommitGate, PcInv, Unseen, GatePC
    <2>2. best[r] = BestForGate /\ idx[r] = Cardinality(Rows)
      <3>1. Excludes(r)
        BY <1>18, <2>1 DEF CommitGate, Excludes
      <3>2. QED
        BY <3>1, NextFacts DEF GateViewIsCurrent, PosInv
    <2>3. \A q \in Rows : index[q] \in Nat /\ index[q] < idx[r] /\ idx[r] \in Nat
      BY <2>2, CountFacts DEF PosInv, IndicesArePositions
    <2>4. \A q \in Rows : after[q] \in Nat /\ after[q] <= best[r] /\ best[r] \in Nat
      <3>1. \A q \in Run : after[q] \in Written \cup {Null} /\ best[q] \in Written \cup {Null}
        BY DEF TypeOK
      <3>2. Written \cup {Null} \subseteq Nat
        BY StoreFacts
      <3>3. \A q \in Run : after[q] <= BestOf(Run)
        BY BestFacts
      <3>4. QED
        BY <2>2, <3>1, <3>2, <3>3, BestReads DEF Rows
    <2>5. ASSUME plan[r].decision = "pass"
          PROVE  /\ after'[r] \in Nat /\ best[r] \in Nat /\ best[r] <= after'[r]
                 /\ \/ best[r] < after'[r]
                    \/ \E s \in Score : after'[r] < s /\ Stored[s] = after'[r]
      <3> DEFINE s == plan[r].score
      <3>1. s \in Score /\ s \in Nat /\ s > best[r]
        BY <2>1, <2>5, StoreFacts DEF Decision
      <3>2. best[r] \in Written \cup {Null} /\ best[r] \in Nat /\ Store(best[r]) = best[r]
        BY StoreFacts DEF TypeOK
      <3>3. NewBest(r) = s
        BY <2>5, <3>1, <3>2 DEF NewBest, Larger
      <3>4. after'[r] = Store(s) /\ Store(s) = Stored[s] /\ Store(s) \in Nat
        <4>1. after'[r] = Store(s)
          BY <1>18, <3>3 DEF CommitGate, TypeOK
        <4>2. s # Null
          BY <3>1, IterationAssumption DEF Null
        <4>3. Store(s) \in Written \cup {Null}
          BY <3>1, StoreFacts
        <4>4. QED
          BY <4>1, <4>2, <4>3, StoreFacts DEF Store
      <3>5. Store(best[r]) <= Store(s)
        BY <3>1, <3>2, StoreFacts
      <3> HIDE DEF s
      <3>6. QED
        BY <3>1, <3>2, <3>4, <3>5
    <2>6. state'[r] = "gate-pass" <=> plan[r].decision = "pass"
      BY <1>18, <2>1, GateEnds DEF CommitGate, TypeOK
    <2>7. /\ index'[r] = idx[r]
          /\ \A q \in Run \ {r} : state'[q] = state[q] /\ index'[q] = index[q] /\ after'[q] = after[q]
      BY <1>18 DEF CommitGate, TypeOK
    <2>8. ASSUME NEW q \in Rows', NEW s \in Rows', KindOf[q] = "gate", KindOf[s] = "gate",
                 index'[q] < index'[s], state'[s] = "gate-pass"
          PROVE  \/ after'[q] < after'[s]
                 \/ after'[q] = after'[s] /\ \E t \in Score : after'[s] < t /\ Stored[t] = after'[s]
      <3>1. q \in Run /\ s \in Run /\ (q # r => q \in Rows) /\ (s # r => s \in Rows)
        BY <2>7 DEF Rows
      <3>2. CASE q = r
        <4>1. idx[r] \in Nat
          BY DEF TypeOK
        <4>2. QED
          BY <2>3, <2>7, <2>8, <3>1, <3>2, <4>1
      <3>3. CASE q # r /\ s = r
        BY <2>3, <2>4, <2>5, <2>6, <2>7, <2>8, <3>1, <3>3
      <3>4. CASE q # r /\ s # r
        BY <2>7, <2>8, <3>1, <3>4 DEF PassesRaiseTheBar
      <3>5. QED
        BY <3>2, <3>3, <3>4
    <2>9. QED
      BY <2>8 DEF PassesRaiseTheBar
  <1>19. ASSUME NEW r \in Run, AbortGate(r)
         PROVE  PassesRaiseTheBar'
    BY <1>19 DEF PassesRaiseTheBar, TypeOK, Rows, AbortGate, Returns, rowVars
  <1>20. ASSUME NEW p \in Process, Crash(p)
         PROVE  PassesRaiseTheBar'
    BY <1>20 DEF PassesRaiseTheBar, TypeOK, Rows, Crash, Dies, rowVars
  <1>21. ASSUME NEW p \in Process, Boot(p)
         PROVE  PassesRaiseTheBar'
    BY <1>21 DEF PassesRaiseTheBar, TypeOK, Rows, Boot, rowVars, runVars
  <1>22. ASSUME NEW p \in Process, Sweep(p)
         PROVE  PassesRaiseTheBar'
    BY <1>22 DEF PassesRaiseTheBar, TypeOK, Rows, Sweep, rowVars, runVars, Orphans
  <1>23. ASSUME NEW p \in Process, SweepFails(p)
         PROVE  PassesRaiseTheBar'
    BY <1>23 DEF PassesRaiseTheBar, TypeOK, Rows, SweepFails, rowVars, runVars
  <1>24. CASE UNCHANGED vars
    BY <1>24 DEF PassesRaiseTheBar, TypeOK, Rows, vars
  <1>25. QED
    BY <1>1, <1>2, <1>3, <1>4, <1>5, <1>6, <1>7, <1>8, <1>9, <1>10, <1>11, <1>12, <1>13, <1>14,
       <1>15, <1>16, <1>17, <1>18, <1>19, <1>20, <1>21, <1>22, <1>23, <1>24 DEF Next, Step, Fault

\* A proposal is written with the state that says so, and in one transaction.
LEMMA ProposalStep ==
    TypeOK /\ PcInv /\ ProposalMeansPass /\ [Next]_vars => ProposalMeansPass'
  <1> SUFFICES ASSUME TypeOK, PcInv, ProposalMeansPass, [Next]_vars
                 PROVE  ProposalMeansPass'
    OBVIOUS
  <1> USE DEF ProposalMeansPass, TypeOK
  <1>1. ASSUME NEW r \in Run, Start(r)
         PROVE  ProposalMeansPass'
    BY <1>1 DEF Start, Goto, Returns, Alive, rowVars
  <1>2. ASSUME NEW r \in Run, ReadIndex(r)
         PROVE  ProposalMeansPass'
    BY <1>2 DEF ReadIndex, Alive, rowVars
  <1>3. ASSUME NEW r \in Run, InsertRow(r)
         PROVE  ProposalMeansPass'
    BY <1>3 DEF InsertRow, Goto, Returns, Alive, rowVars, PcInv, Unseen
  <1>4. ASSUME NEW r \in Run, AuditStarted(r)
         PROVE  ProposalMeansPass'
    BY <1>4 DEF AuditStarted, Goto, Alive, rowVars
  <1>5. ASSUME NEW r \in Run, NEW cycle \in Cycle, RunLoop(r, cycle)
         PROVE  ProposalMeansPass'
    BY <1>5 DEF RunLoop, Alive, rowVars
  <1>6. ASSUME NEW r \in Run, LoopFails(r)
         PROVE  ProposalMeansPass'
    BY <1>6 DEF LoopFails, Goto, Alive, rowVars
  <1>7. ASSUME NEW r \in Run, MarkError(r)
         PROVE  ProposalMeansPass'
    BY <1>7 DEF MarkError, Returns, Alive, rowVars, PcInv, Working
  <1>8. ASSUME NEW r \in Run, PersistTraces(r)
         PROVE  ProposalMeansPass'
    BY <1>8 DEF PersistTraces, Goto, Alive, rowVars
  <1>9. ASSUME NEW r \in Run, WriteProposal(r)
         PROVE  ProposalMeansPass'
    BY <1>9 DEF WriteProposal, Goto, Alive, rowVars
  <1>10. ASSUME NEW r \in Run, ReadBest(r)
         PROVE  ProposalMeansPass'
    BY <1>10 DEF ReadBest, Alive, rowVars
  <1>11. ASSUME NEW r \in Run, CommitRun(r)
         PROVE  ProposalMeansPass'
    BY <1>11 DEF CommitRun, Returns, Alive, rowVars, PcInv, Cycle
  <1>12. ASSUME NEW r \in Run, PersistFails(r)
         PROVE  ProposalMeansPass'
    BY <1>12 DEF PersistFails, Goto, Alive, rowVars
  <1>13. ASSUME NEW r \in Run, FailsUnmarked(r)
         PROVE  ProposalMeansPass'
    BY <1>13 DEF FailsUnmarked, Returns, Alive, rowVars
  <1>14. ASSUME NEW r \in Run, BeginGate(r)
         PROVE  ProposalMeansPass'
    BY <1>14 DEF BeginGate, Goto, rowVars
  <1>15. ASSUME NEW r \in Run, LockWorkflow(r)
         PROVE  ProposalMeansPass'
    BY <1>15 DEF LockWorkflow, rowVars
  <1>16. ASSUME NEW r \in Run, AuditGate(r)
         PROVE  ProposalMeansPass'
    BY <1>16 DEF AuditGate, Goto, rowVars
  <1>17. ASSUME NEW r \in Run, NEW outcome \in Decision, RunBenchmark(r, outcome)
         PROVE  ProposalMeansPass'
    BY <1>17 DEF RunBenchmark, rowVars
  <1>18. ASSUME NEW r \in Run, CommitGate(r)
         PROVE  ProposalMeansPass'
    BY <1>18, GateEnds DEF CommitGate, Returns, rowVars, PcInv
  <1>19. ASSUME NEW r \in Run, AbortGate(r)
         PROVE  ProposalMeansPass'
    BY <1>19 DEF AbortGate, Returns, rowVars
  <1>20. ASSUME NEW p \in Process, Crash(p)
         PROVE  ProposalMeansPass'
    BY <1>20 DEF Crash, Dies, rowVars
  <1>21. ASSUME NEW p \in Process, Boot(p)
         PROVE  ProposalMeansPass'
    BY <1>21 DEF Boot, rowVars, runVars
  <1>22. ASSUME NEW p \in Process, Sweep(p)
         PROVE  ProposalMeansPass'
    BY <1>22 DEF Sweep, rowVars, runVars, Orphans
  <1>23. ASSUME NEW p \in Process, SweepFails(p)
         PROVE  ProposalMeansPass'
    BY <1>23 DEF SweepFails, rowVars, runVars
  <1>24. CASE UNCHANGED vars
    BY <1>24 DEF vars
  <1>25. QED
    BY <1>1, <1>2, <1>3, <1>4, <1>5, <1>6, <1>7, <1>8, <1>9, <1>10, <1>11, <1>12, <1>13, <1>14,
       <1>15, <1>16, <1>17, <1>18, <1>19, <1>20, <1>21, <1>22, <1>23, <1>24 DEF Next, Step, Fault

\* A runner comes to its commit by reading the best-ever score.
CompletesWithBest ==
    \A s \in Run : KindOf[s] # "gate" /\ pc'[s] = "complete" =>
        \/ ReadBest(s)
        \/ pc[s] = "complete" /\ plan'[s] = plan[s] /\ best'[s] = best[s]

\* A run comes to its completion from reading the best-ever score.
LEMMA CompleteEntry ==
    TypeOK /\ PcInv /\ [Next]_vars => CompletesWithBest
  <1> SUFFICES ASSUME TypeOK, PcInv, [Next]_vars
                 PROVE  CompletesWithBest
    OBVIOUS
  <1> USE DEF TypeOK, PcInv, GatePC, CompletesWithBest
  <1>1. ASSUME NEW r \in Run, Start(r)
         PROVE  CompletesWithBest
    BY <1>1 DEF Start, Goto, Returns, Alive, rowVars
  <1>2. ASSUME NEW r \in Run, ReadIndex(r)
         PROVE  CompletesWithBest
    BY <1>2 DEF ReadIndex, Alive, rowVars
  <1>3. ASSUME NEW r \in Run, InsertRow(r)
         PROVE  CompletesWithBest
    BY <1>3 DEF InsertRow, Goto, Returns, Alive, rowVars
  <1>4. ASSUME NEW r \in Run, AuditStarted(r)
         PROVE  CompletesWithBest
    BY <1>4 DEF AuditStarted, Goto, Alive, rowVars
  <1>5. ASSUME NEW r \in Run, NEW cycle \in Cycle, RunLoop(r, cycle)
         PROVE  CompletesWithBest
    BY <1>5 DEF RunLoop, Alive, rowVars
  <1>6. ASSUME NEW r \in Run, LoopFails(r)
         PROVE  CompletesWithBest
    BY <1>6 DEF LoopFails, Goto, Alive, rowVars
  <1>7. ASSUME NEW r \in Run, MarkError(r)
         PROVE  CompletesWithBest
    BY <1>7 DEF MarkError, Returns, Alive, rowVars
  <1>8. ASSUME NEW r \in Run, PersistTraces(r)
         PROVE  CompletesWithBest
    BY <1>8 DEF PersistTraces, Goto, Alive, rowVars
  <1>9. ASSUME NEW r \in Run, WriteProposal(r)
         PROVE  CompletesWithBest
    BY <1>9 DEF WriteProposal, Goto, Alive, rowVars
  <1>10. ASSUME NEW r \in Run, ReadBest(r)
         PROVE  CompletesWithBest
    BY <1>10, ZenonT(60) DEF ReadBest, Alive, rowVars
  <1>11. ASSUME NEW r \in Run, CommitRun(r)
         PROVE  CompletesWithBest
    BY <1>11 DEF CommitRun, Returns, Alive, rowVars
  <1>12. ASSUME NEW r \in Run, PersistFails(r)
         PROVE  CompletesWithBest
    BY <1>12 DEF PersistFails, Goto, Alive, rowVars
  <1>13. ASSUME NEW r \in Run, FailsUnmarked(r)
         PROVE  CompletesWithBest
    BY <1>13 DEF FailsUnmarked, Returns, Alive, rowVars
  <1>14. ASSUME NEW r \in Run, BeginGate(r)
         PROVE  CompletesWithBest
    BY <1>14 DEF BeginGate, Goto, rowVars
  <1>15. ASSUME NEW r \in Run, LockWorkflow(r)
         PROVE  CompletesWithBest
    BY <1>15 DEF LockWorkflow, rowVars
  <1>16. ASSUME NEW r \in Run, AuditGate(r)
         PROVE  CompletesWithBest
    BY <1>16 DEF AuditGate, Goto, rowVars
  <1>17. ASSUME NEW r \in Run, NEW outcome \in Decision, RunBenchmark(r, outcome)
         PROVE  CompletesWithBest
    BY <1>17 DEF RunBenchmark, rowVars
  <1>18. ASSUME NEW r \in Run, CommitGate(r)
         PROVE  CompletesWithBest
    BY <1>18 DEF CommitGate, Returns, rowVars
  <1>19. ASSUME NEW r \in Run, AbortGate(r)
         PROVE  CompletesWithBest
    BY <1>19 DEF AbortGate, Returns, rowVars
  <1>20. ASSUME NEW p \in Process, Crash(p)
         PROVE  CompletesWithBest
    BY <1>20 DEF Crash, Dies, rowVars, InFlight
  <1>21. ASSUME NEW p \in Process, Boot(p)
         PROVE  CompletesWithBest
    BY <1>21 DEF Boot, rowVars, runVars
  <1>22. ASSUME NEW p \in Process, Sweep(p)
         PROVE  CompletesWithBest
    BY <1>22 DEF Sweep, rowVars, runVars
  <1>23. ASSUME NEW p \in Process, SweepFails(p)
         PROVE  CompletesWithBest
    BY <1>23 DEF SweepFails, rowVars, runVars
  <1>24. CASE UNCHANGED vars
    BY <1>24 DEF vars
  <1>25. QED
    BY <1>1, <1>2, <1>3, <1>4, <1>5, <1>6, <1>7, <1>8, <1>9, <1>10, <1>11, <1>12, <1>13, <1>14,
       <1>15, <1>16, <1>17, <1>18, <1>19, <1>20, <1>21, <1>22, <1>23, <1>24 DEF Next, Step, Fault


\* A runner's third phase that has a proposal to write keeps the audit chain
\* from its first audit entry to the commit, so no other call can commit a
\* score in between.
LEMMA SawStep ==
    TypeOK /\ PcInv /\ ChainInv /\ ProposalSawTheBest /\ PcInv' /\ [Next]_vars => ProposalSawTheBest'
  <1> SUFFICES ASSUME TypeOK, PcInv, ChainInv, ProposalSawTheBest, PcInv', [Next]_vars, NEW s \in Run,
                      KindOf[s] # "gate", pc'[s] = "complete", plan'[s].edit
               PROVE  best'[s] = BestForRunner(s)'
    BY DEF ProposalSawTheBest
  <1>1. BestForRunner(s)' = Max({after'[q] : q \in Run \ {s}} \cup {Null})
    <2>1. {after[q] : q \in {t \in Rows \ {s} : state[t] # "running"}}' \cup {Null}
             = {after'[q] : q \in Run \ {s}} \cup {Null}
      BY DEF PcInv, Rows
    <2>2. QED
      BY <2>1 DEF BestForRunner, BestOf
  <1>2. BestForRunner(s) = Max({after[q] : q \in Run \ {s}} \cup {Null})
    BY BestReads DEF BestOf
  <1>3. CASE ReadBest(s)
    BY <1>1, <1>2, <1>3 DEF ReadBest, rowVars, TypeOK
  <1>4. CASE pc[s] = "complete" /\ plan'[s] = plan[s] /\ best'[s] = best[s]
    <2>1. HoldsChain(s)
      BY <1>4 DEF HoldsChain
    <2>2. \A q \in Run \ {s} : ~CommitRun(q) /\ ~CommitGate(q)
      BY <2>1 DEF CommitRun, CommitGate, ChainFree, ChainInv, HoldsChain, PcInv, GatePC
    <2>3. ~CommitRun(s) /\ ~CommitGate(s)
      BY <1>4 DEF CommitRun, CommitGate, Returns, TypeOK
    <2>4. after' = after
      BY <2>2, <2>3, AfterKept DEF KeepsAfter
    <2>5. QED
      BY <1>1, <1>2, <1>4, <2>4 DEF ProposalSawTheBest
  <1>5. QED
    BY <1>3, <1>4, CompleteEntry DEF CompletesWithBest

-----------------------------------------------------------------------------
\* The inductive invariant: it needs nothing of the number of processes or the
\* faults.
IInv ==
    /\ TypeOK /\ PcInv /\ MaxInv /\ PosInv /\ LockInv /\ ChainInv /\ ModeInv
    /\ GateViewIsCurrent /\ PassesRaiseTheBar /\ ProposalMeansPass /\ ProposalSawTheBest

\* The inductive invariant holds of the empty tables.
LEMMA InitIInv == Init => IInv
  <1> SUFFICES ASSUME Init PROVE IInv
    OBVIOUS
  <1>1. TypeOK
    BY IterationAssumption DEF Init, TypeOK, State, PC
  <1>2. PcInv
    BY DEF Init, PcInv, GatePC, Working
  <1>3. MaxInv
    <2> SUFFICES ASSUME NEW S \in SUBSET Run
                 PROVE  \E m \in Afters(S) : \A a \in Afters(S) : a <= m
      BY DEF MaxInv
    <2>1. Afters(S) = {Null}
      BY DEF Init, Afters
    <2>2. QED
      BY <2>1 DEF Null
  <1>4. PosInv
    <2>1. Rows = {}
      BY DEF Init, Rows
    <2>2. IndicesArePositions
      BY <2>1, FS_EmptySet, CountFacts DEF IndicesArePositions
    <2>3. QED
      BY <2>2 DEF Init, PosInv
  <1>5. LockInv /\ ChainInv /\ ModeInv /\ GateViewIsCurrent
    BY DEF Init, LockInv, ChainInv, ModeInv, GateViewIsCurrent, Excludes, Shares, HoldsChain,
       InFlight
  <1>6. PassesRaiseTheBar /\ ProposalMeansPass /\ ProposalSawTheBest
    BY DEF Init, PassesRaiseTheBar, ProposalMeansPass, ProposalSawTheBest, Rows
  <1>7. QED
    BY <1>1, <1>2, <1>3, <1>4, <1>5, <1>6 DEF IInv

\* Every step keeps the inductive invariant.
LEMMA NextIInv == IInv /\ [Next]_vars => IInv'
  BY PcStep, TypeStep, MaxStep, PosStep, LockStep, ChainStep, ModeStep, GateViewStep, BarStep,
     ProposalStep, SawStep DEF IInv

\* The inductive invariant: rows, runs, locks and instances agree, for any number of each.
THEOREM Invariance == Spec => []IInv
  BY InitIInv, NextIInv, PTL DEF Spec

\* Every state has the declared types.
THEOREM TypeCorrect == Spec => []TypeOK
  <1>1. IInv => TypeOK
    BY DEF IInv
  <1>2. QED
    BY <1>1, Invariance, PTL

\* The iterations are numbered 0, 1, 2, ..., although a runner allocates its
\* number without a lock.
THEOREM Positions == Spec => []IndicesArePositions
  <1>1. IInv => IndicesArePositions
    BY DEF IInv, PosInv
  <1>2. QED
    BY <1>1, Invariance, PTL

\* What persist_gate_run reads under its lock holds until its commit.
THEOREM GateView == Spec => []GateViewIsCurrent
  <1>1. IInv => GateViewIsCurrent
    BY DEF IInv
  <1>2. QED
    BY <1>1, Invariance, PTL

\* Each passing gate run beats all gate runs before it, or ties with them by the
\* rounding of its score.
THEOREM Bar == Spec => []PassesRaiseTheBar
  <1>1. IInv => PassesRaiseTheBar
    BY DEF IInv
  <1>2. QED
    BY <1>1, Invariance, PTL

\* There is a proposal exactly where the iteration's state says it passed.
THEOREM PassAndProposal == Spec => []ProposalMeansPass
  <1>1. IInv => ProposalMeansPass
    BY DEF IInv
  <1>2. QED
    BY <1>1, Invariance, PTL

\* A runner with a proposal commits the best-ever score of that moment.
THEOREM SawTheBest == Spec => []ProposalSawTheBest
  <1>1. IInv => ProposalSawTheBest
    BY DEF IInv
  <1>2. QED
    BY <1>1, Invariance, PTL


-----------------------------------------------------------------------------

\* A runner leaves its row running only when its instance goes down, or when a
\* failure that it does not handle, or a failed sweep, abandons the row.
LEMMA RunnerStep ==
    TypeOK /\ PcInv /\ RunningHasRunner /\ [Next]_vars => RunningHasRunner'
  <1> SUFFICES ASSUME TypeOK, PcInv, RunningHasRunner, [Next]_vars
                 PROVE  RunningHasRunner'
    OBVIOUS
  <1> USE DEF RunningHasRunner, TypeOK, InFlight
  <1>1. ASSUME NEW r \in Run, Start(r)
         PROVE  RunningHasRunner'
    BY <1>1 DEF Start, Goto, Returns, Alive, rowVars, PcInv, Unseen
  <1>2. ASSUME NEW r \in Run, ReadIndex(r)
         PROVE  RunningHasRunner'
    BY <1>2 DEF ReadIndex, Alive, rowVars
  <1>3. ASSUME NEW r \in Run, InsertRow(r)
         PROVE  RunningHasRunner'
    BY <1>3 DEF InsertRow, Goto, Returns, Alive, rowVars, PcInv, Unseen
  <1>4. ASSUME NEW r \in Run, AuditStarted(r)
         PROVE  RunningHasRunner'
    BY <1>4 DEF AuditStarted, Goto, Alive, rowVars
  <1>5. ASSUME NEW r \in Run, NEW cycle \in Cycle, RunLoop(r, cycle)
         PROVE  RunningHasRunner'
    BY <1>5 DEF RunLoop, Alive, rowVars
  <1>6. ASSUME NEW r \in Run, LoopFails(r)
         PROVE  RunningHasRunner'
    BY <1>6 DEF LoopFails, Goto, Alive, rowVars
  <1>7. ASSUME NEW r \in Run, MarkError(r)
         PROVE  RunningHasRunner'
    BY <1>7 DEF MarkError, Returns, Alive, rowVars
  <1>8. ASSUME NEW r \in Run, PersistTraces(r)
         PROVE  RunningHasRunner'
    BY <1>8 DEF PersistTraces, Goto, Alive, rowVars
  <1>9. ASSUME NEW r \in Run, WriteProposal(r)
         PROVE  RunningHasRunner'
    BY <1>9 DEF WriteProposal, Goto, Alive, rowVars
  <1>10. ASSUME NEW r \in Run, ReadBest(r)
         PROVE  RunningHasRunner'
    BY <1>10 DEF ReadBest, Alive, rowVars
  <1>11. ASSUME NEW r \in Run, CommitRun(r)
         PROVE  RunningHasRunner'
    BY <1>11 DEF CommitRun, Returns, Alive, rowVars
  <1>12. ASSUME NEW r \in Run, PersistFails(r)
         PROVE  RunningHasRunner'
    BY <1>12 DEF PersistFails, Goto, Alive, rowVars
  <1>13. ASSUME NEW r \in Run, FailsUnmarked(r)
         PROVE  RunningHasRunner'
    BY <1>13 DEF FailsUnmarked, Returns, Alive, rowVars
  <1>14. ASSUME NEW r \in Run, BeginGate(r)
         PROVE  RunningHasRunner'
    BY <1>14 DEF BeginGate, Goto, rowVars
  <1>15. ASSUME NEW r \in Run, LockWorkflow(r)
         PROVE  RunningHasRunner'
    BY <1>15 DEF LockWorkflow, rowVars
  <1>16. ASSUME NEW r \in Run, AuditGate(r)
         PROVE  RunningHasRunner'
    BY <1>16 DEF AuditGate, Goto, rowVars
  <1>17. ASSUME NEW r \in Run, NEW outcome \in Decision, RunBenchmark(r, outcome)
         PROVE  RunningHasRunner'
    BY <1>17 DEF RunBenchmark, rowVars
  <1>18. ASSUME NEW r \in Run, CommitGate(r)
         PROVE  RunningHasRunner'
    BY <1>18, GateEnds DEF CommitGate, Returns, rowVars, PcInv, Ended
  <1>19. ASSUME NEW r \in Run, AbortGate(r)
         PROVE  RunningHasRunner'
    BY <1>19 DEF AbortGate, Returns, rowVars, PcInv
  <1>20. ASSUME NEW p \in Process, Crash(p)
         PROVE  RunningHasRunner'
    BY <1>20 DEF Crash, Dies, rowVars
  <1>21. ASSUME NEW p \in Process, Boot(p)
         PROVE  RunningHasRunner'
    BY <1>21 DEF Boot, rowVars, runVars
  <1>22. ASSUME NEW p \in Process, Sweep(p)
         PROVE  RunningHasRunner'
    BY <1>22 DEF Sweep, rowVars, runVars, Orphans
  <1>23. ASSUME NEW p \in Process, SweepFails(p)
         PROVE  RunningHasRunner'
    BY <1>23 DEF SweepFails, rowVars, runVars
  <1>24. CASE UNCHANGED vars
    BY <1>24 DEF vars
  <1>25. QED
    BY <1>1, <1>2, <1>3, <1>4, <1>5, <1>6, <1>7, <1>8, <1>9, <1>10, <1>11, <1>12, <1>13, <1>14,
       <1>15, <1>16, <1>17, <1>18, <1>19, <1>20, <1>21, <1>22, <1>23, <1>24 DEF Next, Step, Fault


\* A row is running only while a runner works on it, or its instance is not up,
\* or one of the unhandled failures has abandoned it: nothing else leaves the
\* route's guard shut.
THEOREM RunningIsAlive == Spec => []RunningHasRunner
  <1>1. Init => RunningHasRunner
    BY DEF Init, RunningHasRunner
  <1>2. IInv /\ RunningHasRunner /\ [Next]_vars => RunningHasRunner'
    BY RunnerStep DEF IInv
  <1>3. QED
    BY <1>1, <1>2, Invariance, PTL DEF Spec

-----------------------------------------------------------------------------
\* With one instance, nothing sweeps the row of a runner that is at work.
WorkInv == \A r \in Run : pc[r] \in Working => state[r] = "running"

\* With one instance, every step keeps WorkInv.
LEMMA WorkStep ==
    (\A p, q \in Process : p = q) /\ TypeOK /\ PcInv /\ ModeInv /\ WorkInv /\ [Next]_vars => WorkInv'
  <1> SUFFICES ASSUME (\A p, q \in Process : p = q), TypeOK, PcInv, ModeInv, WorkInv, [Next]_vars
                 PROVE  WorkInv'
    OBVIOUS
  <1>1. ASSUME NEW r \in Run, Start(r)
         PROVE  WorkInv'
    BY <1>1 DEF WorkInv, TypeOK, Working, Start, Goto, Returns, Alive, rowVars
  <1>2. ASSUME NEW r \in Run, ReadIndex(r)
         PROVE  WorkInv'
    BY <1>2 DEF WorkInv, TypeOK, Working, ReadIndex, Alive, rowVars
  <1>3. ASSUME NEW r \in Run, InsertRow(r)
         PROVE  WorkInv'
    BY <1>3 DEF WorkInv, TypeOK, Working, InsertRow, Goto, Returns, Alive, rowVars
  <1>4. ASSUME NEW r \in Run, AuditStarted(r)
         PROVE  WorkInv'
    BY <1>4 DEF WorkInv, TypeOK, Working, AuditStarted, Goto, Alive, rowVars
  <1>5. ASSUME NEW r \in Run, NEW cycle \in Cycle, RunLoop(r, cycle)
         PROVE  WorkInv'
    BY <1>5 DEF WorkInv, TypeOK, Working, RunLoop, Alive, rowVars
  <1>6. ASSUME NEW r \in Run, LoopFails(r)
         PROVE  WorkInv'
    BY <1>6 DEF WorkInv, TypeOK, Working, LoopFails, Goto, Alive, rowVars
  <1>7. ASSUME NEW r \in Run, MarkError(r)
         PROVE  WorkInv'
    BY <1>7 DEF WorkInv, TypeOK, Working, MarkError, Returns, Alive, rowVars
  <1>8. ASSUME NEW r \in Run, PersistTraces(r)
         PROVE  WorkInv'
    BY <1>8 DEF WorkInv, TypeOK, Working, PersistTraces, Goto, Alive, rowVars
  <1>9. ASSUME NEW r \in Run, WriteProposal(r)
         PROVE  WorkInv'
    BY <1>9 DEF WorkInv, TypeOK, Working, WriteProposal, Goto, Alive, rowVars
  <1>10. ASSUME NEW r \in Run, ReadBest(r)
         PROVE  WorkInv'
    BY <1>10 DEF WorkInv, TypeOK, Working, ReadBest, Alive, rowVars
  <1>11. ASSUME NEW r \in Run, CommitRun(r)
         PROVE  WorkInv'
    BY <1>11 DEF WorkInv, TypeOK, Working, CommitRun, Returns, Alive, rowVars
  <1>12. ASSUME NEW r \in Run, PersistFails(r)
         PROVE  WorkInv'
    BY <1>12 DEF WorkInv, TypeOK, Working, PersistFails, Goto, Alive, rowVars
  <1>13. ASSUME NEW r \in Run, FailsUnmarked(r)
         PROVE  WorkInv'
    BY <1>13 DEF WorkInv, TypeOK, Working, FailsUnmarked, Returns, Alive, rowVars
  <1>14. ASSUME NEW r \in Run, BeginGate(r)
         PROVE  WorkInv'
    BY <1>14 DEF WorkInv, TypeOK, Working, BeginGate, Goto, rowVars
  <1>15. ASSUME NEW r \in Run, LockWorkflow(r)
         PROVE  WorkInv'
    BY <1>15 DEF WorkInv, TypeOK, Working, LockWorkflow, rowVars
  <1>16. ASSUME NEW r \in Run, AuditGate(r)
         PROVE  WorkInv'
    BY <1>16 DEF WorkInv, TypeOK, Working, AuditGate, Goto, rowVars
  <1>17. ASSUME NEW r \in Run, NEW outcome \in Decision, RunBenchmark(r, outcome)
         PROVE  WorkInv'
    BY <1>17 DEF WorkInv, TypeOK, Working, RunBenchmark, rowVars
  <1>18. ASSUME NEW r \in Run, CommitGate(r)
         PROVE  WorkInv'
    BY <1>18 DEF WorkInv, TypeOK, Working, CommitGate, Returns, rowVars, PcInv, GatePC
  <1>19. ASSUME NEW r \in Run, AbortGate(r)
         PROVE  WorkInv'
    BY <1>19 DEF WorkInv, TypeOK, Working, AbortGate, Returns, rowVars
  <1>20. ASSUME NEW p \in Process, Crash(p)
         PROVE  WorkInv'
    BY <1>20 DEF WorkInv, TypeOK, Working, Crash, Dies, rowVars
  <1>21. ASSUME NEW p \in Process, Boot(p)
         PROVE  WorkInv'
    BY <1>21 DEF WorkInv, TypeOK, Working, Boot, rowVars, runVars
  <1>22. ASSUME NEW p \in Process, Sweep(p)
         PROVE  WorkInv'
    <2>1. \A s \in Run : pc[s] \in Working => FALSE
      BY <1>22, IterationAssumption DEF Sweep, ModeInv, InFlight, Working, PcInv, GatePC
    <2>2. QED
      BY <1>22, <2>1 DEF Sweep, runVars, WorkInv
  <1>23. ASSUME NEW p \in Process, SweepFails(p)
         PROVE  WorkInv'
    BY <1>23 DEF WorkInv, TypeOK, Working, SweepFails, rowVars, runVars
  <1>24. CASE UNCHANGED vars
    BY <1>24 DEF WorkInv, TypeOK, Working, vars
  <1>25. QED
    BY <1>1, <1>2, <1>3, <1>4, <1>5, <1>6, <1>7, <1>8, <1>9, <1>10, <1>11, <1>12, <1>13, <1>14,
       <1>15, <1>16, <1>17, <1>18, <1>19, <1>20, <1>21, <1>22, <1>23, <1>24 DEF Next, Step, Fault

\* With one instance, no step takes an ended row to another state.
EndsStay ==
    \A s \in Run : state[s] \in Ended => state'[s] = state[s]

\* No step changes an iteration that has ended.
LEMMA EndsOnce ==
    TypeOK /\ PcInv /\ WorkInv /\ [Next]_vars => EndsStay
  <1> SUFFICES ASSUME TypeOK, PcInv, WorkInv, [Next]_vars
                 PROVE  EndsStay
    OBVIOUS
  <1> USE DEF TypeOK, Ended, EndsStay
  <1>1. ASSUME NEW r \in Run, Start(r)
         PROVE  EndsStay
    BY <1>1 DEF Start, Goto, Returns, Alive, rowVars
  <1>2. ASSUME NEW r \in Run, ReadIndex(r)
         PROVE  EndsStay
    BY <1>2 DEF ReadIndex, Alive, rowVars
  <1>3. ASSUME NEW r \in Run, InsertRow(r)
         PROVE  EndsStay
    BY <1>3 DEF InsertRow, Goto, Returns, Alive, rowVars, PcInv, Unseen
  <1>4. ASSUME NEW r \in Run, AuditStarted(r)
         PROVE  EndsStay
    BY <1>4 DEF AuditStarted, Goto, Alive, rowVars
  <1>5. ASSUME NEW r \in Run, NEW cycle \in Cycle, RunLoop(r, cycle)
         PROVE  EndsStay
    BY <1>5 DEF RunLoop, Alive, rowVars
  <1>6. ASSUME NEW r \in Run, LoopFails(r)
         PROVE  EndsStay
    BY <1>6 DEF LoopFails, Goto, Alive, rowVars
  <1>7. ASSUME NEW r \in Run, MarkError(r)
         PROVE  EndsStay
    BY <1>7 DEF MarkError, Returns, Alive, rowVars, WorkInv, Working
  <1>8. ASSUME NEW r \in Run, PersistTraces(r)
         PROVE  EndsStay
    BY <1>8 DEF PersistTraces, Goto, Alive, rowVars
  <1>9. ASSUME NEW r \in Run, WriteProposal(r)
         PROVE  EndsStay
    BY <1>9 DEF WriteProposal, Goto, Alive, rowVars
  <1>10. ASSUME NEW r \in Run, ReadBest(r)
         PROVE  EndsStay
    BY <1>10 DEF ReadBest, Alive, rowVars
  <1>11. ASSUME NEW r \in Run, CommitRun(r)
         PROVE  EndsStay
    BY <1>11 DEF CommitRun, Returns, Alive, rowVars, WorkInv, Working
  <1>12. ASSUME NEW r \in Run, PersistFails(r)
         PROVE  EndsStay
    BY <1>12 DEF PersistFails, Goto, Alive, rowVars
  <1>13. ASSUME NEW r \in Run, FailsUnmarked(r)
         PROVE  EndsStay
    BY <1>13 DEF FailsUnmarked, Returns, Alive, rowVars
  <1>14. ASSUME NEW r \in Run, BeginGate(r)
         PROVE  EndsStay
    BY <1>14 DEF BeginGate, Goto, rowVars
  <1>15. ASSUME NEW r \in Run, LockWorkflow(r)
         PROVE  EndsStay
    BY <1>15 DEF LockWorkflow, rowVars
  <1>16. ASSUME NEW r \in Run, AuditGate(r)
         PROVE  EndsStay
    BY <1>16 DEF AuditGate, Goto, rowVars
  <1>17. ASSUME NEW r \in Run, NEW outcome \in Decision, RunBenchmark(r, outcome)
         PROVE  EndsStay
    BY <1>17 DEF RunBenchmark, rowVars
  <1>18. ASSUME NEW r \in Run, CommitGate(r)
         PROVE  EndsStay
    BY <1>18 DEF CommitGate, Returns, rowVars, PcInv, Unseen
  <1>19. ASSUME NEW r \in Run, AbortGate(r)
         PROVE  EndsStay
    BY <1>19 DEF AbortGate, Returns, rowVars
  <1>20. ASSUME NEW p \in Process, Crash(p)
         PROVE  EndsStay
    BY <1>20 DEF Crash, Dies, rowVars
  <1>21. ASSUME NEW p \in Process, Boot(p)
         PROVE  EndsStay
    BY <1>21 DEF Boot, rowVars, runVars
  <1>22. ASSUME NEW p \in Process, Sweep(p)
         PROVE  EndsStay
    BY <1>22 DEF Sweep, rowVars, runVars, Orphans
  <1>23. ASSUME NEW p \in Process, SweepFails(p)
         PROVE  EndsStay
    BY <1>23 DEF SweepFails, rowVars, runVars
  <1>24. CASE UNCHANGED vars
    BY <1>24 DEF vars
  <1>25. QED
    BY <1>1, <1>2, <1>3, <1>4, <1>5, <1>6, <1>7, <1>8, <1>9, <1>10, <1>11, <1>12, <1>13, <1>14,
       <1>15, <1>16, <1>17, <1>18, <1>19, <1>20, <1>21, <1>22, <1>23, <1>24 DEF Next, Step, Fault

\* The steps that readers of the iterations can see.
ShowsOnly ==
    \/ UNCHANGED <<state, index, proposal>>
    \/ \E r \in Run : (InsertRow(r) /\ ~Taken(r)) \/ CommitGate(r)
    \/ \E r \in Run : MarkError(r) \/ CommitRun(r)
    \/ \E p \in Process : Sweep(p) /\ Orphans # {}

\* No other step changes what a reader of the rows sees.
LEMMA VisibleSteps ==
    TypeOK /\ [Next]_vars => ShowsOnly
  <1> SUFFICES ASSUME TypeOK, [Next]_vars
                 PROVE  ShowsOnly
    OBVIOUS
  <1> USE DEF ShowsOnly
  <1>1. ASSUME NEW r \in Run, Start(r)
         PROVE  ShowsOnly
    BY <1>1 DEF Start, Goto, Returns, Alive, rowVars
  <1>2. ASSUME NEW r \in Run, ReadIndex(r)
         PROVE  ShowsOnly
    BY <1>2 DEF ReadIndex, Alive, rowVars
  <1>3. ASSUME NEW r \in Run, InsertRow(r)
         PROVE  ShowsOnly
    BY <1>3 DEF InsertRow, Goto, Returns, Alive, rowVars
  <1>4. ASSUME NEW r \in Run, AuditStarted(r)
         PROVE  ShowsOnly
    BY <1>4 DEF AuditStarted, Goto, Alive, rowVars
  <1>5. ASSUME NEW r \in Run, NEW cycle \in Cycle, RunLoop(r, cycle)
         PROVE  ShowsOnly
    BY <1>5 DEF RunLoop, Alive, rowVars
  <1>6. ASSUME NEW r \in Run, LoopFails(r)
         PROVE  ShowsOnly
    BY <1>6 DEF LoopFails, Goto, Alive, rowVars
  <1>7. ASSUME NEW r \in Run, MarkError(r)
         PROVE  ShowsOnly
    BY <1>7 DEF MarkError, Returns, Alive, rowVars
  <1>8. ASSUME NEW r \in Run, PersistTraces(r)
         PROVE  ShowsOnly
    BY <1>8 DEF PersistTraces, Goto, Alive, rowVars
  <1>9. ASSUME NEW r \in Run, WriteProposal(r)
         PROVE  ShowsOnly
    BY <1>9 DEF WriteProposal, Goto, Alive, rowVars
  <1>10. ASSUME NEW r \in Run, ReadBest(r)
         PROVE  ShowsOnly
    BY <1>10 DEF ReadBest, Alive, rowVars
  <1>11. ASSUME NEW r \in Run, CommitRun(r)
         PROVE  ShowsOnly
    BY <1>11 DEF CommitRun, Returns, Alive, rowVars
  <1>12. ASSUME NEW r \in Run, PersistFails(r)
         PROVE  ShowsOnly
    BY <1>12 DEF PersistFails, Goto, Alive, rowVars
  <1>13. ASSUME NEW r \in Run, FailsUnmarked(r)
         PROVE  ShowsOnly
    BY <1>13 DEF FailsUnmarked, Returns, Alive, rowVars
  <1>14. ASSUME NEW r \in Run, BeginGate(r)
         PROVE  ShowsOnly
    BY <1>14 DEF BeginGate, Goto, rowVars
  <1>15. ASSUME NEW r \in Run, LockWorkflow(r)
         PROVE  ShowsOnly
    BY <1>15 DEF LockWorkflow, rowVars
  <1>16. ASSUME NEW r \in Run, AuditGate(r)
         PROVE  ShowsOnly
    BY <1>16 DEF AuditGate, Goto, rowVars
  <1>17. ASSUME NEW r \in Run, NEW outcome \in Decision, RunBenchmark(r, outcome)
         PROVE  ShowsOnly
    BY <1>17 DEF RunBenchmark, rowVars
  <1>18. ASSUME NEW r \in Run, CommitGate(r)
         PROVE  ShowsOnly
    BY <1>18 DEF CommitGate, Returns, rowVars
  <1>19. ASSUME NEW r \in Run, AbortGate(r)
         PROVE  ShowsOnly
    BY <1>19 DEF AbortGate, Returns, rowVars
  <1>20. ASSUME NEW p \in Process, Crash(p)
         PROVE  ShowsOnly
    BY <1>20 DEF Crash, Dies, rowVars
  <1>21. ASSUME NEW p \in Process, Boot(p)
         PROVE  ShowsOnly
    BY <1>21 DEF Boot, rowVars, runVars
  <1>22. ASSUME NEW p \in Process, Sweep(p)
         PROVE  ShowsOnly
    BY <1>22 DEF Sweep, rowVars, runVars, TypeOK, Orphans
  <1>23. ASSUME NEW p \in Process, SweepFails(p)
         PROVE  ShowsOnly
    BY <1>23 DEF SweepFails, rowVars, runVars
  <1>24. CASE UNCHANGED vars
    BY <1>24 DEF vars
  <1>25. QED
    BY <1>1, <1>2, <1>3, <1>4, <1>5, <1>6, <1>7, <1>8, <1>9, <1>10, <1>11, <1>12, <1>13, <1>14,
       <1>15, <1>16, <1>17, <1>18, <1>19, <1>20, <1>21, <1>22, <1>23, <1>24 DEF Next, Step, Fault


\* With one instance, every running row has its run.
LEMMA WorkInvariance ==
    ASSUME NEW k, Process = {k}
    PROVE  Spec => []WorkInv
  <1>1. Init => WorkInv
    BY DEF Init, WorkInv, Working
  <1>2. IInv /\ WorkInv /\ [Next]_vars => WorkInv'
    BY WorkStep DEF IInv
  <1>3. QED
    BY <1>1, <1>2, Invariance, PTL DEF Spec

\* With one kernel instance, an iteration that has ended keeps its state.
THEOREM EndsForGood ==
    ASSUME NEW k, Process = {k}
    PROVE  Spec => EndedForGood
  <1>1. IInv /\ WorkInv /\ [Next]_vars => [\A r \in Run : state[r] \in Ended => state'[r] = state[r]]_vars
    BY EndsOnce DEF IInv, EndsStay
  <1>2. QED
    BY <1>1, Invariance, WorkInvariance, PTL DEF Spec, EndedForGood

\* The step of the contract that a step of the code is.
LEMMA ContractStep ==
    ASSUME IInv, WorkInv, Next
    PROVE  Contract!Next \/ UNCHANGED Contract!vars
  <1>1. CASE UNCHANGED <<state, index, proposal>>
    BY <1>1 DEF Contract!vars
  <1>2. ASSUME NEW r \in Run, (InsertRow(r) /\ ~Taken(r)) \/ CommitGate(r)
        PROVE  Contract!Next
    <2>1. index' = [index EXCEPT ![r] = Contract!Cardinality({q \in Run : state[q] # "absent"})]
      <3>1. idx[r] = Cardinality({q \in Run : state[q] # "absent"})
        BY <1>2, NewIndex DEF IInv, Rows
      <3>2. Contract!Cardinality({q \in Run : state[q] # "absent"})
              = Cardinality({q \in Run : state[q] # "absent"})
        BY DEF Cardinality, Contract!Cardinality
      <3>3. index' = [index EXCEPT ![r] = idx[r]]
        BY <1>2 DEF InsertRow, CommitGate
      <3>4. QED
        BY <3>1, <3>2, <3>3
    <2>2. state[r] = "absent" /\ proposal[r] = FALSE
      BY <1>2 DEF IInv, TypeOK, PcInv, Unseen, InsertRow, CommitGate, ProposalMeansPass
    <2>3. CASE InsertRow(r) /\ ~Taken(r)
      <3>1. /\ state' = [state EXCEPT ![r] = "running"]
            /\ proposal' = [proposal EXCEPT ![r] = "running" = "gate-pass"]
        BY <2>2, <2>3 DEF InsertRow, IInv, TypeOK
      <3>2. Contract!Appear(r)
        BY <2>1, <2>2, <3>1 DEF Contract!Appear
      <3>3. QED
        BY <3>2 DEF Contract!Next
    <2>4. CASE CommitGate(r)
      <3>1. plan[r] \in Decision
        BY <2>4 DEF IInv, PcInv, CommitGate
      <3> DEFINE s == AfterGate(plan[r].decision)
      <3>2. s \in Ended /\ (s = "gate-pass" <=> plan[r].decision = "pass")
        BY <3>1, GateEnds
      <3>3. /\ state' = [state EXCEPT ![r] = s]
            /\ proposal' = [proposal EXCEPT ![r] = s = "gate-pass"]
        BY <2>4, <3>2 DEF CommitGate
      <3>4. s \in Contract!Ended
        BY <3>2 DEF Ended, Contract!Ended
      <3> HIDE DEF s
      <3>5. Contract!Appear(r)
        BY <2>1, <2>2, <3>3, <3>4 DEF Contract!Appear
      <3>6. QED
        BY <3>5 DEF Contract!Next
    <2>5. QED
      BY <1>2, <2>3, <2>4
  <1>3. ASSUME NEW r \in Run, MarkError(r) \/ CommitRun(r)
        PROVE  Contract!Next
    <2> DEFINE e == IF MarkError(r) THEN "sandbox-error"
                    ELSE IF plan[r].edit THEN "gate-pass" ELSE "gate-blocked"
    <2>1. state[r] = "running" /\ proposal[r] = FALSE
      BY <1>3 DEF MarkError, CommitRun, WorkInv, Working, IInv, TypeOK, ProposalMeansPass
    <2>2. CommitRun(r) => plan[r].edit \in BOOLEAN /\ ~MarkError(r)
      BY DEF IInv, PcInv, CommitRun, MarkError, Cycle
    <2>3. /\ e \in Contract!Ended
          /\ index' = index
          /\ state' = [state EXCEPT ![r] = e]
          /\ proposal' = [proposal EXCEPT ![r] = e = "gate-pass"]
      BY <1>3, <2>1, <2>2 DEF MarkError, CommitRun, Contract!Ended, IInv, TypeOK
    <2> HIDE DEF e
    <2>4. Contract!End({r})
      <3> DEFINE f == [q \in {r} |-> e]
      <3>1. f \in [{r} -> Contract!Ended] /\ f[r] = e
        BY <2>3
      <3>2. /\ state' = [q \in Run |-> IF q \in {r} THEN f[q] ELSE state[q]]
            /\ proposal' = [q \in Run |-> IF q \in {r} THEN f[q] = "gate-pass" ELSE proposal[q]]
        BY <2>3 DEF IInv, TypeOK
      <3>3. QED
        BY <2>1, <2>3, <3>1, <3>2 DEF Contract!End
    <2>5. QED
      BY <2>4 DEF Contract!Next
  <1>4. ASSUME NEW p \in Process, Sweep(p), Orphans # {}
        PROVE  Contract!Next
    <2> DEFINE f == [q \in Orphans |-> "sandbox-error"]
    <2>1. Orphans \in SUBSET Run /\ \A q \in Orphans : state[q] = "running" /\ proposal[q] = FALSE
      BY DEF Orphans, IInv, TypeOK, ProposalMeansPass
    <2>2. f \in [Orphans -> Contract!Ended] /\ \A q \in Orphans : f[q] = "sandbox-error"
      BY DEF Contract!Ended
    <2>3. /\ state' = [q \in Run |-> IF q \in Orphans THEN f[q] ELSE state[q]]
          /\ proposal' = [q \in Run |-> IF q \in Orphans THEN f[q] = "gate-pass" ELSE proposal[q]]
          /\ index' = index
      BY <1>4, <2>1, <2>2 DEF Sweep, IInv, TypeOK
    <2>4. Contract!End(Orphans)
      BY <1>4, <2>1, <2>2, <2>3 DEF Contract!End
    <2>5. QED
      BY <2>1, <2>4 DEF Contract!Next
  <1>5. QED
    BY <1>1, <1>2, <1>3, <1>4, VisibleSteps DEF IInv, ShowsOnly

\* With one kernel instance, the runners, gates, crashes and sweeps implement
\* the contract.
THEOREM Refinement ==
    ASSUME NEW k, Process = {k}
    PROVE  Spec => ImplementsContract
  <1>1. Init => Contract!Init
    BY DEF Init, Contract!Init
  <1>2. IInv /\ WorkInv /\ [Next]_vars => [Contract!Next]_(Contract!vars)
    BY ContractStep DEF vars, Contract!vars
  <1>3. QED
    BY <1>1, <1>2, Invariance, WorkInvariance, PTL DEF Spec, ImplementsContract, Contract!Spec

=============================================================================
