-------------------------- MODULE ImprovementDriver --------------------------
(***************************************************************************)
(* The drivers that call the gate: the M5 and tau3 loops                   *)
(* (scripts/run_improvement_loop.py, run_tau3_loop.py), run again and      *)
(* again for several conditions at once (replay/thirty_day.py), and the    *)
(* synthetic replay (replay/seven_day.py); with the gate's decision        *)
(* procedure (gate/runner.py), seeding and the approval after a pass.      *)
(*                                                                         *)
(* Conditions have workflows of their own but share one skill.  An agent   *)
(* turn is its outcome: which version it wrote and how it ended.           *)
(***************************************************************************)
EXTENDS Naturals, FiniteSets, Sequences

CONSTANTS
    Driver,      \* the series of runs, one for each condition
    ModeOf,      \* what follows a pass: "none", "autonomous", "llm-judge"; or "replay"
    FlowOf,      \* the workflow of a series
    Smoked,      \* the series that try one task before the gate (tau3)
    Launches,    \* the sets of series that are started together
    Rounds,      \* runs in a series
    NumTasks,    \* tasks of the benchmark
    ScoreUnit,   \* 10^6: a stored score is a whole number of 1/ScoreUnit
    SeedCases,   \* n_initial_priors
    MaxVersions, \* bound on the versions of the skill
    NoDriver

ASSUME DriverAssumption ==
    /\ NumTasks \in Nat \ {0} /\ SeedCases \in 0..NumTasks /\ NoDriver \notin Driver
    /\ Launches \subseteq SUBSET Driver
    /\ ModeOf \in [Driver -> {"none", "autonomous", "llm-judge", "replay"}]
    /\ Rounds \in Nat /\ ScoreUnit \in Nat \ {0}
    /\ \A d, e \in Driver : ModeOf[d] = "replay" /\ ModeOf[e] = "replay" => d = e  \* suite is its suite

Task == 1..NumTasks
Flow == {FlowOf[d] : d \in Driver}

VARIABLES
    bodies,     \* contents of the skill's versions, by version_seq
    headSeq,    \* head_version_id; 0 when the skill does not exist
    iterations, \* committed gate runs with their proposals, in commit order
    flowLock,   \* who holds the row of a workflow
    suite,      \* task ids of the replay's eval cases
    series,     \* where a series is, and what its current run has read
    halting     \* halt_on_error, or the series was stopped with a run that failed

driverVars == <<bodies, headSeq, iterations, flowLock, suite, series, halting>>

NoScore == <<0, 0>>
Higher(a, b) == a[1] * b[2] > b[1] * a[2]

\* val_score and best_ever_score_after are numeric(10,6): halves go up.
Numeric(score) == <<(2 * ScoreUnit * score[1] + score[2]) \div (2 * score[2]), ScoreUnit>>

NewRun == [at |-> "start", version |-> 0, priors |-> {}, before |-> NoScore, row |-> 0]

DriverInit ==
    /\ bodies = <<>> \/ bodies = <<"baseline">>
    /\ headSeq = Len(bodies)
    /\ iterations = <<>>
    /\ flowLock = [w \in Flow |-> NoDriver]
    /\ suite = [n \in 1..SeedCases |-> n]
    /\ \E launched \in Launches :
          series = [d \in Driver |-> [run |-> NewRun, left |-> IF d \in launched THEN Rounds ELSE 0, cycle |-> 0]]
    /\ halting \in {"no", "on error"}

At(d) == series[d].run.at
Put(d, r) == series' = [series EXCEPT ![d].run = r]
MovesTo(d, label) == Put(d, [series[d].run EXCEPT !.at = label])

\* The process of a run ends; with halt_on_error a failed one ends all series.
RunsOver(d) == [series EXCEPT ![d].run = NewRun, ![d].left = @ - 1, ![d].cycle = @ + 1]
EndsWell(d) == series' = RunsOver(d) /\ UNCHANGED halting
EndsBadly(d) ==
    /\ series' = RunsOver(d)
    /\ halting' = IF halting = "no" THEN "no" ELSE "halted"

Runs(d) == series[d].left > 0 /\ halting # "halted"
Loops(d) == ModeOf[d] # "replay"

\* register_skill: a first version is the head, a later one is not.
HeadAfterWrite(seq) == IF headSeq = 0 THEN seq ELSE headSeq
Register(body) ==
    /\ Len(bodies) < MaxVersions
    /\ bodies' = Append(bodies, body)
    /\ headSeq' = HeadAfterWrite(Len(bodies) + 1)

\* seed_baseline, seed_tau3_retail: one transaction under the workflow's lock.
\* --no-seed leaves it out.
HeadIsBaseline == headSeq # 0 /\ bodies[headSeq] = "baseline"
Seed(d) ==
    /\ Runs(d) /\ Loops(d) /\ At(d) = "start"
    /\ MovesTo(d, "agent")
    /\ \/ UNCHANGED <<bodies, headSeq>>
       \/ flowLock[FlowOf[d]] = NoDriver /\ ~HeadIsBaseline /\ Register("baseline")
    /\ UNCHANGED <<iterations, flowLock, suite, halting>>

\* The agent's write_skill, alone or as one of several.
Write(d) ==
    /\ Runs(d) /\ At(d) = "agent"
    /\ Register("change")
    /\ Put(d, [series[d].run EXCEPT !.version = Len(bodies) + 1])
    /\ UNCHANGED <<iterations, flowLock, suite, halting>>

\* It ends cleanly with a version that can be materialized.
AgentEnds(d) ==
    /\ Runs(d) /\ At(d) = "agent" /\ series[d].run.version # 0
    /\ MovesTo(d, IF d \in Smoked THEN "smoke" ELSE "gate")
    /\ UNCHANGED <<bodies, headSeq, iterations, flowLock, suite, halting>>

\* Exit 5, 6 or 7: uncleanly, without a version, or with one of an unknown
\* skill; what it has written stays.
AgentFails(d) ==
    /\ Runs(d) /\ At(d) = "agent"
    /\ EndsBadly(d)
    /\ UNCHANGED <<bodies, headSeq, iterations, flowLock, suite>>

\* One task: it runs, or no candidate task exists, or exit 8 or 9.
Smoke(d) ==
    /\ Runs(d) /\ At(d) = "smoke"
    /\ \/ MovesTo(d, "gate") /\ UNCHANGED halting
       \/ EndsBadly(d)
    /\ UNCHANGED <<bodies, headSeq, iterations, flowLock, suite>>

\* run_seven_day_replay: the eval cases are read before the gate's lock.
ReadPriors(d) ==
    /\ Runs(d) /\ ~Loops(d) /\ At(d) = "start"
    /\ Put(d, [series[d].run EXCEPT !.at = "gate", !.priors = {suite[i] : i \in DOMAIN suite}])
    /\ UNCHANGED <<bodies, headSeq, iterations, flowLock, suite, halting>>

\* persist_gate_run: MAX(best_ever_score_after) of the workflow, under its lock.
RowsOf(w) == {i \in DOMAIN iterations : iterations[i].workflow = w}
Scored(w) == {i \in RowsOf(w) : iterations[i].after # NoScore}
BestEver_anyFlow(w) == IF iterations = <<>> THEN NoScore ELSE iterations[Len(iterations)].after
BestEver(w) ==
    IF Scored(w) = {} THEN NoScore
    ELSE iterations[CHOOSE i \in Scored(w) : \A j \in Scored(w) : ~Higher(iterations[j].after, iterations[i].after)].after
LockFlow(d) ==
    /\ Runs(d) /\ At(d) = "gate" /\ flowLock[FlowOf[d]] = NoDriver
    /\ flowLock' = [flowLock EXCEPT ![FlowOf[d]] = d]
    /\ Put(d, [series[d].run EXCEPT !.at = "run", !.before = BestEver(FlowOf[d])])
    /\ UNCHANGED <<bodies, headSeq, iterations, suite, halting>>
LockTimesOut(d) ==
    /\ Runs(d) /\ At(d) = "gate" /\ flowLock[FlowOf[d]] # NoDriver
    /\ EndsBadly(d)
    /\ UNCHANGED <<bodies, headSeq, iterations, flowLock, suite>>

\* What a benchmark reports: full credit, none, no result or a number out of
\* range, for the tasks it reports at all.  The replay's depends on the cycle.
Reports == UNION {[S -> {"full", "zero", "none", "odd"}] : S \in SUBSET Task}
Passing(cycle) == {t \in Task : t <= SeedCases + cycle}
ReportsOf(d) ==
    IF Loops(d) THEN Reports
    ELSE {[t \in Task |-> IF t \in Passing(series[d].cycle) THEN "full" ELSE "zero"]}
With(report, rewards) == {t \in DOMAIN report : report[t] \in rewards}

\* val_score: the mean over the tasks reported, 0 when none is.
Mean(report) ==
    IF With(report, {"full"}) = {} THEN <<0, 1>>
    ELSE IF With(report, {"full"}) = DOMAIN report THEN <<1, 1>>
    ELSE <<Cardinality(With(report, {"full"})), Cardinality(DOMAIN report)>>

\* run_gate: the mean is compared as it is, the best-ever score as it was stored.
Untrusted(report) == With(report, {"odd", "none"}) # {}
Regressed(report, priors) == {t \in priors : t \notin With(report, {"full"})}
GateVerdict(report, priors, best) ==
    IF Untrusted(report) THEN "error"
    ELSE IF Regressed(report, priors) # {} THEN "regression"
    ELSE IF best # NoScore /\ ~Higher(Mean(report), best) THEN "no improvement"
    ELSE "pass"

\* _DECISION_TO_PROPOSAL_STATE
ProposalAfter(verdict) ==
    CASE verdict = "pass" -> "gate-passed"
      [] verdict = "error" -> "gate-failed"
      [] OTHER -> "rejected"
HeadAfterRun(verdict, version) == IF verdict = "pass" /\ version # 0 THEN version ELSE headSeq

\* The gate's transaction commits the iteration with its stored score, the
\* proposal and the head.
Finish(d, verdict, score) ==
    LET r == series[d].run
    IN  /\ iterations' = Append(iterations,
               [workflow |-> FlowOf[d], verdict |-> verdict, score |-> score, version |-> r.version,
                after |-> IF verdict = "pass" THEN score ELSE r.before,
                state |-> ProposalAfter(verdict), by |-> NoDriver])
        /\ headSeq' = HeadAfterRun(verdict, r.version)
        /\ flowLock' = [flowLock EXCEPT ![FlowOf[d]] = NoDriver]
        /\ IF verdict = "pass" /\ ModeOf[d] # "none"
           THEN Put(d, [r EXCEPT !.at = IF Loops(d) THEN "approve" ELSE "grow", !.row = Len(iterations) + 1])
           ELSE series' = RunsOver(d)
RunGate(d) ==
    /\ Runs(d) /\ At(d) = "run"
    /\ \/ \E report \in ReportsOf(d) :
             LET verdict == GateVerdict(report, series[d].run.priors, series[d].run.before)
             IN  Finish(d, verdict, IF verdict = "error" THEN NoScore ELSE Numeric(Mean(report)))
       \/ Loops(d) /\ Finish(d, "error", NoScore)
    /\ UNCHANGED <<bodies, suite, halting>>

\* approve_proposal, reject_proposal: only a proposal that is gate-passed.
Decided(i, who, state) ==
    iterations' = [iterations EXCEPT ![i].state = state, ![i].by = who]
Judgements(d) == IF ModeOf[d] = "autonomous" THEN {"approved-awaiting-deploy"}
              ELSE {"approved-awaiting-deploy", "rejected"}
Undecided(i) == iterations[i].state = "gate-passed"
Approve(d) ==
    LET i == series[d].run.row
    IN  /\ Runs(d) /\ At(d) = "approve"
        /\ IF Undecided(i)
           THEN (\E state \in Judgements(d) : Decided(i, d, state)) /\ EndsWell(d)
           ELSE EndsBadly(d) /\ UNCHANGED iterations
        /\ UNCHANGED <<bodies, headSeq, flowLock, suite>>

\* A reviewer may be first, or find what a killed run has left undecided.
HumanDecides(i) ==
    /\ Undecided(i)
    /\ \E state \in {"approved-awaiting-deploy", "rejected", "changes-requested"} : Decided(i, "human", state)
    /\ UNCHANGED <<bodies, headSeq, flowLock, suite, series, halting>>

\* _grow_eval_set_from_failures: the first failure that was not among the cases
\* read; then the admission is audited.
Missing(d) == (Task \ Passing(series[d].cycle)) \ series[d].run.priors
Grow(d) ==
    /\ Runs(d) /\ At(d) = "grow"
    /\ suite' = IF Missing(d) = {} THEN suite
                ELSE Append(suite, CHOOSE t \in Missing(d) : \A u \in Missing(d) : t <= u)
    /\ EndsWell(d)
    /\ UNCHANGED <<bodies, headSeq, iterations, flowLock>>

\* A run is killed, on its timeout or because another failed with
\* halt_on_error; its transaction is rolled back.  A replay starts over.
Kill(d) ==
    /\ Runs(d) /\ At(d) # "start"
    /\ flowLock' = [w \in Flow |-> IF flowLock[w] = d THEN NoDriver ELSE flowLock[w]]
    /\ series' = IF Loops(d) THEN RunsOver(d) ELSE [RunsOver(d) EXCEPT ![d].cycle = 0]
    /\ halting' = IF halting = "no" THEN "no" ELSE "halted"
    /\ UNCHANGED <<bodies, headSeq, iterations, suite>>

DriverNext ==
    \/ \E d \in Driver :
          \/ Seed(d) \/ Write(d) \/ AgentEnds(d) \/ AgentFails(d) \/ Smoke(d) \/ ReadPriors(d)
          \/ LockFlow(d) \/ LockTimesOut(d) \/ RunGate(d) \/ Approve(d) \/ Grow(d) \/ Kill(d)
    \/ \E i \in DOMAIN iterations : HumanDecides(i)

DriverSpec == DriverInit /\ [][DriverNext]_driverVars

-----------------------------------------------------------------------------
DriverTypeOK ==
    /\ headSeq \in 0..Len(bodies)
    /\ \A d \in Driver : /\ series[d].left \in 0..Rounds
                         /\ series[d].run.row \in 0..Len(iterations)
    /\ \A w \in Flow : flowLock[w] \in Driver \cup {NoDriver}

\* A stored score that rounding has lowered is beaten by the mean it was, so the
\* same mean passes again and again.
RoundedDown(score) == \E report \in Reports : Numeric(Mean(report)) = score /\ Higher(Mean(report), score)
Outdoes(a, b) == Higher(a, b) \/ (a = b /\ RoundedDown(a))

\* The head of the skill is the version of the last pass of any condition, or
\* the first version; every pass beats all passes of its workflow before it, but
\* for a tie of a score that was rounded down, and no other gate run moves the
\* workflow's best-ever score; a proposal is decided after a pass only; and the
\* replay's suite holds a case once.  Whatever runs are killed between gate and
\* approval, and whoever decides first.
Passes == {i \in DOMAIN iterations : iterations[i].verdict = "pass"}
PassedVersions == {i \in Passes : iterations[i].version # 0}
Served == IF PassedVersions = {} THEN (IF bodies = <<>> THEN 0 ELSE 1)
          ELSE iterations[CHOOSE i \in PassedVersions : \A j \in PassedVersions : j <= i].version
OnlyPassesCount ==
    /\ headSeq = Served
    /\ \A i, j \in Passes : i < j /\ iterations[i].workflow = iterations[j].workflow
                            => Outdoes(iterations[j].score, iterations[i].score)
    /\ \A i \in DOMAIN iterations :
          LET earlier == {j \in Passes : j <= i /\ iterations[j].workflow = iterations[i].workflow}
          IN  /\ earlier = {} => iterations[i].after = NoScore
              /\ earlier # {} => iterations[i].after =
                                 iterations[CHOOSE j \in earlier : \A k \in earlier : k <= j].score
              /\ iterations[i].by # NoDriver => i \in Passes
    /\ \A i, j \in DOMAIN suite : suite[i] = suite[j] => i = j
=============================================================================
