----------------------------- MODULE EvalCycles -----------------------------
(***************************************************************************)
(* What an iteration does while it holds no transaction: agent runs over   *)
(* the evaluation cases, their score, the clusters of the failures and the *)
(* proposed edit of the instruction (nl_gen/loop.py, called by             *)
(* iteration_runner.py), up to the version and dominant cluster that its   *)
(* last transaction stores.                                                *)
(*                                                                         *)
(* `tier` says where predictions come from: an LLM ("real"), a curve       *)
(* ("mock"), captured outputs ("replay"); "smoketest" is one agent run     *)
(* under a token budget (scripts/nl_gen_smoketest.py).  Texts are          *)
(* sequences of units: "h" of the head version, "s" of steering, "e" of an *)
(* edit.                                                                   *)
(***************************************************************************)
EXTENDS Integers, Sequences, FiniteSets, SequencesExt, FiniteSetsExt

CONSTANTS
    NumCases,     \* the case set is 1..NumCases, in its order
    HeldOut,      \* the cases with is_test_fold
    PositiveSets, \* bound: the sets of cases whose expected_value may be true
    MinInputs,    \* QualityThresholds.min_inputs
    MinCluster,   \* QualityThresholds.min_cluster_size
    MegaPercent,  \* QualityThresholds.mega_cluster_threshold
    TextCap,      \* _MAX_CUMULATIVE_INSTRUCTION_CHARS
    EditUnits,    \* bound: lengths of an edit
    MaxExamples,  \* n_failure_examples_per_cluster
    TokenCap,     \* TokenBudget.max_tokens
    CallTokens    \* bound: tokens one call may use

Case == 1..NumCases

ASSUME EvalAssumption ==
    /\ NumCases \in Nat \ {0} /\ HeldOut \subseteq Case
    /\ PositiveSets \subseteq SUBSET Case
    /\ MinInputs \in Nat \ {0} /\ MinCluster \in Nat \ {0} /\ MegaPercent \in 0..100
    /\ TextCap \in Nat \ {0} /\ EditUnits \subseteq 1..TextCap
    /\ MaxExamples \in Nat \ {0}
    /\ TokenCap \in Nat \ {0} /\ CallTokens \subseteq Nat

VARIABLES
    tier,        \* workflows.sim_tier
    truth,       \* expected_value of each case
    captured,    \* predictions of the source iteration of a replay
    headText,    \* the head version's instruction
    steering,    \* comment of the latest changes-requested decision
    stage,       \* where the iteration is
    planned,     \* n_cycles
    text,        \* cumulative_instruction
    before,      \* instruction_before of the cycle that runs
    answers,     \* predictions of the cycle that runs
    cycles,      \* the CycleOutcomes so far
    calls,       \* LLM calls the iteration has made
    spent,       \* TokenBudget.used_total
    stored       \* what the last transaction writes

evalVars == <<tier, truth, captured, headText, steering, stage, planned, text,
              before, answers, cycles, calls, spent, stored>>

Tiers    == {"real", "mock", "replay", "smoketest"}
Families == {"pass_rate", "precision", "recall", "f1", "balanced_accuracy", "specificity"}
Values   == {"yes", "no"}
Text     == Seq({"h", "s", "e"})
Hints    == {"false-negative", "false-positive"}

EvalTypeOK ==
    /\ tier \in Tiers
    /\ truth \in [Case -> Values] /\ captured \in [Case -> Values \cup {"none"}]
    /\ headText \in Text /\ steering \in Text /\ text \in Text /\ before \in Text
    /\ stage \in {"load", "solve", "propose", "persist", "done", "failed", "reported", "aborted"}
    /\ planned \in 1..2
    /\ answers \in [Case -> Values \cup {"none"}]
    /\ \A i \in DOMAIN cycles :
          /\ cycles[i].before \in Text /\ cycles[i].after \in Text /\ cycles[i].edit \in Nat
          /\ cycles[i].outcomes \in [Case -> Values]
          /\ cycles[i].examples \in Seq(Case)
    /\ Len(cycles) <= planned
    /\ calls \in Nat /\ spent \in Nat
    /\ stored.state \in {"none", "gate-pass", "no-improvement"}
    /\ stored.version \in Text /\ stored.dominant \in Hints \cup {"none"}

-----------------------------------------------------------------------------
(***************************************************************************)
(* nl_gen/metric_compute.py.  A value is a fraction <<numerator,           *)
(* denominator>>; a division by zero gives 0.                              *)
(***************************************************************************)
Count(a, expected, actual) == Cardinality({c \in Case : truth[c] = expected /\ a[c] = actual})
TP(a) == Count(a, "yes", "yes")
TN(a) == Count(a, "no", "no")
FP(a) == Count(a, "no", "yes")
FN(a) == Count(a, "yes", "no")

SafeDiv(n, d) == IF d = 0 THEN <<0, 1>> ELSE <<n, d>>
Plus(p, q)    == <<p[1] * q[2] + q[1] * p[2], p[2] * q[2]>>
Times(p, q)   == <<p[1] * q[1], p[2] * q[2]>>
Over(p, q)    == <<p[1] * q[2], p[2] * q[1]>>
AtMost(p, q)  == p[1] * q[2] <= q[1] * p[2]

Precision(a)   == SafeDiv(TP(a), TP(a) + FP(a))
Recall(a)      == SafeDiv(TP(a), TP(a) + FN(a))
Specificity(a) == SafeDiv(TN(a), TN(a) + FP(a))

F1_vacuous(a) ==
    LET p == Precision(a) r == Recall(a) IN
    IF Plus(p, r)[1] = 0 THEN <<1, 1>> ELSE Over(Times(<<2, 1>>, Times(p, r)), Plus(p, r))
F1(a) ==
    LET p == Precision(a) r == Recall(a) IN
    IF Plus(p, r)[1] = 0 THEN <<0, 1>> ELSE Over(Times(<<2, 1>>, Times(p, r)), Plus(p, r))

MetricValue(family, a) ==
    CASE family = "pass_rate"         -> SafeDiv(TP(a) + TN(a), NumCases)
      [] family = "precision"         -> Precision(a)
      [] family = "recall"            -> Recall(a)
      [] family = "f1"                -> F1(a)
      [] family = "balanced_accuracy" -> Over(Plus(Recall(a), Specificity(a)), <<2, 1>>)
      [] family = "specificity"       -> Specificity(a)

-----------------------------------------------------------------------------
(***************************************************************************)
(* nl_gen/failure_clustering.py, clustering/pipeline.py with the default   *)
(* stages of nl_gen/loop.py.                                               *)
(***************************************************************************)
\* Failures, the held-out ones (severity boost) first, then by case id.
Severity(c) == IF c \in HeldOut THEN c ELSE NumCases + c
WorstFirst(S) ==
    CHOOSE s \in [1..Cardinality(S) -> S] :
        \A i, j \in DOMAIN s : i < j => Severity(s[i]) < Severity(s[j])

Failures(a)  == {c \in Case : a[c] # truth[c]}
Snapshots(a) == WorstFirst(Failures(a))

HintOf(c) == IF truth[c] = "yes" THEN "false-negative" ELSE "false-positive"
Members(hint, a) == WorstFirst({c \in Failures(a) : HintOf(c) = hint})
Buckets(a) == {hint \in Hints : Members(hint, a) # <<>>}

\* gate_assignment: too few inputs, or one of several clusters that owns more
\* than its share, and nothing survives; else the clusters of enough members.
Clusters(a) ==
    LET size(hint) == Len(Members(hint, a)) IN
    IF \/ Len(Snapshots(a)) < MinInputs
       \/ Cardinality(Buckets(a)) >= 2
          /\ \E hint \in Buckets(a) : size(hint) * 100 > MegaPercent * Len(Snapshots(a))
    THEN {}
    ELSE {hint \in Buckets(a) : size(hint) >= MinCluster}

\* max(..., key=(size, label)): of two clusters of one size the later label.
Dominant(a) ==
    IF Clusters(a) = {} THEN "none"
    ELSE CHOOSE hint \in Clusters(a) : \A other \in Clusters(a) :
             \/ Len(Members(hint, a)) > Len(Members(other, a))
             \/ Len(Members(hint, a)) = Len(Members(other, a))
                /\ (hint = other \/ hint = "false-positive")

Examples(a) ==
    LET m == Members(Dominant(a), a) IN SubSeq(m, 1, IF Len(m) < MaxExamples THEN Len(m) ELSE MaxExamples)

\* The most recent TextCap characters.
Trimmed(t) == IF Len(t) > TextCap THEN SubSeq(t, Len(t) - TextCap + 1, Len(t)) ELSE t

-----------------------------------------------------------------------------
Unanswered == [c \in Case |-> "none"]

EvalInit ==
    /\ tier \in Tiers
    /\ \E positive \in PositiveSets : truth = [c \in Case |-> IF c \in positive THEN "yes" ELSE "no"]
    /\ captured \in IF tier = "replay" THEN [Case -> Values \cup {"none"}] ELSE {Unanswered}
    /\ headText \in {<<>>, <<"h">>}
    /\ steering \in {<<>>, <<"s">>}
    /\ stage = "load"
    /\ planned = 2
    /\ text = <<>> /\ before = <<>>
    /\ answers = Unanswered
    /\ cycles = <<>>
    /\ calls = 0 /\ spent = 0
    /\ stored = [state |-> "none", version |-> <<>>, dominant |-> "none"]

StartCycles(n) ==
    /\ stage' = "solve"
    /\ planned' = n
    /\ text' = steering /\ before' = steering
    /\ answers' = Unanswered
    /\ cycles' = <<>>

\* Phase 1 has read head and steering: the loop starts with the steering, if
\* there is any, else without an instruction.
LoadArtifacts ==
    /\ stage = "load"
    /\ StartCycles(2)
    /\ UNCHANGED <<tier, truth, captured, headText, steering, calls, spent, stored>>

\* asyncio.gather: the calls are out together and come back in any order.
Predict(c, value) ==
    /\ stage = "solve" /\ tier = "real" /\ answers[c] = "none"
    /\ answers' = [answers EXCEPT ![c] = value]
    /\ calls' = calls + 1
    /\ UNCHANGED <<tier, truth, captured, headText, steering, stage, planned, text,
                   before, cycles, spent, stored>>

\* The first failed prediction fails the run.
PredictFails ==
    /\ stage = "solve" /\ tier \in {"real", "smoketest"}
    /\ \E c \in Case : answers[c] = "none"
    /\ calls' = calls + 1
    /\ stage' = "failed"
    /\ UNCHANGED <<tier, truth, captured, headText, steering, planned, text, before,
                   answers, cycles, spent, stored>>

\* With a budget: one call after the other, recorded before it is used; the
\* one that crosses the cap aborts the run.
Aborts(total) == total > TokenCap
PredictNext(value, tokens) ==
    LET c == CHOOSE d \in Case : answers[d] = "none" /\ \A e \in 1..d - 1 : answers[e] # "none" IN
    /\ stage = "solve" /\ tier = "smoketest" /\ \E d \in Case : answers[d] = "none"
    /\ calls' = calls + 1
    /\ spent' = spent + tokens
    /\ IF Aborts(spent')
       THEN stage' = "aborted" /\ UNCHANGED answers
       ELSE answers' = [answers EXCEPT ![c] = value] /\ UNCHANGED stage
    /\ UNCHANGED <<tier, truth, captured, headText, steering, planned, text, before,
                   cycles, stored>>

\* MockAgentSolver: as many right answers as the curve says, for cases the
\* seed picks.
PredictMock(right) ==
    /\ stage = "solve" /\ tier = "mock" /\ answers = Unanswered
    /\ answers' = [c \in Case |-> IF (c \in right) = (truth[c] = "yes") THEN "yes" ELSE "no"]
    /\ UNCHANGED <<tier, truth, captured, headText, steering, stage, planned, text,
                   before, cycles, calls, spent, stored>>

\* ReplayAgentSolver: a case without captured output fails the run.
PredictReplay ==
    /\ stage = "solve" /\ tier = "replay" /\ answers = Unanswered
    /\ IF \E c \in Case : captured[c] = "none"
       THEN stage' = "failed" /\ UNCHANGED answers
       ELSE answers' = captured /\ UNCHANGED stage
    /\ UNCHANGED <<tier, truth, captured, headText, steering, planned, text, before,
                   cycles, calls, spent, stored>>

AllAnswered == \A c \in Case : answers[c] # "none"
IsLast == Len(cycles) + 1 = planned

\* The end of a cycle: its outcome is kept, the next one starts or the loop is
\* over.
EndCycle(edit, after) ==
    /\ cycles' = Append(cycles,
           [before |-> before, after |-> after, edit |-> edit, outcomes |-> answers,
            examples |-> IF edit > 0 THEN Examples(answers) ELSE <<>>])
    /\ text' = after /\ before' = after
    /\ answers' = IF IsLast THEN answers ELSE Unanswered
    /\ stage' = IF IsLast THEN "persist" ELSE "solve"

\* Score and clusters; no proposal in the last cycle, without clusters, or on
\* the mock tier.
Score ==
    /\ stage = "solve" /\ AllAnswered
    /\ IF tier = "smoketest"
       THEN stage' = "reported" /\ UNCHANGED <<text, before, answers, cycles>>
       ELSE IF IsLast \/ Clusters(answers) = {} \/ tier = "mock"
            THEN EndCycle(0, before)
            ELSE stage' = "propose" /\ UNCHANGED <<text, before, answers, cycles>>
    /\ UNCHANGED <<tier, truth, captured, headText, steering, planned, calls, spent, stored>>

\* propose_instruction_edit: the edit goes behind the instruction so far.
Propose(units) ==
    /\ stage = "propose"
    /\ EndCycle(units, Trimmed(before \o [i \in 1..units |-> "e"]))
    /\ calls' = calls + 1
    /\ UNCHANGED <<tier, truth, captured, headText, steering, planned, spent, stored>>

\* A malformed edit: the runner starts over with one cycle, which has no
\* proposer call.
FallbackCycles_again == 2
FallbackCycles == 1
ProposerFlakes ==
    /\ stage = "propose"
    /\ calls' = calls + 1
    /\ StartCycles(FallbackCycles)
    /\ UNCHANGED <<tier, truth, captured, headText, steering, spent, stored>>

ProposerFails ==
    /\ stage = "propose"
    /\ calls' = calls + 1
    /\ stage' = "failed"
    /\ UNCHANGED <<tier, truth, captured, headText, steering, planned, text, before,
                   answers, cycles, spent, stored>>

\* asyncio.timeout around a cycle.
Expires_proposerOnly ==
    /\ stage = "propose" /\ tier # "smoketest"
    /\ stage' = "failed"
    /\ UNCHANGED <<tier, truth, captured, headText, steering, planned, text, before,
                   answers, cycles, calls, spent, stored>>
Expires ==
    /\ stage \in {"solve", "propose"} /\ tier # "smoketest"
    /\ stage' = "failed"
    /\ UNCHANGED <<tier, truth, captured, headText, steering, planned, text, before,
                   answers, cycles, calls, spent, stored>>

\* What the runner takes from the loop's report.
Kept_last == Last(cycles)
Kept == cycles[1]

\* Phase 3: the instruction becomes a new version and a proposal if it is one
\* and is not the head's.
Persist ==
    /\ stage = "persist"
    /\ LET new == Kept.after # <<>> /\ Kept.after # headText IN
       stored' = [state    |-> IF new THEN "gate-pass" ELSE "no-improvement",
                  version  |-> IF new THEN Kept.after ELSE <<>>,
                  dominant |-> Dominant(Kept.outcomes)]
    /\ stage' = "done"
    /\ UNCHANGED <<tier, truth, captured, headText, steering, planned, text, before,
                   answers, cycles, calls, spent>>

EvalNext ==
    \/ LoadArtifacts \/ PredictFails \/ PredictReplay \/ Score
    \/ ProposerFlakes \/ ProposerFails \/ Expires \/ Persist
    \/ \E c \in Case, value \in Values : Predict(c, value)
    \/ \E value \in Values, tokens \in CallTokens : PredictNext(value, tokens)
    \/ \E right \in SUBSET Case : PredictMock(right)
    \/ \E units \in EditUnits : Propose(units)

EvalSpec == EvalInit /\ [][EvalNext]_evalVars

\* The runner's own steps and the timer, which go on; LLM answers need not come.
RunnerStep == \/ LoadArtifacts \/ PredictReplay \/ Score \/ Persist \/ Expires
              \/ \E right \in SUBSET Case : PredictMock(right)

EvalFairness == WF_evalVars(RunnerStep)

-----------------------------------------------------------------------------
(***************************************************************************)
(* Properties.                                                             *)
(***************************************************************************)
\* The gate compares scores: an answer that turns from wrong to right never
\* lowers one, whatever the family, also where a denominator vanishes.
FixingACaseNeverLowersTheScore ==
    stage \in {"propose", "reported", "done"} =>
        \A family \in Families : \A c \in Case :
            answers[c] # truth[c] =>
                AtMost(MetricValue(family, answers),
                       MetricValue(family, [answers EXCEPT ![c] = truth[c]]))

\* A proposal is about the iteration's own record: the failures its proposer
\* saw are failures among the stored outcomes, the worst of the cluster that
\* the iteration's row names, and a version without an edit is steering.
ProposalFitsTheRecord ==
    stage = "done" /\ stored.state = "gate-pass" =>
        IF Kept.edit = 0 THEN stored.version = steering
        ELSE /\ IsSuffix([k \in 1..Kept.edit |-> "e"], stored.version)
             /\ \A i \in DOMAIN Kept.examples :
                   /\ Kept.outcomes[Kept.examples[i]] # truth[Kept.examples[i]]
                   /\ HintOf(Kept.examples[i]) = stored.dominant
             /\ Kept.examples # <<>>
             /\ \A c \in HeldOut : Kept.outcomes[c] # truth[c] /\ HintOf(c) = stored.dominant =>
                   \E i \in DOMAIN Kept.examples : Kept.examples[i] \in HeldOut

\* What an evaluation may cost.  LLM calls: none on the mock tier, the proposer's
\* one on the replay tier, else two runs over the cases and one proposer call, also
\* when the proposer's answer is malformed and the runner starts over.  Tokens: "a
\* hard cap" (token_budget.py) is overshot by the last call at most, no call
\* follows, and a run that is reported stayed within it.
SpendIsBounded ==
    /\ tier = "mock" => calls = 0
    /\ tier = "replay" => calls <= 1
    /\ tier = "real" => calls <= 2 * NumCases + 1
    /\ tier = "smoketest" => calls <= NumCases
    /\ spent > TokenCap => stage = "aborted" /\ \E tokens \in CallTokens : spent - tokens <= TokenCap
    /\ stage = "reported" => spent <= TokenCap

\* "The cumulative instruction the agent will run with ... so the loop receives
\* a plain instruction string" (_current_head_instruction): without steering,
\* the run that is scored and stored used the head version's instruction.
HeadReachesTheAgent ==
    stage = "done" /\ steering = <<>> => Kept.before = headText

\* An iteration is decided in the end, also if the LLM never answers.  (The run
\* under a token budget has no timeout.)
EveryEvaluationEnds == tier # "smoketest" => <>(stage \in {"done", "failed"})
=============================================================================
