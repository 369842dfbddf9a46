------------------------------ MODULE Workbench ------------------------------
(***************************************************************************)
(* The editing of one workflow (api/routes/workflows.py): its suite of     *)
(* eval cases, written by hand, generated or taken from a rejection; its   *)
(* plan and metric; its agent model; trying one case; and its deletion,    *)
(* statement by statement under READ COMMITTED, while runs and requests go *)
(* on writing rows that refer to each other.                               *)
(*                                                                         *)
(* A row is known by its table and by the rows its foreign keys name.  A   *)
(* transaction that only inserts is one step: whoever deletes a row it     *)
(* refers to either waits for it or makes it fail.                         *)
(***************************************************************************)
EXTENDS Naturals, Sequences, FiniteSets

CONSTANTS
    DbRow,       \* rows there may be, the one of the workflow included
    TableOf,     \* [DbRow -> table]
    Refers,      \* [DbRow -> SUBSET DbRow]: foreign keys
    TheWorkflow, \* its row
    Stocks,      \* sets of rows there may be at the start
    Desk,        \* requests at a time
    MaxWrites,   \* bound on rows written after the start, by transaction
    MaxOrders    \* bound on requests

OfTable(table) == {r \in DbRow : TableOf[r] = table}

\* The migrations' foreign keys: a row of `table` names rows of `targets` only,
\* and one of `always`, a NOT NULL key.  Rows are those of one workflow: where
\* workflow_id may be NULL, it is set.
ForeignKeys(table, targets, always) ==
    \A r \in OfTable(table) : /\ \A q \in Refers[r] : TableOf[q] \in targets
                              /\ \A to \in always : \E q \in Refers[r] : TableOf[q] = to
Schema ==
    /\ ForeignKeys("workflows", {}, {})
    /\ ForeignKeys("agents", {"workflows"}, {"workflows"})
    /\ ForeignKeys("skills", {"workflows"}, {"workflows"})
    /\ ForeignKeys("skill_versions", {"skills", "skill_versions"}, {"skills"})
    /\ ForeignKeys("failure_clusters", {"workflows"}, {"workflows"})
    /\ ForeignKeys("eval_cases", {"workflows", "failure_clusters"}, {"workflows"})
    /\ ForeignKeys("iterations", {"workflows", "skill_versions", "failure_clusters"}, {"workflows"})
    /\ ForeignKeys("traces", {"workflows", "iterations", "skill_versions"}, {"workflows"})
    /\ ForeignKeys("iteration_case_outputs", {"iterations", "eval_cases"}, {"iterations", "eval_cases"})
    /\ ForeignKeys("proposals", {"iterations", "skills", "skill_versions"}, {"iterations"})
    /\ ForeignKeys("approvals", {"proposals", "eval_cases"}, {"proposals"})
TableNames == {"workflows", "agents", "skills", "skill_versions", "failure_clusters", "eval_cases",
               "iterations", "traces", "iteration_case_outputs", "proposals", "approvals"}

ASSUME BenchAssumption ==
    /\ Refers \in [DbRow -> SUBSET DbRow] /\ TableOf \in [DbRow -> TableNames]
    /\ TheWorkflow \in DbRow /\ OfTable("workflows") = {TheWorkflow} /\ Schema
    /\ \A set \in Stocks : TheWorkflow \in set /\ set \subseteq DbRow /\ \A r \in set : Refers[r] \subseteq set
    /\ {MaxWrites, MaxOrders} \subseteq Nat

VARIABLES
    rows,      \* rows committed
    gone,      \* those the open deletion has deleted, until it commits
    headed,    \* skills whose head_version_id is set
    deletion,  \* the open deletion
    plan,      \* whose simulation_plan the workflow has
    metricDef, \* whose metric_definition
    model,     \* agent_model_id, as the last UPDATE left it
    told,      \* the model of the last audit entry
    desk,      \* requests under way
    writes,    \* transactions that inserted so far
    orders,    \* requests so far
    unjust     \* a deletion was refused that nothing stood in the way of

benchVars == <<rows, gone, headed, deletion, plan, metricDef, model, told, desk, writes, orders, unjust>>
artifacts == <<plan, metricDef>>
agentVars == <<model, told>>
deskVars == <<desk, orders>>

Clear == [kind |-> "clear"]
NoDeletion == [step |-> 0, iters |-> {}, skills |-> {}, crossed |-> FALSE]

\* Of the foreign keys that cascade, those of the case outputs.
Cascading == OfTable("iteration_case_outputs")
WithCascade(dead, among) == dead \cup {q \in among \cap Cascading : Refers[q] \cap dead # {}}
Held(dead, among, heads) ==
    \/ \E q \in among \ dead : Refers[q] \cap dead # {}
    \/ \E k \in heads \ dead : \E v \in dead : TableOf[v] = "skill_versions" /\ k \in Refers[v]

BenchInit ==
    /\ rows \in Stocks
    /\ headed = rows \cap OfTable("skills") /\ gone = {} /\ deletion = NoDeletion
    /\ plan \in {"none", "first"} /\ metricDef \in {plan, "first"}
    /\ model = "default" /\ told = "default"
    /\ desk = [d \in Desk |-> Clear] /\ writes = 0 /\ orders = 0 /\ unjust = FALSE

-----------------------------------------------------------------------------
(* Inserts.                                                                *)

Named(new) == (UNION {Refers[r] : r \in new}) \ new
Crossed == [deletion EXCEPT !.crossed = deletion # NoDeletion]
Post(new) ==
    /\ writes < MaxWrites /\ writes' = writes + 1
    /\ new # {} /\ new \cap rows = {} /\ Named(new) \subseteq rows \ gone
    /\ rows' = rows \cup new
    /\ headed' = headed \cup (new \cap OfTable("skills"))
    /\ deletion' = Crossed
    /\ UNCHANGED <<gone, artifacts, agentVars, deskVars, unjust>>

StartIteration == \E i \in OfTable("iterations") : Post({i})

\* One transaction: outputs, traces, clusters, the skill's version, the proposal.
Results == UNION {OfTable(t) : t \in {"iteration_case_outputs", "traces", "failure_clusters", "skills", "skill_versions", "proposals"}}
FinishIteration ==
    \E i \in OfTable("iterations") \cap rows :
       \E new \in SUBSET (Results \ rows) : (\A r \in new : Refers[r] \cap OfTable("iterations") \subseteq {i}) /\ Post(new)

\* On demand, from production traces; every workflow that is generated, imported
\* or traced gets an agent.
ClusterProductionFailures == \E c \in OfTable("failure_clusters") : Post({c})
RegisterAgent == \E g \in OfTable("agents") : Post({g})

\* A rejection with a comment becomes an eval case.
Feedback == {e \in OfTable("eval_cases") : \E a \in OfTable("approvals") : e \in Refers[a]}
CreateEvalCase == \E e \in OfTable("eval_cases") \ Feedback : Post({e})
Decide == \E a \in OfTable("approvals") : Post({a} \cup (Refers[a] \cap Feedback))

-----------------------------------------------------------------------------
(* Deletions.                                                              *)

\* The foreign key of an approval keeps the case of a rejection in the suite.
DeleteEvalCase ==
    /\ \E e \in (OfTable("eval_cases") \cap rows) \ gone :
          /\ ~Held(WithCascade({e}, rows), rows, headed)
          /\ rows' = rows \ WithCascade({e}, rows) /\ gone' = gone \ WithCascade({e}, rows)
    /\ UNCHANGED <<headed, deletion, artifacts, agentVars, deskVars, writes, unjust>>

DeleteOrder_early ==
    <<"approvals", "proposals", "traces", "failure_clusters", "iterations", "eval_cases",
      "pointers", "skill_versions", "skills", "workflows">>
DeleteOrder ==
    <<"approvals", "proposals", "traces", "iterations", "eval_cases", "failure_clusters",
      "pointers", "skill_versions", "skills", "workflows">>

\* The rows one DELETE names; those of the iterations found at the start.
Doomed(table, among) ==
    {r \in among \cap OfTable(table) :
        \/ table = "approvals" /\ \E p \in among \cap OfTable("proposals") : p \in Refers[r] /\ Refers[p] \cap deletion.iters # {}
        \/ table = "proposals" /\ Refers[r] \cap deletion.iters # {}
        \/ table = "skill_versions" /\ Refers[r] \cap deletion.skills # {}
        \/ table = "skills" /\ r \in deletion.skills
        \/ table \in {"traces", "iterations", "eval_cases", "failure_clusters"} /\ TheWorkflow \in Refers[r]
        \/ table = "workflows" /\ r = TheWorkflow}

\* The row of the workflow is locked from an UPDATE to its COMMIT.
WorkflowFree(d) == \A other \in Desk \ {d} : ~(desk[other].kind = "patch" /\ desk[other].at = "append")

BeginDelete ==
    /\ deletion = NoDeletion /\ TheWorkflow \in rows
    /\ orders < MaxOrders /\ orders' = orders + 1
    /\ deletion' = [NoDeletion EXCEPT !.step = 1, !.iters = rows \cap OfTable("iterations")]
    /\ UNCHANGED <<rows, gone, headed, artifacts, agentVars, desk, writes, unjust>>

\* skills and skill_versions refer to each other: the heads go first.
ClearPointers ==
    /\ deletion.step > 0 /\ DeleteOrder[deletion.step] = "pointers"
    /\ deletion' = [deletion EXCEPT !.step = @ + 1, !.skills = rows \cap OfTable("skills")]
    /\ UNCHANGED <<rows, gone, headed, artifacts, agentVars, deskVars, writes, unjust>>

\* One statement: its rows go, or a foreign key refuses the whole.
DeleteRows ==
    LET seen == rows \ gone
        dead == WithCascade(Doomed(DeleteOrder[deletion.step], seen), seen)
    IN  /\ deletion.step > 0 /\ DeleteOrder[deletion.step] # "pointers"
        /\ DeleteOrder[deletion.step] = "workflows" => \A d \in Desk : WorkflowFree(d)
        /\ IF Held(dead, seen, headed \ deletion.skills)
           THEN /\ deletion' = NoDeletion /\ gone' = {}
                /\ unjust' = (unjust \/ ~(deletion.crossed \/ rows \cap OfTable("agents") # {}))
                /\ UNCHANGED <<rows, headed>>
           ELSE IF deletion.step < Len(DeleteOrder)
           THEN deletion' = [deletion EXCEPT !.step = @ + 1] /\ gone' = gone \cup dead /\ UNCHANGED <<rows, headed, unjust>>
           ELSE /\ rows' = seen \ dead /\ headed' = headed \cap (seen \ dead)
                /\ deletion' = NoDeletion /\ gone' = {} /\ UNCHANGED unjust
        /\ UNCHANGED <<artifacts, agentVars, deskVars, writes>>

-----------------------------------------------------------------------------
(* Generated cases.                                                        *)

Order(d, request) ==
    /\ desk[d] = Clear /\ orders < MaxOrders
    /\ desk' = [desk EXCEPT ![d] = request] /\ orders' = orders + 1
Turn(d, request) == desk' = [desk EXCEPT ![d] = request] /\ UNCHANGED orders
bench == <<rows, gone, headed, deletion, writes, unjust>>

\* Whether there is a metric is read before the model is asked.
BeginGenerate(d) ==
    /\ TheWorkflow \in rows
    /\ Order(d, [kind |-> "generate", metric |-> metricDef # "none"])
    /\ UNCHANGED <<bench, artifacts, agentVars>>

\* Cases, plan and a metric that was missing are written together, or the model
\* or a foreign key failed.
NewMetric(d) == IF desk[d].metric THEN metricDef ELSE "generated"
PersistGenerated(d) ==
    /\ desk[d].kind = "generate"
    /\ \/ UNCHANGED <<rows, deletion, artifacts>>
       \/ /\ TheWorkflow \in rows
          /\ \E e \in OfTable("eval_cases") \ (Feedback \cup rows) : Named({e}) \subseteq rows \ gone /\ rows' = rows \cup {e}
          /\ deletion' = Crossed
          /\ plan' = "generated" /\ metricDef' = NewMetric(d)
    /\ Turn(d, Clear)
    /\ UNCHANGED <<gone, headed, writes, unjust, agentVars>>

-----------------------------------------------------------------------------
(* The agent's model; a try.                                               *)

\* UPDATE and audit entry in one transaction: the row stays locked between.
UpdateModel(d) ==
    /\ TheWorkflow \in rows /\ WorkflowFree(d)
    /\ \E slug \in {"a", "b"} : Order(d, [kind |-> "patch", at |-> "append", slug |-> slug]) /\ model' = slug
    /\ UNCHANGED <<bench, artifacts, told>>
AppendModelChange(d) ==
    /\ desk[d].kind = "patch" /\ told' = desk[d].slug /\ Turn(d, Clear)
    /\ UNCHANGED <<bench, artifacts, model>>

\* lock.locked() is asked first: who finds it taken is answered 409.
Trying == \E d \in Desk : desk[d].kind = "try"
TryCase(d) ==
    /\ ~Trying /\ Order(d, [kind |-> "try", waits |-> Trying])
    /\ UNCHANGED <<bench, artifacts, agentVars>>
TryEnds(d) ==  \* an answer, an error or 60 seconds
    /\ desk[d].kind = "try" /\ Turn(d, Clear)
    /\ UNCHANGED <<bench, artifacts, agentVars>>

BenchNext ==
    \/ StartIteration \/ FinishIteration \/ ClusterProductionFailures \/ RegisterAgent \/ CreateEvalCase \/ Decide
    \/ DeleteEvalCase \/ BeginDelete \/ ClearPointers \/ DeleteRows
    \/ \E d \in Desk : \/ BeginGenerate(d) \/ PersistGenerated(d)
                       \/ UpdateModel(d) \/ AppendModelChange(d) \/ TryCase(d) \/ TryEnds(d)

BenchSpec == BenchInit /\ [][BenchNext]_benchVars

-----------------------------------------------------------------------------
BenchTypeOK ==
    /\ gone \cup headed \subseteq rows /\ rows \subseteq DbRow /\ deletion.step \in 0..Len(DeleteOrder)
    /\ plan \in {"none", "first", "generated"} /\ metricDef \in {"none", "first", "generated"}
    /\ writes \in 0..MaxWrites /\ orders \in 0..MaxOrders

\* A workflow goes with everything that belongs to it or stays with everything,
\* and it stays only when rows were written beside the deletion or an agent is
\* registered for it; whoever generates a plan leaves a metric to score it
\* with, though both were read before the model was asked; the audit's last word
\* on the agent's model is the model; and a try is refused, never queued.
WorkflowStaysWhole ==
    /\ ~unjust /\ (TheWorkflow \in rows \/ rows = {})
    /\ plan = "generated" => metricDef # "none"
    /\ (\A d \in Desk : desk[d].kind # "patch") => told = model
    /\ \A d \in Desk : desk[d].kind = "try" => ~desk[d].waits
=============================================================================
