--------------------------- MODULE MCControlPlane ---------------------------
(***************************************************************************)
(* Instances of TriggerScheduler, TraceIngest, SkillRegistry, AuditChain,  *)
(* FixDelivery, ImprovementDriver, Tenancy, Workbench and the artifact     *)
(* proposals of ProposalLifecycle for TLC.  `part` is what runs in a       *)
(* behaviour; the others, which share no state with it at this level of    *)
(* detail, stay at their start.                                            *)
(***************************************************************************)
EXTENDS ProposalLifecycle, TriggerScheduler, TraceIngest, SkillRegistry, AuditChain, FixDelivery,
        ImprovementDriver, Tenancy, Workbench, TLC

CONSTANTS a1, a2, v0, k1, x1, x2, s1, s2, t1, t2, g1, g2, g3, ka, kb, w1, w2, w3, w4, d1, d2, d3,
          f1, f2, c1, c2, c3, da, db, dc, dr,
          ann, bob, la, lb, wsa, wsb, wsc, i1, q1, q2, b1, b2

VARIABLE part

controlVars == <<part, vars, trigVars, ingestVars, registryVars, auditVars, deliveryVars, driverVars, tenantVars, benchVars>>

\* Two artifact proposals that replace different sections of one spec.
TwoSections == (a1 :> None) @@ (a2 :> None) @@ (v0 :> k1)
Base        == k1 :> v0
OwnSections == (a1 :> x1) @@ (a2 :> x2)

\* Two batches that carry the same traces in opposite orders, and one that is
\* not bound to the workflow and came first.
Crossing == (g1 :> <<t1, t2>>) @@ (g2 :> <<t2, t1>>) @@ (g3 :> <<t1>>)

\* One writer's frontmatter has another kind.
OneOtherKind == (w1 :> ka) @@ (w2 :> ka) @@ (w3 :> ka) @@ (w4 :> kb)

\* Two transactions of one workspace, of which one appends twice, and one of
\* another workspace.
TwoAndOne   == (d1 :> "a") @@ (d2 :> "a") @@ (d3 :> "b")
FirstTwice  == (d1 :> 2) @@ (d2 :> 1) @@ (d3 :> 1)

\* The conditions C and D of the 30-day replay, of which D tries a task before
\* the gate; C beside a run by hand on the same workflow; and the 7-day replay
\* alone.
Modes    == (da :> "autonomous") @@ (db :> "llm-judge") @@ (dc :> "none") @@ (dr :> "replay")
Flows    == (da :> "wa") @@ (db :> "wb") @@ (dc :> "wa") @@ (dr :> "wr")
Together == {{da, db}, {da, dc}, {dr}}

\* Ann has founded a workspace and is signed in; Bob's provider may report
\* either address.
Reported == (la :> {ann}) @@ (lb :> {ann, bob})
Annes    == wsa :> ann
SignedIn == la :> ann

\* The rows of one workflow: two runs, of which the first got results and a
\* proposal that was rejected with a comment, and the second is of a cluster.
Tables ==
    [w |-> "workflows", run1 |-> "iterations", run2 |-> "iterations", case |-> "eval_cases", remark |-> "eval_cases",
     cluster |-> "failure_clusters", trace |-> "traces", skill |-> "skills", version |-> "skill_versions",
     proposal |-> "proposals", approval |-> "approvals", output |-> "iteration_case_outputs", agent |-> "agents"]
Keys ==
    [w |-> {}, run1 |-> {"w"}, run2 |-> {"w", "cluster"}, case |-> {"w"}, remark |-> {"w"}, cluster |-> {"w"},
     trace |-> {"w", "run1"}, skill |-> {"w"}, version |-> {"skill"}, proposal |-> {"run1", "skill"},
     approval |-> {"proposal", "remark"}, output |-> {"run1", "case"}, agent |-> {"w"}]
Starts ==
    {{"w"}, {"w", "case", "run1", "skill", "version", "cluster"},
     DOMAIN Keys \ {"approval", "remark"}, DOMAIN Keys \ {"run2", "agent"}}

ControlInit ==
    /\ part \in {"lifecycle", "triggers", "ingest", "registry", "audit", "delivery", "drivers", "tenancy", "bench"}
    /\ Init /\ TrigInit /\ IngestInit /\ RegistryInit /\ AuditInit /\ DeliveryInit /\ DriverInit
    /\ TenancyInit /\ BenchInit
    /\ part # "triggers" => kind = [t \in Trigger |-> "webhook"]
    /\ part # "registry" => skill.kind = ka
    /\ part # "audit" => entries = {}
    /\ part # "delivery" => origin = "langsmith"
    /\ part # "drivers" => bodies = <<>> /\ halting = "no" /\ series[dr].left = 0 /\ series[dc].left = 0
    /\ part # "bench" => rows = {"w"} /\ plan = "none" /\ metricDef = "none"

ControlNext ==
    \/ part = "lifecycle" /\ Next /\ UNCHANGED <<part, trigVars, ingestVars, registryVars, auditVars, deliveryVars, driverVars, tenantVars, benchVars>>
    \/ part = "triggers" /\ TrigNext /\ UNCHANGED <<part, vars, ingestVars, registryVars, auditVars, deliveryVars, driverVars, tenantVars, benchVars>>
    \/ part = "ingest" /\ IngestNext /\ UNCHANGED <<part, vars, trigVars, registryVars, auditVars, deliveryVars, driverVars, tenantVars, benchVars>>
    \/ part = "registry" /\ RegistryNext /\ UNCHANGED <<part, vars, trigVars, ingestVars, auditVars, deliveryVars, driverVars, tenantVars, benchVars>>
    \/ part = "audit" /\ AuditNext /\ UNCHANGED <<part, vars, trigVars, ingestVars, registryVars, deliveryVars, driverVars, tenantVars, benchVars>>
    \/ part = "delivery" /\ DeliveryNext /\ UNCHANGED <<part, vars, trigVars, ingestVars, registryVars, auditVars, driverVars, tenantVars, benchVars>>
    \/ part = "drivers" /\ DriverNext
       /\ UNCHANGED <<part, vars, trigVars, ingestVars, registryVars, auditVars, deliveryVars, tenantVars, benchVars>>
    \/ part = "tenancy" /\ TenancyNext
       /\ UNCHANGED <<part, vars, trigVars, ingestVars, registryVars, auditVars, deliveryVars, driverVars, benchVars>>
    \/ part = "bench" /\ BenchNext
       /\ UNCHANGED <<part, vars, trigVars, ingestVars, registryVars, auditVars, deliveryVars, driverVars, tenantVars>>

ControlSpec == ControlInit /\ [][ControlNext]_controlVars

\* Every variable of the nine stays in its type.
ControlTypeOK ==
    /\ TypeOK /\ TrigTypeOK /\ IngestTypeOK /\ RegistryTypeOK
    /\ AuditTypeOK /\ DeliveryTypeOK /\ DriverTypeOK /\ TenancyTypeOK /\ BenchTypeOK

=============================================================================
