---------------------------- MODULE MCAgentPlane ----------------------------
(***************************************************************************)
(* Instances of AgentLoop, EvalCycles, Sandbox, DesignSession and McpAuth  *)
(* for TLC.  The five share no state; `part` is the one that runs in a     *)
(* behaviour, the others stay at their start.                              *)
(***************************************************************************)
EXTENDS AgentLoop, EvalCycles, Sandbox, DesignSession, McpAuth, TLC

CONSTANTS c1, c2, pd, pg, m1, m2, n1, b1

VARIABLE part

planeVars == <<part, loopVars, evalVars, sandboxVars, designVars, mcpVars>>

SomePositives == {{}, {1, 2}, {2, 3, 4}, 1..4}

\* A page with an interview, and one that generates right away.
TwoQuestions == <<"goal", "metric">>
SentByPage   == (pd :> 6) @@ (pg :> 1)

PlaneInit ==
    /\ part \in {"loop", "eval", "sandbox", "design", "mcp"}
    /\ LoopInit /\ EvalInit /\ SandboxInit /\ DesignInit /\ McpInit
    /\ part # "loop" => wire = "anthropic" /\ ~shortCircuit
    /\ part # "eval" =>
          tier = "smoketest" /\ truth = [c \in Case |-> "no"] /\ headText = <<>> /\ steering = <<>>
    /\ part # "mcp" => ~app /\ ~rotates

PlaneNext ==
    \/ part = "loop" /\ LoopNext /\ UNCHANGED <<part, evalVars, sandboxVars, designVars, mcpVars>>
    \/ part = "eval" /\ EvalNext /\ UNCHANGED <<part, loopVars, sandboxVars, designVars, mcpVars>>
    \/ part = "sandbox" /\ SandboxNext /\ UNCHANGED <<part, loopVars, evalVars, designVars, mcpVars>>
    \/ part = "design" /\ DesignNext /\ UNCHANGED <<part, loopVars, evalVars, sandboxVars, mcpVars>>
    \/ part = "mcp" /\ McpNext /\ UNCHANGED <<part, loopVars, evalVars, sandboxVars, designVars>>

PlaneFairness == WF_evalVars(part = "eval" /\ RunnerStep)

PlaneSpec == PlaneInit /\ [][PlaneNext]_planeVars /\ PlaneFairness

\* Every variable of the five stays in its type.
PlaneTypeOK == LoopTypeOK /\ EvalTypeOK /\ SandboxTypeOK /\ DesignTypeOK /\ McpTypeOK

=============================================================================
