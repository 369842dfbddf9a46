------------------------------ MODULE AgentLoop ------------------------------
(***************************************************************************)
(* The agent's tool-use loop (middleware/claude_sdk): one model request    *)
(* after another over a growing message history, with in-call compaction,  *)
(* the dispatch of the tools a turn asks for, the recovery from a response *)
(* that the backend rejects, the trace events recorded on the way, and the *)
(* choice of the skill version that goes to the gate once the run ended    *)
(* (scripts/run_improvement_loop.py).                                      *)
(*                                                                         *)
(* `wire` names the runner: run_agent_turn ("anthropic"),                  *)
(* run_agent_turn_openai ("openai") or run_agent_turn_ollama ("ollama").   *)
(* A model response is external: any sequence of tool calls, each with or  *)
(* without its id and name, cut off or rejected.  The size of a conversation is the number of tool  *)
(* results it carries in full; text is left out.                           *)
(***************************************************************************)
EXTENDS Integers, Sequences, FiniteSets, SequencesExt

CONSTANTS
    MaxTurns,     \* max_iterations
    KeepLastK,    \* DEFAULT_KEEP_LAST_K
    Threshold,    \* DEFAULT_THRESHOLD_CHARS, in full tool results
    TurnCalls,    \* bound: tool calls in one response
    RunCalls      \* bound: tool calls in one run

ASSUME LoopAssumption ==
    /\ MaxTurns \in Nat \ {0}
    /\ KeepLastK \in Nat \ {0}
    /\ Threshold \in Nat
    /\ TurnCalls \in Nat
    /\ RunCalls \in Nat

VARIABLES
    wire,          \* which of the three runners this is
    shortCircuit,  \* short_circuit_on_sandbox_error
    loop,          \* where the loop is
    turn,          \* iterations
    history,       \* messages
    blocks,        \* tool calls of the response that streams in
    finished,      \* calls ready to dispatch, in order
    results,       \* results of this turn's dispatches, in order
    trace,         \* TraceCollector._events: tool_call_start and _result
    versions,      \* skill versions the run's write_skill calls inserted
    returned       \* the AgentTurnResult, and what the caller made of it

loopVars == <<wire, shortCircuit, loop, turn, history, blocks, finished,
              results, trace, versions, returned>>

Wires    == {"anthropic", "openai", "ollama"}
Tools    == {"write_skill", "run_pipeline"}
Outcomes == [write_skill  |-> {"ok", "invalid", "error"},
             run_pipeline |-> {"ok", "error", "kill"}]
Stops    == {"end_turn", "max_tokens", "refusal", "other"}   \* other: "unknown" among them
Ids      == (1..MaxTurns) \X (1..TurnCalls)
NoCall   == <<0, 0>>

Message(role, calls, replies) == [role |-> role, calls |-> calls, replies |-> replies]
Kickoff == Message("user", <<>>, <<>>)

LoopTypeOK ==
    /\ wire \in Wires /\ shortCircuit \in BOOLEAN
    /\ loop \in {"request", "stream", "dispatch", "returned", "raised", "gated", "skipped"}
    /\ turn \in 0..MaxTurns
    /\ history \in Seq([role : {"user", "assistant", "tool"}, calls : Seq(Ids),
                        replies : Seq([id : Ids, archived : BOOLEAN])])
    /\ blocks \in Seq([id : Ids, name : Tools, whole : BOOLEAN])
    /\ finished \in Seq([id : Ids, name : Tools])
    /\ results \in Seq([id : Ids, outcome : {"ok", "invalid", "error", "kill"}])
    /\ trace \in Seq([event : {"start", "ok", "invalid", "error", "kill"},
                      id : Ids, name : Tools])
    /\ versions \in Seq(Ids)
    /\ returned \in [stop : Stops \cup {"none", "max_iterations",
                                        "sandbox_error_propagated"},
                     calls : Nat, errors : Nat, candidate : Ids \cup {NoCall}]

-----------------------------------------------------------------------------
(***************************************************************************)
(* conversation_compaction.py.                                             *)
(***************************************************************************)
\* Messages whose content may be archived: in the Anthropic shape one user
\* message holds all results of a turn, in the OpenAI shape each has its own.
ResultPositions(h) == {i \in DOMAIN h : h[i].replies # <<>>}

FullReplies(m) == {k \in DOMAIN m.replies : ~m.replies[k].archived}
Size(h) == FoldLeft(LAMBDA n, m : n + Cardinality(FullReplies(m)), 0, h)

Archived(m) == [m EXCEPT !.replies =
    [k \in DOMAIN m.replies |-> [m.replies[k] EXCEPT !.archived = TRUE]]]

\* All result messages but the last KeepLastK.
ToArchive_lastOnes(h) ==
    {i \in ResultPositions(h) :
        Cardinality({j \in ResultPositions(h) : j < i}) >= KeepLastK}
ToArchive(h) ==
    {i \in ResultPositions(h) :
        Cardinality({j \in ResultPositions(h) : j > i}) >= KeepLastK}

Compact(h) ==
    IF Size(h) <= Threshold THEN h
    ELSE [i \in DOMAIN h |-> IF i \in ToArchive(h) THEN Archived(h[i]) ELSE h[i]]

-----------------------------------------------------------------------------
LoopInit ==
    /\ wire \in Wires
    /\ shortCircuit \in BOOLEAN
    /\ loop = "request"
    /\ turn = 0
    /\ history = <<Kickoff>>
    /\ blocks = <<>> /\ finished = <<>> /\ results = <<>>
    /\ trace = <<>> /\ versions = <<>>
    /\ returned = [stop |-> "none", calls |-> 0, errors |-> 0, candidate |-> NoCall]

Return(stop) ==
    /\ loop' = "returned"
    /\ returned' = [returned EXCEPT !.stop = stop]

\* The head of the for loop: compact, then send the request.
Request ==
    /\ loop = "request" /\ turn < MaxTurns
    /\ turn' = turn + 1
    /\ history' = Compact(history)
    /\ blocks' = <<>> /\ finished' = <<>> /\ results' = <<>>
    /\ loop' = "stream"
    /\ UNCHANGED <<wire, shortCircuit, trace, versions, returned>>

\* The for loop runs out.
GiveUp ==
    /\ loop = "request" /\ turn = MaxTurns
    /\ Return("max_iterations")
    /\ UNCHANGED <<wire, shortCircuit, turn, history, blocks, finished, results,
                   trace, versions>>

CallsSoFar == Cardinality({i \in DOMAIN trace : trace[i].event = "start"})

\* Tool calls with an id and a name whose block has not stopped yet.
Unclosed == {i \in DOMAIN blocks :
    blocks[i].whole /\ \A j \in DOMAIN finished : finished[j].id # blocks[i].id}

\* A tool call opens in the response: content_block_start, once the block before
\* has stopped, or the first delta of an OpenAI tool call.  One that never gets
\* an id or a name is not whole; Ollama's calls are given their ids.
OpenCall(name) ==
    /\ loop = "stream"
    /\ Len(blocks) < TurnCalls /\ CallsSoFar + Len(blocks) - Len(finished) < RunCalls
    /\ wire = "anthropic" => Unclosed = {}
    /\ \E whole \in IF wire = "ollama" THEN {TRUE} ELSE BOOLEAN :
           blocks' = Append(blocks, [id |-> <<turn, Len(blocks) + 1>>,
                                     name |-> name, whole |-> whole])
    /\ UNCHANGED <<wire, shortCircuit, loop, turn, history, finished, results,
                   trace, versions, returned>>

StartOf(b) == [event |-> "start", id |-> b.id, name |-> b.name]
CallOf(b)  == [id |-> b.id, name |-> b.name]
Starts(s)  == [i \in DOMAIN s |-> StartOf(s[i])]
Calls(s)   == [i \in DOMAIN s |-> CallOf(s[i])]

\* content_block_stop of a tool_use block: its tool_call_start is recorded and
\* the call becomes ready.  That of a block without id or name does nothing.
CloseCall ==
    /\ loop = "stream" /\ wire = "anthropic"
    /\ Len(blocks) \in Unclosed
    /\ trace' = Append(trace, StartOf(Last(blocks)))
    /\ finished' = Append(finished, CallOf(Last(blocks)))
    /\ UNCHANGED <<wire, shortCircuit, loop, turn, history, blocks, results,
                   versions, returned>>

\* After the response: without a call the run is over, else the calls are
\* dispatched.  The OpenAI runners put the assistant message on the history
\* before they dispatch, run_agent_turn after.
Route(calls, stop) ==
    IF calls = <<>>
    THEN Return(stop) /\ UNCHANGED history
    ELSE /\ loop' = "dispatch"
         /\ history' = IF wire = "anthropic" THEN history
                       ELSE Append(history, Message("assistant",
                                [i \in DOMAIN calls |-> calls[i].id], <<>>))
         /\ UNCHANGED returned

\* The stream ends; one that ends before its last block has no stop_reason.
EndAnthropic(stop) ==
    /\ loop = "stream" /\ wire = "anthropic"
    /\ Unclosed = {} \/ stop = "other"
    /\ Route(finished, stop)
    /\ UNCHANGED <<wire, shortCircuit, turn, blocks, finished, results, trace, versions>>

\* The calls with an id and a name, by their index.
Whole(bs) ==
    LET W == {i \in DOMAIN bs : bs[i].whole}
        nth == CHOOSE f \in [1..Cardinality(W) -> W] : \A i, j \in DOMAIN f : i < j => f[i] < f[j]
    IN  [i \in DOMAIN nth |-> bs[nth[i]]]

\* A chunk with a finish_reason: the whole calls are recorded and become ready
\* together.
EndOpenAI(stop) ==
    /\ loop = "stream" /\ wire = "openai"
    /\ trace' = trace \o Starts(Whole(blocks))
    /\ finished' = Calls(Whole(blocks))
    /\ Route(finished', stop)
    /\ UNCHANGED <<wire, shortCircuit, turn, blocks, results, versions>>

\* Ollama answers in one piece; each of its calls is given an id.
EndOllama(stop) ==
    /\ loop = "stream" /\ wire = "ollama"
    /\ trace' = trace \o Starts(blocks)
    /\ finished' = Calls(blocks)
    /\ Route(finished', stop)
    /\ UNCHANGED <<wire, shortCircuit, turn, blocks, results, versions>>

\* An OpenAI stream that stops without a finish_reason counts as "stop"; the
\* calls it had begun are never finalised.
EndCutOff ==
    /\ loop = "stream" /\ wire = "openai"
    /\ Return("end_turn")
    /\ UNCHANGED <<wire, shortCircuit, turn, history, blocks, finished, results,
                   trace, versions>>

\* "Failed to generate a valid tool call": a synthetic assistant and user pair
\* asks for another try, which costs one iteration.
Recover_userOnly ==
    /\ loop = "stream" /\ wire = "anthropic"
    /\ history' = history \o <<Message("user", <<>>, <<>>)>>
    /\ loop' = "request"
    /\ UNCHANGED <<wire, shortCircuit, turn, blocks, finished, results, trace,
                   versions, returned>>
Recover ==
    /\ loop = "stream" /\ wire = "anthropic"
    /\ history' = history \o <<Message("assistant", <<>>, <<>>), Message("user", <<>>, <<>>)>>
    /\ loop' = "request"
    /\ UNCHANGED <<wire, shortCircuit, turn, blocks, finished, results, trace,
                   versions, returned>>

\* Any other exception of the request, an empty choices list, or a
\* cancellation while a tool runs, leaves the loop; no AgentTurnResult exists.
Raise ==
    /\ loop \in {"stream", "dispatch"}
    /\ loop' = "raised"
    /\ UNCHANGED <<wire, shortCircuit, turn, history, blocks, finished, results,
                   trace, versions, returned>>

\* dispatch_tool for the next call: an exception becomes an error result, a
\* sandbox-runtime kill carries its error_class, and a write_skill whose Python
\* does not load is reported as an error although its version is inserted.
Dispatch(outcome) ==
    LET call == finished[Len(results) + 1] IN
    /\ loop = "dispatch" /\ Len(results) < Len(finished)
    /\ outcome \in Outcomes[call.name]
    /\ results' = Append(results, [id |-> call.id, outcome |-> outcome])
    /\ trace' = Append(trace, [event |-> outcome, id |-> call.id, name |-> call.name])
    /\ versions' = IF call.name = "write_skill" /\ outcome \in {"ok", "invalid"}
                   THEN Append(versions, call.id) ELSE versions
    /\ UNCHANGED <<wire, shortCircuit, loop, turn, history, blocks, finished, returned>>

ReplyOf(r) == [id |-> r.id, archived |-> FALSE]

\* What a dispatched turn adds to the history: in the Anthropic shape the
\* assistant message, with every block of the response, and ONE user message,
\* in the OpenAI shape one message per result.
TurnMessages ==
    IF wire = "anthropic"
    THEN <<Message("assistant", [i \in DOMAIN blocks |-> blocks[i].id], <<>>),
           Message("user", <<>>, [i \in DOMAIN results |-> ReplyOf(results[i])])>>
    ELSE [i \in DOMAIN results |-> Message("tool", <<>>, <<ReplyOf(results[i])>>)]

SandboxKill == \E i \in DOMAIN results : results[i].outcome = "kill"

\* All calls of the turn are answered.
EndTurn ==
    /\ loop = "dispatch" /\ Len(results) = Len(finished)
    /\ returned' = [returned EXCEPT
           !.calls = @ + Len(results),
           !.errors = @ + Cardinality({i \in DOMAIN results : results[i].outcome # "ok"}),
           !.stop = IF shortCircuit /\ SandboxKill THEN "sandbox_error_propagated" ELSE @]
    /\ IF shortCircuit /\ SandboxKill
       THEN loop' = "returned" /\ UNCHANGED history
       ELSE loop' = "request" /\ history' = history \o TurnMessages
    /\ UNCHANGED <<wire, shortCircuit, turn, blocks, finished, results, trace, versions>>

\* _extract_latest_write_skill: the last write_skill of the trace whose result
\* is ok.
LatestWrite_anyStatus ==
    LET P == {i \in DOMAIN trace : trace[i].name = "write_skill" /\ trace[i].event # "start"}
    IN IF P = {} THEN NoCall ELSE trace[CHOOSE i \in P : \A j \in P : j <= i].id
LatestWrite ==
    LET P == {i \in DOMAIN trace : trace[i].name = "write_skill" /\ trace[i].event = "ok"}
    IN IF P = {} THEN NoCall ELSE trace[CHOOSE i \in P : \A j \in P : j <= i].id

\* main_async after the run: only a run that ended on its own and left a
\* version goes to the gate.
Conclude ==
    /\ loop = "returned"
    /\ returned' = [returned EXCEPT !.candidate = LatestWrite]
    /\ loop' = IF returned.stop = "end_turn" /\ LatestWrite # NoCall
               THEN "gated" ELSE "skipped"
    /\ UNCHANGED <<wire, shortCircuit, turn, history, blocks, finished, results,
                   trace, versions>>

LoopNext ==
    \/ Request \/ GiveUp \/ CloseCall \/ EndCutOff \/ Recover \/ Raise
    \/ EndTurn \/ Conclude
    \/ \E name \in Tools : OpenCall(name)
    \/ \E stop \in Stops : EndAnthropic(stop) \/ EndOpenAI(stop) \/ EndOllama(stop)
    \/ \E outcome \in {"ok", "invalid", "error", "kill"} : Dispatch(outcome)

LoopSpec == LoopInit /\ [][LoopNext]_loopVars

-----------------------------------------------------------------------------
(***************************************************************************)
(* Properties.                                                             *)
(***************************************************************************)
IsPrefixAt(h, i, ids) == \A k \in DOMAIN ids :
    /\ i + k \in DOMAIN h
    /\ h[i + k].role = "tool"
    /\ [j \in DOMAIN h[i + k].replies |-> h[i + k].replies[j].id] = <<ids[k]>>

\* The calls the collector saw start.
Started(t) == {t[i].id : i \in {j \in DOMAIN t : t[j].event = "start"}}

\* The calls of a turn that started are answered, each once, in their order.
Answered(calls, replies, started) ==
    /\ {replies[j].id : j \in DOMAIN replies} = {calls[k] : k \in DOMAIN calls} \cap started
    /\ \A j, k \in DOMAIN replies : j < k => replies[j].id[2] < replies[k].id[2]

\* Every request the loop sends keeps the provider's order: the kickoff comes
\* first, Anthropic roles alternate and end with the user, and each tool call
\* that started is answered, once and in order, right after the assistant
\* message it is in -- also after compaction, a rejected response or one with
\* broken calls -- and nothing else is.  On the OpenAI wire no other call is in
\* the history.  On the Anthropic wire a block without id or name, or cut off
\* before its stop, stays there without an answer beside calls that have one.
RequestIsAnswerable ==
    loop = "stream" =>
        /\ history[1] = Kickoff
        /\ wire = "anthropic" =>
              /\ \A i \in DOMAIN history :
                     history[i].role = IF i % 2 = 1 THEN "user" ELSE "assistant"
              /\ Len(history) % 2 = 1
              /\ \A i \in DOMAIN history : history[i].role = "assistant" =>
                     Answered(history[i].calls, history[i + 1].replies, Started(trace))
        /\ wire # "anthropic" =>
              /\ \A i \in DOMAIN history : IsPrefixAt(history, i, history[i].calls)
              /\ \A i \in DOMAIN history : Range(history[i].calls) \subseteq Started(trace)
              /\ \A i \in ResultPositions(history) :
                     \E a \in 1..i - 1 : i <= a + Len(history[a].calls)

\* The model sees the results of its latest calls in full at least once: the
\* request that carries them for the first time has none of them archived.  The
\* OpenAI shape promises that only for turns of at most KeepLastK calls.
FreshResultsReachTheModel ==
    LET asked == {i \in DOMAIN history : history[i].calls # <<>>} IN
    loop = "stream" =>
        \A a \in asked :
            /\ \A i \in asked : i <= a
            /\ wire = "anthropic" \/ Len(history[a].calls) <= KeepLastK
            => \A i \in DOMAIN history : i > a =>
                   FullReplies(history[i]) = DOMAIN history[i].replies

\* What goes to the gate is a version this run inserted and reported as good,
\* any version inserted after it is one the agent was told does not load, and a
\* run in which the sandbox was killed sends none where the caller asked for
\* short_circuit_on_sandbox_error.
CandidateIsLastGoodWrite ==
    loop = "gated" =>
        /\ \E v \in DOMAIN versions :
              /\ versions[v] = returned.candidate
              /\ \A i \in DOMAIN trace : trace[i].id = versions[v] =>
                     trace[i].event \in {"start", "ok"}
              /\ \A w \in DOMAIN versions : w > v =>
                     \E i \in DOMAIN trace :
                         trace[i].id = versions[w] /\ trace[i].event = "invalid"
        /\ shortCircuit => \A i \in DOMAIN trace : trace[i].event # "kill"
=============================================================================
