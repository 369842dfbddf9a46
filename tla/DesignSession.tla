---------------------------- MODULE DesignSession ----------------------------
(***************************************************************************)
(* How a workflow is made from a description: the discovery interview of   *)
(* the web application (design-flow.tsx, actions.ts), the kernel's         *)
(* next-question (api/routes/design_agent.py, design_agent/interviewer.py) *)
(* and generate (api/routes/nl_gen.py, nl_gen/_validation_retry.py), under *)
(* the token quota of a demo visitor (api/_demo_gate.py, _demo_quota.py).  *)
(*                                                                         *)
(* A question is who asks it, its dimension and its question_index; the    *)
(* text of questions, answers and specs is left out.                       *)
(***************************************************************************)
EXTENDS Naturals, FiniteSets, Sequences

CONSTANTS
    Page,         \* open pages of one visitor
    Interviewed,  \* those that go through discovery; the others only generate
    Dimension,    \* DIMENSION_SPECS
    Template,     \* dimensions of the template's hardcoded questions
    NumFindings,  \* conflicts find_description_conflicts sees
    HasKey,       \* ANTHROPIC_API_KEY is set
    MaxRetries,   \* of a generator whose tool input does not validate
    TokenLimit,   \* the tier's daily limit, in calls of the LLM
    WorkflowId,   \* ids that a generated spec may carry
    MaxSent,      \* bound on the requests of each page
    MaxBreaks     \* bound on connections and usage writes that fail

ASSUME DesignAssumption ==
    /\ IsFiniteSet(Page) /\ Page # {} /\ Interviewed \subseteq Page
    /\ IsFiniteSet(Dimension) /\ Template \in Seq(Dimension) /\ Len(Template) <= Cardinality(Dimension)
    /\ {NumFindings, MaxRetries, TokenLimit, MaxBreaks} \subseteq Nat
    /\ MaxSent \in [Page -> Nat]

VARIABLES
    page,     \* DesignFlow's state, and the request it waits for
    requests, \* requests in the kernel, whether their page still waits or not
    built,    \* rows of workflows with their design_agent_log
    used,     \* demo_usage of the day
    breaks    \* failures so far

designVars == <<page, requests, built, used, breaks>>

Stages == <<"spec", "sim", "metric", "insert">>
NoQuestion == [by |-> "nobody", dim |-> "none", index |-> 0]
Blank == [next |-> NoQuestion, done |-> FALSE, loaded |-> FALSE, total |-> 0, log |-> <<>>, retried |-> FALSE,
          scanned |-> FALSE, found |-> 0, settled |-> 0, waits |-> 0, sent |-> 0, over |-> FALSE]

DesignInit ==
    /\ page = [p \in Page |-> Blank]
    /\ requests = {} /\ built = {} /\ used = 0 /\ breaks = 0

-----------------------------------------------------------------------------
(* The page.                                                               *)

\* loadNextQuestion's catch: the total is 0 then.
LoadFails(s) == [s EXCEPT !.next = NoQuestion, !.done = FALSE, !.loaded = FALSE, !.total = 0, !.waits = 0]
Fails(kind, s) == IF kind = "question" THEN LoadFails(s) ELSE [s EXCEPT !.waits = 0]

\* A request passes the gate or is refused: quota, budget, or a network error.
Send(p, s, kind, entries) ==
    LET sent == [s EXCEPT !.sent = @ + 1]
    IN  /\ s.sent < MaxSent[p]
        /\ \/ /\ used < TokenLimit
              /\ requests' = requests \cup {[page |-> p, n |-> sent.sent, kind |-> kind, entries |-> entries,
                                       stage |-> 1, attempt |-> 1, tokens |-> 0]}
              /\ page' = [page EXCEPT ![p] = [sent EXCEPT !.waits = sent.sent]]
           \/ page' = [page EXCEPT ![p] = Fails(kind, sent)] /\ UNCHANGED requests
        /\ UNCHANGED <<built, used, breaks>>

Idle(p) == page[p].waits = 0 /\ ~page[p].over

\* The server-side prefetch of the first question.
Open(p) ==
    /\ p \in Interviewed /\ Idle(p) /\ page[p].sent = 0
    /\ Send(p, page[p], "question", {})

\* The retry effect: once a page, whenever there is neither question nor end.
MayRetry_always(s) == TRUE
MayRetry(s) == ~s.retried
RetryFirst(p) ==
    /\ p \in Interviewed /\ Idle(p) /\ page[p].sent > 0 /\ MayRetry(page[p])
    /\ ~(page[p].loaded /\ (page[p].next # NoQuestion \/ page[p].done))
    /\ Send(p, [page[p] EXCEPT !.retried = TRUE], "question", {})

\* displayedCurrent: the kernel's question, else the next finding.
Shown(s) ==
    IF s.next # NoQuestion THEN s.next
    ELSE IF s.done /\ s.scanned /\ s.settled < s.found
    THEN [by |-> "scan", dim |-> "goal", index |-> s.total + s.settled]
    ELSE NoQuestion

\* An answer or a skip.  The answer to a finding stays local; any other sends
\* all entries that are not findings.
Entries(log) == {log[i] : i \in DOMAIN log}
Echoed(s)    == {e \in Entries(s.log) : e.index < s.total}
Answer(p) ==
    LET q == Shown(page[p])
        s == [page[p] EXCEPT !.log = Append(@, q)]
    IN  /\ Idle(p) /\ q # NoQuestion
        /\ IF q.index >= s.total
           THEN /\ page' = [page EXCEPT ![p] = [s EXCEPT !.settled = @ + 1]]
                /\ UNCHANGED <<requests, built, used, breaks>>
           ELSE Send(p, s, "question", Echoed(s))

\* The scan for conflicts, once the interview is done; none when it fails.
Scan(p) ==
    /\ Idle(p) /\ page[p].done /\ ~page[p].scanned
    /\ \E found \in {0, NumFindings} :
          page' = [page EXCEPT ![p].scanned = TRUE, ![p].found = found]
    /\ UNCHANGED <<requests, built, used, breaks>>

Ready(s) == s.done /\ s.scanned /\ s.settled >= s.found
Generate(p) ==
    /\ Idle(p) /\ (p \in Interviewed => Ready(page[p]))
    /\ Send(p, page[p], "generate", Entries(page[p].log))

\* The page's call breaks, or the prefetch times out; the kernel goes on.
CallBreaks(p) ==
    /\ page[p].waits # 0 /\ breaks < MaxBreaks
    /\ breaks' = breaks + 1
    /\ \E c \in requests : c.page = p /\ c.n = page[p].waits /\ page' = [page EXCEPT ![p] = Fails(c.kind, page[p])]
    /\ UNCHANGED <<requests, built, used>>

-----------------------------------------------------------------------------
(* The kernel.                                                             *)

\* A reply reaches the page if it still waits for it.
Reply(c, s) == page' = IF page[c.page].waits = c.n THEN [page EXCEPT ![c.page] = [s EXCEPT !.waits = 0]] ELSE page

\* record_demo_usage is best effort.
Record(tokens) ==
    \/ used' = used + tokens /\ UNCHANGED breaks
    \/ tokens > 0 /\ breaks < MaxBreaks /\ breaks' = breaks + 1 /\ UNCHANGED used

\* pick_next_question, or the template's first question without an index among
\* the entries; the LLM's questions carry index 0.
Covered(entries) == {e.dim : e \in entries}
OpenDims(entries) == Dimension \ Covered(entries)
Unseen(entries) == {n \in 0..(Len(Template) - 1) : \A e \in entries : e.index # n}
Asked(s, q, total) == [s EXCEPT !.next = q, !.done = q = NoQuestion, !.loaded = TRUE, !.total = total]
Fallback(entries) ==
    IF Unseen(entries) = {} THEN NoQuestion
    ELSE LET n == CHOOSE n \in Unseen(entries) : \A m \in Unseen(entries) : n <= m
         IN  [by |-> "template", dim |-> Template[n + 1], index |-> n]
PickNext(open) == {[by |-> "llm", dim |-> d, index |-> 0] : d \in open}
NextQuestion(c) ==
    LET open == OpenDims(c.entries)
        s == page[c.page]
    IN  /\ c.kind = "question"
        /\ requests' = requests \ {c}
        /\ \E tokens \in IF HasKey /\ open # {} THEN {0, 1} ELSE {0} :
              /\ Record(tokens)
              /\ \/ /\ HasKey /\ tokens = 1
                    /\ \E q \in PickNext(open) : Reply(c, Asked(s, q, Cardinality(Dimension)))
                 \/ HasKey /\ open = {} /\ Reply(c, Asked(s, NoQuestion, Cardinality(Dimension)))
                 \/ (~HasKey \/ open # {}) /\ Reply(c, Asked(s, Fallback(c.entries), Len(Template)))
        /\ UNCHANGED built

\* One call of a generator: the next one after a valid input, again with the
\* errors after an invalid one, the end after the last, without a tool use or
\* when the call itself fails; 503 at once without a key.
Advance(c) ==
    IF Stages[c.stage + 1] = "insert" THEN [c EXCEPT !.stage = @ + 1, !.tokens = 0]
    ELSE [c EXCEPT !.stage = @ + 1, !.attempt = 1, !.tokens = @ + 1]
CallLLM(c) ==
    /\ c.kind = "generate" /\ Stages[c.stage] # "insert"
    /\ \/ /\ HasKey
          /\ requests' = (requests \ {c}) \cup {Advance(c)}
          /\ IF Stages[c.stage + 1] = "insert" THEN Record(c.tokens + 1) ELSE UNCHANGED <<used, breaks>>
          /\ UNCHANGED page
       \/ /\ HasKey /\ c.attempt <= MaxRetries
          /\ requests' = (requests \ {c}) \cup {[c EXCEPT !.attempt = @ + 1, !.tokens = @ + 1]}
          /\ UNCHANGED <<page, used, breaks>>
       \/ /\ requests' = requests \ {c}
          /\ \E last \in IF HasKey THEN {0, 1} ELSE {0} : Record(c.tokens + last)
          /\ Reply(c, page[c.page])
    /\ UNCHANGED built

\* INSERT ... ON CONFLICT DO NOTHING with the log, its audit entries and the
\* agent in one transaction; 409 when the id is taken.
Insert(c) ==
    /\ c.kind = "generate" /\ Stages[c.stage] = "insert"
    /\ requests' = requests \ {c}
    /\ \E id \in WorkflowId :
          IF \E w \in built : w.id = id THEN Reply(c, page[c.page]) /\ UNCHANGED built
          ELSE /\ built' = built \cup {[id |-> id, of |-> c.page, log |-> c.entries]}
               /\ Reply(c, [page[c.page] EXCEPT !.over = TRUE])
    /\ UNCHANGED <<used, breaks>>

DesignNext ==
    \/ \E p \in Page : Open(p) \/ RetryFirst(p) \/ Answer(p) \/ Scan(p) \/ Generate(p) \/ CallBreaks(p)
    \/ \E c \in requests : NextQuestion(c) \/ CallLLM(c) \/ Insert(c)

DesignSpec == DesignInit /\ [][DesignNext]_designVars

-----------------------------------------------------------------------------
DesignTypeOK ==
    /\ \A p \in Page : page[p].waits <= page[p].sent /\ page[p].sent <= MaxSent[p]
    /\ used \in Nat /\ breaks \in 0..MaxBreaks

\* An interview asks a question twice at most once, and only when its one retry
\* has started it over, so its log stays short enough to be sent; what is built
\* has the log of an interview that covered the dimensions or the template, or
\* none; and what is recorded for a visitor overshoots the quota by no more than
\* was under way when the limit was reached: one request of each page or that a
\* page has given up, each with all stages and retries.  That is more than the
\* single call of _demo_quota.py:9-10.
SameQuestion(a, b) == a.by = b.by /\ (IF a.by = "llm" THEN a.dim = b.dim ELSE a.index = b.index)
Repeats(log) == {ij \in (DOMAIN log) \X (DOMAIN log) : ij[1] < ij[2] /\ SameQuestion(log[ij[1]], log[ij[2]])}
CostOfOne == 3 * (MaxRetries + 1)
InterviewsEnd ==
    /\ \A p \in Page :
          /\ Cardinality(Repeats(page[p].log)) <= IF page[p].retried THEN 1 ELSE 0
          /\ Len(page[p].log) <= Cardinality(Dimension) + Len(Template) + NumFindings + 1
    /\ \A w \in built : w.of \in Interviewed => OpenDims(w.log) = {} \/ Unseen(w.log) = {}
    /\ used < TokenLimit + (Cardinality(Page) + MaxBreaks) * CostOfOne
=============================================================================
