------------------------- MODULE IterationContract --------------------------
(***************************************************************************)
(* What the iterations of a workflow look like to its readers: they are    *)
(* numbered in the order they appear, and end once, with a verdict that    *)
(* stays and a proposal if it is a pass.                                   *)
(***************************************************************************)
EXTENDS Naturals, FiniteSets

CONSTANT Run

VARIABLES state, index, proposal

Ended == {"gate-pass", "gate-blocked", "sandbox-error"}

Init ==
    /\ state    = [r \in Run |-> "absent"]
    /\ index    = [r \in Run |-> 0]
    /\ proposal = [r \in Run |-> FALSE]

\* A row appears, running or, from the gate, with its verdict.
Appear(r) ==
    /\ state[r] = "absent"
    /\ \E s \in Ended \cup {"running"} :
          /\ state' = [state EXCEPT ![r] = s]
          /\ proposal' = [proposal EXCEPT ![r] = s = "gate-pass"]
    /\ index' = [index EXCEPT ![r] = Cardinality({q \in Run : state[q] # "absent"})]

\* Running iterations end: one with its own verdict, or all of a boot at once.
End(S) ==
    /\ S # {} /\ \A r \in S : state[r] = "running"
    /\ \E s \in [S -> Ended] :
          /\ state' = [r \in Run |-> IF r \in S THEN s[r] ELSE state[r]]
          /\ proposal' = [r \in Run |-> IF r \in S THEN s[r] = "gate-pass" ELSE proposal[r]]
    /\ UNCHANGED index

Next == (\E r \in Run : Appear(r)) \/ (\E S \in SUBSET Run : End(S))

vars == <<state, index, proposal>>

Spec == Init /\ [][Next]_vars

=============================================================================
