---------------------------- MODULE JobContract ----------------------------
(***************************************************************************)
(* What jobs/queue.py promises to whoever enqueues work, with no workers:  *)
(* one pending job per (workspace, kind, workflow), settled at most once,  *)
(* given up only after MaxAttempts tries, successful only after one.       *)
(***************************************************************************)
EXTENDS Naturals

CONSTANTS Job, Key, None, MaxAttempts, AttemptsCap

VARIABLES outcome, key, tries

vars == <<outcome, key, tries>>

Init ==
    /\ outcome = [j \in Job |-> "absent"]
    /\ key     = [j \in Job |-> None]
    /\ tries   = [j \in Job |-> 0]

\* A key with a pending job takes no second one.
Submit(j, k) ==
    /\ outcome[j] = "absent"
    /\ \A i \in Job : outcome[i] = "pending" => key[i] # k
    /\ outcome' = [outcome EXCEPT ![j] = "pending"]
    /\ key' = [key EXCEPT ![j] = k]
    /\ UNCHANGED tries

Try(j) ==
    /\ outcome[j] = "pending"
    /\ tries' = [tries EXCEPT ![j] = IF @ < AttemptsCap THEN @ + 1 ELSE @]
    /\ UNCHANGED <<outcome, key>>

Succeed(j) ==
    /\ outcome[j] = "pending"
    /\ tries[j] >= 1
    /\ outcome' = [outcome EXCEPT ![j] = "succeeded"]
    /\ UNCHANGED <<key, tries>>

GiveUp(j) ==
    /\ outcome[j] = "pending"
    /\ tries[j] >= MaxAttempts
    /\ outcome' = [outcome EXCEPT ![j] = "failed"]
    /\ UNCHANGED <<key, tries>>

Next ==
    \E j \in Job : \/ \E k \in Key : Submit(j, k)
                   \/ Try(j)
                   \/ Succeed(j)
                   \/ GiveUp(j)

Spec == Init /\ [][Next]_vars

=============================================================================
