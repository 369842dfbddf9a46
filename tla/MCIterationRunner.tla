------------------------- MODULE MCIterationRunner --------------------------
(***************************************************************************)
(* Instances of IterationRunner for TLC.                                   *)
(***************************************************************************)
EXTENDS IterationRunner, TLC

CONSTANTS r1, r2, g1, g2, k1, k2

\* A request, a job and a gate run; two gate runs and a job; two runs only.
Mixed    == (r1 :> "request") @@ (r2 :> "job") @@ (g1 :> "gate")
Gates    == (r1 :> "job") @@ (g1 :> "gate") @@ (g2 :> "gate")
Requests == (r1 :> "request") @@ (r2 :> "request")

\* Rounding lowers the score 3 to 2.
Rounded == [s \in Score |-> IF s = 3 THEN 2 ELSE s]

OneInstance == [r \in Run |-> k1]

=============================================================================
