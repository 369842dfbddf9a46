----------------------------- MODULE MCJobQueue -----------------------------
(***************************************************************************)
(* Instances of JobQueue for TLC.                                          *)
(***************************************************************************)
EXTENDS JobQueue, TLC

CONSTANTS j1, j2, w1, w2, s1, k1, k2

\* Two workflows of one tenant; one workflow.
OneTenant == (k1 :> s1) @@ (k2 :> s1)
OneKey    == k1 :> s1

=============================================================================
