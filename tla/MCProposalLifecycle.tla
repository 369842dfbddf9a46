------------------------ MODULE MCProposalLifecycle -------------------------
(***************************************************************************)
(* Instances of ProposalLifecycle for TLC.                                 *)
(***************************************************************************)
EXTENDS ProposalLifecycle, TLC

CONSTANTS p1, p2, a1, b1, b2, k1, x1, s1, s2, s3

\* Two proposals on one skill; one proposal on a skill with two older versions.
\* Or, as the second of two, an artifact proposal; two of these are in
\* MCControlPlane.
TwoOnSkill == (p1 :> k1) @@ (p2 :> k1) @@ (b1 :> k1)
AndArtifact == TwoOnSkill @@ (a1 :> None)
OneOnSkill == (p1 :> k1) @@ (b1 :> k1) @@ (b2 :> k1)
Base       == k1 :> b1

NoSections == (p1 :> None) @@ (p2 :> None)
OneSection == NoSections @@ (a1 :> x1)
NoSection  == p1 :> None

Proposals       == Permutations({p1, p2})
Interchangeable == Permutations(Session) \cup Permutations({p1, p2})

=============================================================================
