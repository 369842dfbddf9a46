-------------------------- MODULE ProposalContract --------------------------
(***************************************************************************)
(* What the approval queue promises: every operation on a proposal is one  *)
(* indivisible step, at most one version of a skill is live, and rolling   *)
(* it back leaves none.  Two operations that race for the pointer of a     *)
(* skill void the last two promises for it.                                *)
(***************************************************************************)
CONSTANTS Proposal, Version, Skill, SkillOf, BaseOf, None

VARIABLES pstate, head, live,
          raced   \* the skills for whose pointer operations have raced

Init ==
    /\ pstate = [p \in Proposal |-> "absent"]
    /\ head   = BaseOf
    /\ live   = [k \in Skill |-> None]
    /\ raced  = {}

Moves(p, from, to) ==
    /\ pstate[p] = from
    /\ pstate' = [pstate EXCEPT ![p] = to]

\* A proposal is made; a gate pass makes its version the skill's head.
Propose(p) ==
    \/ /\ \E state \in {"gate-passed", "rejected", "gate-failed"} : Moves(p, "absent", state)
       /\ UNCHANGED <<head, live, raced>>
    \/ /\ Moves(p, "absent", "gate-passed")
       /\ SkillOf[p] # None
       /\ head' = [head EXCEPT ![SkillOf[p]] = p]
       /\ UNCHANGED <<live, raced>>

Decide(p) ==
    /\ \E state \in {"approved-awaiting-deploy", "rejected", "changes-requested"} :
          Moves(p, "gate-passed", state)
    /\ UNCHANGED <<head, live, raced>>

\* A version goes live only when no proposal on its skill is.
Deploy(p) ==
    /\ Moves(p, "approved-awaiting-deploy", "deployed")
    /\ IF SkillOf[p] = None
          THEN UNCHANGED <<live, raced>>
          ELSE /\ raced' \in {raced, raced \cup {SkillOf[p]}}
               /\ \/ SkillOf[p] \in raced'
                  \/ /\ live[SkillOf[p]] = None
                     /\ \A q \in Proposal : SkillOf[q] = SkillOf[p] => pstate[q] # "deployed"
               /\ live' = [live EXCEPT ![SkillOf[p]] = p]
    /\ UNCHANGED head

\* Raced for, a pointer may be left at a version of another proposal.
Rollback(p) ==
    /\ SkillOf[p] # None
    /\ Moves(p, "deployed", "rolled-back")
    /\ raced' \in {raced, raced \cup {SkillOf[p]}}
    /\ \/ /\ SkillOf[p] \in raced'
          /\ \E q \in Proposal \ {p} :
                /\ SkillOf[q] = SkillOf[p]
                /\ pstate[q] \in {"deployed", "rolled-back"}
                /\ live' = [live EXCEPT ![SkillOf[p]] = q]
       \/ /\ SkillOf[p] \in raced' \/ live[SkillOf[p]] = p
          /\ live' = [live EXCEPT ![SkillOf[p]] = None]
    /\ UNCHANGED head

Revert(k, v) ==
    /\ SkillOf[v] = k /\ head[k] # v
    /\ head' = [head EXCEPT ![k] = v]
    /\ UNCHANGED <<pstate, live, raced>>

Next ==
    \/ \E p \in Proposal : Propose(p) \/ Decide(p) \/ Deploy(p) \/ Rollback(p)
    \/ \E k \in Skill, v \in Version : Revert(k, v)

vars == <<pstate, head, live, raced>>

Spec == Init /\ [][Next]_vars

=============================================================================
