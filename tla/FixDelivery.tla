----------------------------- MODULE FixDelivery -----------------------------
(***************************************************************************)
(* Delivering a deployed fix to its origin (api/routes/proposals.py):      *)
(* ship-langsmith pushes a prompt commit under a lock of the proposal and  *)
(* records it; ship-copilot-studio only records it.  Requests race each    *)
(* other and the deploys and rollbacks of the skill's proposals.           *)
(*                                                                         *)
(* Deploys are serial here; what two at once may do is in                  *)
(* ProposalLifecycle.                                                      *)
(***************************************************************************)
EXTENDS Naturals, FiniteSets, Sequences

CONSTANTS
    Fix,      \* approved proposals on one skill; also the text of their versions
    Shipper,  \* requests to deliver
    NoFix

ASSUME DeliveryAssumption == NoFix \notin Fix \cup Shipper

VARIABLES
    origin,     \* workflows.origin
    fixState,   \* proposals.state
    liveFix,    \* skills.deployed_version_id
    commits,    \* prompt commits in LangSmith: for which proposal, with which text
    receipts,   \* fix-shipped / fix-exported audit entries
    call,       \* a request: where it is, its proposal and what it has read of it
    pushLock,   \* holder of a proposal's advisory lock
    strays,     \* pushes whose request is gone while their thread runs on
    unrecorded  \* commits that were made and not recorded

deliveryVars == <<origin, fixState, liveFix, commits, receipts, call, pushLock, strays, unrecorded>>

DeliveryInit ==
    /\ origin \in {"langsmith", "copilot_studio"}
    /\ fixState = [f \in Fix |-> "approved-awaiting-deploy"]
    /\ liveFix = NoFix
    /\ commits = <<>> /\ receipts = {} /\ strays = {}
    /\ call = [c \in Shipper |-> [at |-> "start", fix |-> NoFix, state |-> "absent", text |-> NoFix]]
    /\ pushLock = [f \in Fix |-> NoFix]
    /\ unrecorded = [f \in Fix |-> 0]

\* deploy_proposal and rollback_proposal (approvals/deploy.py), each as one step.
DeployFix(f) ==
    /\ fixState[f] = "approved-awaiting-deploy"
    /\ \A g \in Fix : fixState[g] # "deployed"
    /\ fixState' = [fixState EXCEPT ![f] = "deployed"]
    /\ liveFix' = f
    /\ UNCHANGED <<origin, commits, receipts, call, pushLock, strays, unrecorded>>
RollFixBack(f) ==
    /\ fixState[f] = "deployed"
    /\ fixState' = [fixState EXCEPT ![f] = "rolled-back"]
    /\ liveFix' = NoFix
    /\ UNCHANGED <<origin, commits, receipts, call, pushLock, strays, unrecorded>>

Goes(c, label) == call' = [call EXCEPT ![c].at = label]
Release(c) == pushLock' = [f \in Fix |-> IF pushLock[f] = c THEN NoFix ELSE pushLock[f]]
Recorded(f) == \E r \in receipts : r.fix = f
world == <<origin, fixState, liveFix>>

\* One statement reads the proposal's state and the deployed version's content.
ReadFix(c, f) ==
    /\ call[c].at = "start"
    /\ call' = [call EXCEPT ![c] = [at |-> "check", fix |-> f, state |-> fixState[f], text |-> liveFix]]
    /\ UNCHANGED <<world, commits, receipts, pushLock, strays, unrecorded>>

\* The audit log, then the preconditions on what was read before it.
Shippable(c) == call[c].state = "deployed" /\ call[c].text # NoFix
CheckFix(c) ==
    /\ call[c].at = "check"
    /\ Goes(c, IF Recorded(call[c].fix) THEN "already"
               ELSE IF ~Shippable(c) THEN "refused"
               ELSE IF origin = "langsmith" THEN "credential" ELSE "record")
    /\ UNCHANGED <<world, commits, receipts, pushLock, strays, unrecorded>>

\* The credential is there or not, or cannot be decrypted.
ReadCredential(c) ==
    /\ call[c].at = "credential"
    /\ \E next \in {"lock", "refused"} : Goes(c, next)
    /\ UNCHANGED <<world, commits, receipts, pushLock, strays, unrecorded>>

LockFix(c) ==
    /\ call[c].at = "lock" /\ pushLock[call[c].fix] = NoFix
    /\ pushLock' = [pushLock EXCEPT ![call[c].fix] = c]
    /\ Goes(c, "recheck")
    /\ UNCHANGED <<world, commits, receipts, strays, unrecorded>>

\* The audit log again, under the lock; nothing else is read again.
Shipped_outside(c) == FALSE
Shipped(c) == Recorded(call[c].fix)
Recheck(c) ==
    /\ call[c].at = "recheck"
    /\ IF Shipped(c) THEN Goes(c, "already") /\ Release(c)
       ELSE Goes(c, "push") /\ UNCHANGED pushLock
    /\ UNCHANGED <<world, commits, receipts, strays, unrecorded>>

PromptCommit(f, text) == commits' = Append(commits, [fix |-> f, text |-> text])
Missed(f) == unrecorded' = [unrecorded EXCEPT ![f] = @ + 1]

\* push_fix: a commit is made.
Push(c) ==
    /\ call[c].at = "push"
    /\ PromptCommit(call[c].fix, call[c].text)
    /\ Goes(c, "record")
    /\ UNCHANGED <<world, receipts, pushLock, strays, unrecorded>>

\* push_fix raises, before or after the commit is made.
PushRaises(c) ==
    /\ call[c].at = "push"
    /\ Goes(c, "failed") /\ Release(c)
    /\ \/ UNCHANGED <<commits, unrecorded>>
       \/ PromptCommit(call[c].fix, call[c].text) /\ Missed(call[c].fix)
    /\ UNCHANGED <<world, receipts, strays>>

\* The audit entry and the commit of the transaction.  A unique index refuses a
\* second entry; the request then answers with the first.
RecordDelivery(c) ==
    /\ call[c].at = "record"
    /\ Goes(c, IF Recorded(call[c].fix) THEN "already" ELSE "delivered")
    /\ receipts' = IF Recorded(call[c].fix) THEN receipts
                   ELSE receipts \cup {[fix |-> call[c].fix, text |-> call[c].text]}
    /\ Release(c)
    /\ UNCHANGED <<world, commits, strays, unrecorded>>

\* The insert fails otherwise, the connection breaks or the process goes down.
\* A push runs on in its thread.
Stop(c) ==
    /\ call[c].at \in {"lock", "recheck", "push", "record"}
    /\ Goes(c, "failed") /\ Release(c)
    /\ strays' = IF call[c].at = "push" THEN strays \cup {[of |-> c, fix |-> call[c].fix, text |-> call[c].text]}
                 ELSE strays
    /\ IF call[c].at = "record" /\ origin = "langsmith" THEN Missed(call[c].fix) ELSE UNCHANGED unrecorded
    /\ UNCHANGED <<world, commits, receipts>>
StrayLands(p) ==
    /\ strays' = strays \ {p}
    /\ PromptCommit(p.fix, p.text) /\ Missed(p.fix)
    /\ UNCHANGED <<world, receipts, call, pushLock>>

DeliveryNext ==
    \/ \E f \in Fix : DeployFix(f) \/ RollFixBack(f)
    \/ \E c \in Shipper : \/ \E f \in Fix : ReadFix(c, f)
                          \/ CheckFix(c) \/ ReadCredential(c) \/ LockFix(c) \/ Recheck(c)
                          \/ Push(c) \/ PushRaises(c) \/ RecordDelivery(c) \/ Stop(c)
    \/ \E p \in strays : StrayLands(p)

DeliverySpec == DeliveryInit /\ [][DeliveryNext]_deliveryVars

-----------------------------------------------------------------------------
Places ==
    {"start", "check", "credential", "lock", "recheck", "push", "record",
     "already", "refused", "failed", "delivered"}
Texts == Fix \cup {NoFix}
DeliveryTypeOK ==
    /\ origin \in {"langsmith", "copilot_studio"}
    /\ fixState \in [Fix -> {"approved-awaiting-deploy", "deployed", "rolled-back"}]
    /\ liveFix \in Texts
    /\ commits \in Seq([fix : Fix, text : Texts])
    /\ receipts \subseteq [fix : Fix, text : Texts]
    /\ call \in [Shipper -> [at : Places, fix : Texts, text : Texts,
                             state : {"absent", "approved-awaiting-deploy", "deployed", "rolled-back"}]]
    /\ pushLock \in [Fix -> Shipper \cup {NoFix}]
    /\ strays \subseteq [of : Shipper, fix : Fix, text : Texts]
    /\ unrecorded \in [Fix -> Nat]

CommitsOf(f) == {i \in DOMAIN commits : commits[i].fix = f}

\* "Idempotent ... without a second push" (ship_langsmith): a proposal has one
\* recorded delivery at most, and one commit for it besides those whose answer or
\* record was lost; what is delivered in its name is its own version, whatever
\* is deployed, rolled back or delivered meanwhile; and who is told that it is
\* delivered can read the record.
DeliveredOnce ==
    /\ \A r, s \in receipts : r.fix = s.fix => r = s
    /\ \A r \in receipts : r.text = r.fix /\ (origin = "langsmith" => CommitsOf(r.fix) # {})
    /\ \A i \in DOMAIN commits : commits[i].text = commits[i].fix
    /\ \A f \in Fix : Cardinality(CommitsOf(f)) <= 1 + unrecorded[f]
    /\ \A c \in Shipper : call[c].at \in {"delivered", "already"} => Recorded(call[c].fix)
=============================================================================
