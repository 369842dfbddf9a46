------------------------------- MODULE Sandbox -------------------------------
(***************************************************************************)
(* Sandboxed runs (sandbox/local_docker.py): the process-wide admission    *)
(* semaphore, the docker client of a run, the container the daemon starts  *)
(* for it, the timeout inside the run, cancellation from outside it        *)
(* (slot_timeout_seconds, or the caller's own), and the clean-up of each.  *)
(***************************************************************************)
EXTENDS Naturals, FiniteSets

CONSTANTS
    Call,       \* calls of LocalDockerSandbox.run
    Slots,      \* OWNEVO_SANDBOX_MAX_CONCURRENT
    MaxCancels  \* bound: cancellations

ASSUME SandboxAssumption == Slots \in Nat \ {0} /\ MaxCancels \in Nat

VARIABLES
    at,       \* where a call is
    client,   \* its `docker run` process is alive
    box,      \* its container
    missed,   \* no kill has reached a container of this call that was, or came, to be
    verdict,  \* what _classify made of it
    cancels

sandboxVars == <<at, client, box, missed, verdict, cancels>>

InSlot == {"talk", "kill", "grace", "inspect", "remove",
           "cancel-kill", "cancel-grace", "cancel-remove"}
Ends   == {"zero", "exception", "crash", "oom"}
Exited == Ends \cup {"killed"}

SandboxTypeOK ==
    /\ at \in [Call -> InSlot \cup {"queued", "returned", "raised"}]
    /\ client \in [Call -> BOOLEAN]
    /\ box \in [Call -> Exited \cup {"none", "running", "removed"}]
    /\ missed \in [Call -> BOOLEAN]
    /\ verdict \in [Call -> {"none", "late", "ok", "exception", "Timeout", "OOM", "Crash"}]
    /\ cancels \in 0..MaxCancels

SandboxInit ==
    /\ at = [c \in Call |-> "queued"]
    /\ client = [c \in Call |-> FALSE] /\ box = [c \in Call |-> "none"]
    /\ missed = [c \in Call |-> FALSE] /\ verdict = [c \in Call |-> "none"]
    /\ cancels = 0

Admitted == {c \in Call : at[c] \in InSlot}
MoveTo(c, place) == at' = [at EXCEPT ![c] = place]

-----------------------------------------------------------------------------
(***************************************************************************)
(* The docker daemon and client (external).                                *)
(***************************************************************************)
\* The daemon creates and starts the container some time after the client asked.
Start(c) ==
    /\ client[c] /\ box[c] = "none"
    /\ box' = [box EXCEPT ![c] = "running"]
    /\ UNCHANGED <<at, client, missed, verdict, cancels>>

Exit(c, how) ==
    /\ box[c] = "running"
    /\ box' = [box EXCEPT ![c] = how]
    /\ UNCHANGED <<at, client, missed, verdict, cancels>>

\* The client goes when its container has ended, or when the daemon refused.
ClientExits(c) ==
    /\ client[c] /\ box[c] # "running"
    /\ client' = [client EXCEPT ![c] = FALSE]
    /\ UNCHANGED <<at, box, missed, verdict, cancels>>

-----------------------------------------------------------------------------
(***************************************************************************)
(* LocalDockerSandbox.run.                                                 *)
(***************************************************************************)
Admits == Cardinality(Admitted) < Slots
Admit(c) ==
    /\ at[c] = "queued" /\ Admits
    /\ MoveTo(c, "talk")
    /\ client' = [client EXCEPT ![c] = TRUE]
    /\ UNCHANGED <<box, missed, verdict, cancels>>

\* communicate() returns.
Finish(c) ==
    /\ at[c] = "talk" /\ ~client[c]
    /\ MoveTo(c, "inspect")
    /\ UNCHANGED <<client, box, missed, verdict, cancels>>

\* wait_for runs out; the container may have ended in the same instant.
TimesOut(c) ==
    /\ at[c] = "talk"
    /\ MoveTo(c, "kill")
    /\ verdict' = [verdict EXCEPT ![c] = "late"]
    /\ UNCHANGED <<client, box, missed, cancels>>

\* `docker kill` is answered: a container that runs is dead, and one that is
\* not there yet is not known to it.
AfterKill_ignored(c) == box
AfterKill(c) == IF box[c] = "running" THEN [box EXCEPT ![c] = "killed"] ELSE box
Kill(c) ==
    /\ at[c] \in {"kill", "cancel-kill"}
    /\ box' = AfterKill(c)
    /\ missed' = [missed EXCEPT ![c] = @ \/ box[c] = "none"]
    /\ MoveTo(c, IF at[c] = "kill" THEN "grace" ELSE "cancel-grace")
    /\ UNCHANGED <<client, verdict, cancels>>

\* The client ends within the grace period, or the period is over.
Wait(c) ==
    /\ at[c] \in {"grace", "cancel-grace"}
    /\ MoveTo(c, IF at[c] = "grace" THEN "inspect" ELSE "cancel-remove")
    /\ UNCHANGED <<client, box, missed, verdict, cancels>>

\* _classify over what `docker inspect` tells, or over the client's return code
\* where it tells nothing.
VerdictOn(c) ==
    CASE verdict[c] = "late"      -> "Timeout"
      [] box[c] = "oom"           -> "OOM"
      [] box[c] = "zero"          -> "ok"
      [] box[c] = "exception"     -> "exception"
      [] OTHER                    -> "Crash"
Inspect(c, answered) ==
    /\ at[c] = "inspect"
    /\ verdict' = [verdict EXCEPT ![c] =
           IF answered \/ VerdictOn(c) # "OOM" THEN VerdictOn(c) ELSE "Crash"]
    /\ MoveTo(c, "remove")
    /\ UNCHANGED <<client, box, missed, cancels>>

\* `docker rm -f`, also of a container that started after all.
RemoveBox(c) ==
    /\ at[c] \in {"remove", "cancel-remove"}
    /\ box' = [box EXCEPT ![c] = IF @ = "none" THEN @ ELSE "removed"]
    /\ MoveTo(c, IF at[c] = "remove" THEN "returned" ELSE "raised")
    /\ UNCHANGED <<client, missed, verdict, cancels>>

\* A CancelledError where the call awaits.  In communicate() it is caught: kill,
\* wait, remove.  In the handlers themselves it is not, whether the docker
\* command was already under way or not; only the wait after the kill ignores it.
Cancel(c, sent) ==
    /\ at[c] \in InSlot \cup {"queued"} /\ cancels < MaxCancels
    /\ cancels' = cancels + 1
    /\ CASE at[c] = "talk" -> MoveTo(c, "cancel-kill") /\ UNCHANGED <<box, missed>>
         [] at[c] = "cancel-grace" -> MoveTo(c, "cancel-remove") /\ UNCHANGED <<box, missed>>
         [] at[c] \in {"kill", "cancel-kill"} ->
               /\ MoveTo(c, "raised")
               /\ box' = IF sent THEN AfterKill(c) ELSE box
               /\ missed' = [missed EXCEPT ![c] = @ \/ ~sent \/ box[c] = "none"]
         [] at[c] \in {"remove", "cancel-remove"} ->
               /\ MoveTo(c, "raised")
               /\ box' = IF sent /\ box[c] # "none" THEN [box EXCEPT ![c] = "removed"] ELSE box
               /\ UNCHANGED missed
         [] OTHER -> MoveTo(c, "raised") /\ UNCHANGED <<box, missed>>
    /\ UNCHANGED <<client, verdict>>

SandboxNext ==
    \E c \in Call :
        \/ Start(c) \/ ClientExits(c) \/ Admit(c) \/ Finish(c) \/ TimesOut(c) \/ Kill(c)
        \/ Wait(c) \/ RemoveBox(c)
        \/ \E how \in Ends : Exit(c, how)
        \/ \E flag \in BOOLEAN : Inspect(c, flag) \/ Cancel(c, flag)

SandboxSpec == SandboxInit /\ [][SandboxNext]_sandboxVars

\* "the slot is held for exactly the container's lifetime (acquire-to-cleanup)"
\* (_run_inside_slot), whatever times out or is cancelled in between -- unless
\* the kill came before the container did, or was itself cut off.
RunningHoldsASlot ==
    /\ \A c \in Call : box[c] = "running" => at[c] \in InSlot \/ missed[c]
    /\ Cardinality({c \in Call : box[c] = "running" /\ ~missed[c]}) <= Slots
=============================================================================
