----------------------------- MODULE AgentProofs -----------------------------
(*****************************************************************************)
(* Proofs about Sandbox, for any set of calls, any number of slots and any   *)
(* number of cancellations, about McpAuth, for any numbers of clients,       *)
(* callbacks, nonces, tokens and changes, and about AgentLoop, for any       *)
(* numbers of turns, calls and skills.                                       *)
(*****************************************************************************)
EXTENDS Sandbox, McpAuth, AgentLoop, FiniteSetTheorems, WellFoundedInduction, TLAPS

-----------------------------------------------------------------------------
(*****************************************************************************)
(* The containers of the sandbox.                                            *)
(*****************************************************************************)

\* The docker client outlives the container it started.
ClientInv == \A c \in Call : box[c] = "running" => client[c]

\* Once a call is past the kill, or has not begun, no container of it runs, and
\* none can come, but for one that a kill has missed.
Settled(c) ==
    /\ box[c] = "running" => missed[c]
    /\ box[c] = "none" => ~client[c] \/ missed[c]
SettledInv == \A c \in Call : at[c] \notin {"talk", "kill", "cancel-kill"} => Settled(c)

\* The semaphore counts the calls that are in a slot.
SlotInv == IsFiniteSet(Admitted) /\ Cardinality(Admitted) <= Slots

SandboxInv == SandboxTypeOK /\ ClientInv /\ SettledInv /\ SlotInv

\* Whoever leaves or stays takes no slot.
LEMMA SlotsKept ==
    ASSUME SlotInv, Admitted' \subseteq Admitted
    PROVE  SlotInv'
  <1>1. IsFiniteSet(Admitted') /\ Cardinality(Admitted') <= Cardinality(Admitted)
    BY FS_Subset DEF SlotInv
  <1>2. Cardinality(Admitted) \in Nat /\ Cardinality(Admitted') \in Nat
    BY <1>1, FS_CardinalityType DEF SlotInv
  <1>3. QED
    BY <1>1, <1>2, SandboxAssumption DEF SlotInv

\* A call that moves without coming from the queue takes none either.
LEMMA SlotsOfMove ==
    ASSUME SandboxTypeOK, SlotInv, NEW c \in Call, NEW place, MoveTo(c, place), at[c] \in InSlot \/ place \notin InSlot
    PROVE  SlotInv'
  <1>1. Admitted' \subseteq Admitted
    BY DEF Admitted, MoveTo, SandboxTypeOK
  <1>2. QED
    BY <1>1, SlotsKept

\* The initial state is one of the invariant.
LEMMA SandboxInvInit ==
    ASSUME SandboxInit
    PROVE  SandboxInv
  <1>1. Admitted = {}
    BY DEF SandboxInit, Admitted, InSlot
  <1>2. SlotInv
    BY <1>1, FS_EmptySet, SandboxAssumption DEF SlotInv
  <1>3. SandboxTypeOK /\ ClientInv /\ SettledInv
    BY SandboxAssumption DEF SandboxInit, SandboxTypeOK, ClientInv, SettledInv, Settled, InSlot
  <1>4. QED
    BY <1>2, <1>3 DEF SandboxInv

\* Every step keeps the invariant.
LEMMA SandboxInvStep ==
    ASSUME SandboxInv, SandboxNext \/ UNCHANGED sandboxVars
    PROVE  SandboxInv'
  <1> USE SandboxAssumption
  <1>1. ASSUME NEW c \in Call, Start(c) PROVE SandboxInv'
    <2>1. SandboxTypeOK' /\ ClientInv'
      BY <1>1 DEF Start, SandboxInv, SandboxTypeOK, ClientInv, Exited, Ends
    <2>2. SettledInv'
      BY <1>1 DEF Start, SandboxInv, SandboxTypeOK, SettledInv, Settled
    <2>3. SlotInv'
      BY <1>1, SlotsKept DEF Start, SandboxInv, Admitted
    <2>4. QED
      BY <2>1, <2>2, <2>3 DEF SandboxInv
  <1>2. ASSUME NEW c \in Call, NEW how \in Ends, Exit(c, how) PROVE SandboxInv'
    <2>1. SandboxTypeOK' /\ ClientInv'
      BY <1>2 DEF Exit, SandboxInv, SandboxTypeOK, ClientInv, Exited, Ends
    <2>2. SettledInv'
      BY <1>2 DEF Exit, SandboxInv, SandboxTypeOK, SettledInv, Settled, Ends
    <2>3. SlotInv'
      BY <1>2, SlotsKept DEF Exit, SandboxInv, Admitted
    <2>4. QED
      BY <2>1, <2>2, <2>3 DEF SandboxInv
  <1>3. ASSUME NEW c \in Call, ClientExits(c) PROVE SandboxInv'
    <2>1. SandboxTypeOK' /\ ClientInv'
      BY <1>3 DEF ClientExits, SandboxInv, SandboxTypeOK, ClientInv
    <2>2. SettledInv'
      BY <1>3 DEF ClientExits, SandboxInv, SandboxTypeOK, SettledInv, Settled
    <2>3. SlotInv'
      BY <1>3, SlotsKept DEF ClientExits, SandboxInv, Admitted
    <2>4. QED
      BY <2>1, <2>2, <2>3 DEF SandboxInv
  <1>4. ASSUME NEW c \in Call, Admit(c) PROVE SandboxInv'
    <2>1. SandboxTypeOK' /\ ClientInv'
      BY <1>4 DEF Admit, MoveTo, SandboxInv, SandboxTypeOK, ClientInv, InSlot
    <2>2. SettledInv'
      BY <1>4 DEF Admit, MoveTo, SandboxInv, SandboxTypeOK, SettledInv, Settled
    <2>3. Admitted' = Admitted \cup {c}
      BY <1>4 DEF Admit, MoveTo, SandboxInv, SandboxTypeOK, Admitted, InSlot
    <2>4. /\ IsFiniteSet(Admitted') /\ Cardinality(Admitted') <= Cardinality(Admitted) + 1
          /\ Cardinality(Admitted) \in Nat /\ Cardinality(Admitted') \in Nat
      <3>1. IsFiniteSet(Admitted) /\ Cardinality(Admitted) \in Nat
        BY FS_CardinalityType DEF SandboxInv, SlotInv
      <3>2. /\ IsFiniteSet(Admitted \cup {c})
            /\ Cardinality(Admitted \cup {c}) = IF c \in Admitted THEN Cardinality(Admitted) ELSE Cardinality(Admitted) + 1
        BY <3>1, FS_AddElement
      <3>3. QED
        BY <2>3, <3>1, <3>2
    <2>5. Cardinality(Admitted) < Slots
      BY <1>4 DEF Admit, Admits
    <2>6. SlotInv'
      BY <2>4, <2>5 DEF SlotInv
    <2>7. QED
      BY <2>1, <2>2, <2>6 DEF SandboxInv
  <1>5. ASSUME NEW c \in Call, Finish(c) PROVE SandboxInv'
    <2>1. SandboxTypeOK' /\ ClientInv'
      BY <1>5 DEF Finish, MoveTo, SandboxInv, SandboxTypeOK, ClientInv, InSlot
    <2>2. SettledInv'
      BY <1>5 DEF Finish, MoveTo, SandboxInv, SandboxTypeOK, ClientInv, SettledInv, Settled
    <2>3. SlotInv'
      BY <1>5, SlotsOfMove DEF Finish, SandboxInv, InSlot
    <2>4. QED
      BY <2>1, <2>2, <2>3 DEF SandboxInv
  <1>6. ASSUME NEW c \in Call, TimesOut(c) PROVE SandboxInv'
    <2>1. SandboxTypeOK' /\ ClientInv'
      BY <1>6 DEF TimesOut, MoveTo, SandboxInv, SandboxTypeOK, ClientInv, InSlot
    <2>2. SettledInv'
      BY <1>6 DEF TimesOut, MoveTo, SandboxInv, SandboxTypeOK, SettledInv, Settled
    <2>3. SlotInv'
      BY <1>6, SlotsOfMove DEF TimesOut, SandboxInv, InSlot
    <2>4. QED
      BY <2>1, <2>2, <2>3 DEF SandboxInv
  <1>7. ASSUME NEW c \in Call, Kill(c) PROVE SandboxInv'
    <2>1. SandboxTypeOK' /\ ClientInv'
      BY <1>7 DEF Kill, AfterKill, MoveTo, SandboxInv, SandboxTypeOK, ClientInv, InSlot, Exited, Ends
    <2>2. SettledInv'
      BY <1>7 DEF Kill, AfterKill, MoveTo, SandboxInv, SandboxTypeOK, SettledInv, Settled
    <2>3. SlotInv'
      BY <1>7, SlotsOfMove DEF Kill, SandboxInv, InSlot
    <2>4. QED
      BY <2>1, <2>2, <2>3 DEF SandboxInv
  <1>8. ASSUME NEW c \in Call, Wait(c) PROVE SandboxInv'
    <2>1. SandboxTypeOK' /\ ClientInv'
      BY <1>8 DEF Wait, MoveTo, SandboxInv, SandboxTypeOK, ClientInv, InSlot
    <2>2. SettledInv'
      BY <1>8 DEF Wait, MoveTo, SandboxInv, SandboxTypeOK, SettledInv, Settled
    <2>3. SlotInv'
      BY <1>8, SlotsOfMove DEF Wait, SandboxInv, InSlot
    <2>4. QED
      BY <2>1, <2>2, <2>3 DEF SandboxInv
  <1>9. ASSUME NEW c \in Call, RemoveBox(c) PROVE SandboxInv'
    <2>1. SandboxTypeOK' /\ ClientInv'
      BY <1>9 DEF RemoveBox, MoveTo, SandboxInv, SandboxTypeOK, ClientInv, InSlot
    <2>2. SettledInv'
      BY <1>9 DEF RemoveBox, MoveTo, SandboxInv, SandboxTypeOK, SettledInv, Settled
    <2>3. SlotInv'
      BY <1>9, SlotsOfMove DEF RemoveBox, SandboxInv, InSlot
    <2>4. QED
      BY <2>1, <2>2, <2>3 DEF SandboxInv
  <1>10. ASSUME NEW c \in Call, NEW answered \in BOOLEAN, Inspect(c, answered) PROVE SandboxInv'
    <2>1. SandboxTypeOK' /\ ClientInv'
      BY <1>10 DEF Inspect, VerdictOn, MoveTo, SandboxInv, SandboxTypeOK, ClientInv, InSlot
    <2>2. SettledInv'
      BY <1>10 DEF Inspect, MoveTo, SandboxInv, SandboxTypeOK, SettledInv, Settled
    <2>3. SlotInv'
      BY <1>10, SlotsOfMove DEF Inspect, SandboxInv, InSlot
    <2>4. QED
      BY <2>1, <2>2, <2>3 DEF SandboxInv
  <1>11. ASSUME NEW c \in Call, NEW sent \in BOOLEAN, Cancel(c, sent) PROVE SandboxInv'
    <2>1. CASE at[c] = "talk"
      <3>1. MoveTo(c, "cancel-kill") /\ UNCHANGED <<client, box, missed, verdict>> /\ cancels' \in 0..MaxCancels
        BY <1>11, <2>1 DEF Cancel, SandboxInv, SandboxTypeOK
      <3>2. SlotInv'
        BY <2>1, <3>1, SlotsOfMove DEF SandboxInv, InSlot
      <3>3. QED
        BY <2>1, <3>1, <3>2 DEF MoveTo, SandboxInv, SandboxTypeOK, ClientInv, SettledInv, Settled, InSlot
    <2>2. CASE at[c] = "cancel-grace"
      <3>1. MoveTo(c, "cancel-remove") /\ UNCHANGED <<client, box, missed, verdict>> /\ cancels' \in 0..MaxCancels
        BY <1>11, <2>2 DEF Cancel, SandboxInv, SandboxTypeOK
      <3>2. SlotInv'
        BY <2>2, <3>1, SlotsOfMove DEF SandboxInv, InSlot
      <3>3. QED
        BY <2>2, <3>1, <3>2 DEF MoveTo, SandboxInv, SandboxTypeOK, ClientInv, SettledInv, Settled, InSlot
    <2>3. CASE at[c] \in {"kill", "cancel-kill"}
      <3>1. /\ MoveTo(c, "raised") /\ UNCHANGED <<client, verdict>> /\ cancels' \in 0..MaxCancels
            /\ box' = IF sent THEN AfterKill(c) ELSE box
            /\ missed' = [missed EXCEPT ![c] = @ \/ ~sent \/ box[c] = "none"]
        BY <1>11, <2>3 DEF Cancel, SandboxInv, SandboxTypeOK
      <3>2. SlotInv'
        BY <3>1, SlotsOfMove DEF SandboxInv, InSlot
      <3>3. SandboxTypeOK' /\ ClientInv'
        BY <3>1 DEF MoveTo, AfterKill, SandboxInv, SandboxTypeOK, ClientInv, Exited, Ends
      <3>4. SettledInv'
        BY <3>1 DEF MoveTo, AfterKill, SandboxInv, SandboxTypeOK, SettledInv, Settled
      <3>5. QED
        BY <3>2, <3>3, <3>4 DEF SandboxInv
    <2>4. CASE at[c] \in {"remove", "cancel-remove"}
      <3>1. /\ MoveTo(c, "raised") /\ UNCHANGED <<client, verdict, missed>> /\ cancels' \in 0..MaxCancels
            /\ box' = IF sent /\ box[c] # "none" THEN [box EXCEPT ![c] = "removed"] ELSE box
        BY <1>11, <2>4 DEF Cancel, SandboxInv, SandboxTypeOK
      <3>2. SlotInv'
        BY <3>1, SlotsOfMove DEF SandboxInv, InSlot
      <3>3. SandboxTypeOK' /\ ClientInv'
        BY <3>1 DEF MoveTo, SandboxInv, SandboxTypeOK, ClientInv
      <3>4. SettledInv'
        BY <2>4, <3>1 DEF MoveTo, SandboxInv, SandboxTypeOK, SettledInv, Settled
      <3>5. QED
        BY <3>2, <3>3, <3>4 DEF SandboxInv
    <2>5. CASE at[c] \notin {"talk", "cancel-grace", "kill", "cancel-kill", "remove", "cancel-remove"}
      <3>1. MoveTo(c, "raised") /\ UNCHANGED <<client, box, missed, verdict>> /\ cancels' \in 0..MaxCancels
        BY <1>11, <2>5 DEF Cancel, SandboxInv, SandboxTypeOK
      <3>2. SlotInv'
        BY <3>1, SlotsOfMove DEF SandboxInv, InSlot
      <3>3. QED
        BY <2>5, <3>1, <3>2 DEF MoveTo, SandboxInv, SandboxTypeOK, ClientInv, SettledInv, Settled, InSlot
    <2>6. QED
      BY <2>1, <2>2, <2>3, <2>4, <2>5
  <1>12. CASE UNCHANGED sandboxVars
    <2>1. SlotInv'
      BY <1>12, SlotsKept DEF sandboxVars, SandboxInv, Admitted
    <2>2. QED
      BY <1>12, <2>1 DEF sandboxVars, SandboxInv, SandboxTypeOK, ClientInv, SettledInv, Settled
  <1>13. QED
    BY <1>1, <1>2, <1>3, <1>4, <1>5, <1>6, <1>7, <1>8, <1>9, <1>10, <1>11, <1>12 DEF SandboxNext

\* The inductive invariant holds for ever.
LEMMA SandboxInvariance == SandboxSpec => []SandboxInv
  <1>1. SandboxInit => SandboxInv
    BY SandboxInvInit
  <1>2. SandboxInv /\ [SandboxNext]_sandboxVars => SandboxInv'
    BY SandboxInvStep
  <1>3. QED
    BY <1>1, <1>2, PTL DEF SandboxSpec

\* A container without a slot is one that a kill has missed, and what is in the
\* slots is never more than they are.
LEMMA InvImpliesSlots ==
    ASSUME SandboxInv
    PROVE  RunningHoldsASlot
  <1>1. \A c \in Call : box[c] = "running" => at[c] \in InSlot \/ missed[c]
    BY DEF SandboxInv, SettledInv, Settled, InSlot
  <1> DEFINE Held == {c \in Call : box[c] = "running" /\ ~missed[c]}
  <1>2. Held \in SUBSET Admitted
    BY <1>1 DEF Admitted
  <1>3. IsFiniteSet(Held) /\ Cardinality(Held) <= Cardinality(Admitted)
    BY <1>2, FS_Subset DEF SandboxInv, SlotInv
  <1>4. Cardinality(Held) <= Slots
    BY <1>3, FS_CardinalityType, SandboxAssumption DEF SandboxInv, SlotInv
  <1>5. QED
    BY <1>1, <1>4 DEF RunningHoldsASlot

\* What is said of calls, clients and containers stays in its types.
THEOREM SandboxTypeCorrect == SandboxSpec => []SandboxTypeOK
  BY SandboxInvariance, PTL DEF SandboxInv

\* Whatever times out, is killed or is cancelled at any await, a container that
\* runs holds one of the slots, unless its kill came too early or was cut off.
THEOREM SlotsBoundTheContainers == SandboxSpec => []RunningHoldsASlot
  BY SandboxInvariance, InvImpliesSlots, PTL

-----------------------------------------------------------------------------
(*****************************************************************************)
(* Tokens and credentials of an MCP server.                                  *)
(*****************************************************************************)

Token == [grant : Nat, n : Nat]
Secret == [access : Nat, refresh : Token, own : {"none", "token", "secret"}]
Kind == {"none", "bearer", "principal", "oauth"}
ActiveCall == [at : {"send", "secret", "fetch", "save"}, test : BOOLEAN, id : Nat, kind : Kind, read : Secret, new : Secret]
Calling == [call : [at : {"idle"}] \cup ActiveCall, cache : [id : Nat, header : Nat]]
Exchange == [at : {"exchange"}, state : State]
Answer == [at : {"oauth", "bearer"}, state : State, secret : Secret]

TypeInv ==
    /\ server \in [id : Nat, kind : Kind, secret : Secret, tested : BOOLEAN]
    /\ nonce \in [State -> {"none", "open", "late", "gone"}] /\ connects \in [State -> Nat]
    /\ browser \in [Browser -> [at : {"idle"}] \cup Exchange \cup Answer]
    /\ caller \in [Client -> Calling]
    /\ rotates \in BOOLEAN /\ issued \in 0..MaxTokens /\ accepted \subseteq Token /\ alive \subseteq 1..issued
    /\ rows \in Nat /\ changes \in 0..MaxChanges /\ mishaps \subseteq {"lost", "reuse", "crossed"}

CallBy(c) == caller[c].call
Minting(c) == CallBy(c).at \in {"fetch", "save"}
Saving(c) == CallBy(c).at = "save"
Read(c) == CallBy(c).read.refresh
New(c) == CallBy(c).new.refresh
Held == server.secret.refresh
InAnswer(b) == browser[b].at \in {"oauth", "bearer"}
Brought(b) == browser[b].secret.refresh

\* A nonce is with one callback, and then in one registration.
Carries(b, n) == browser[b].at # "idle" /\ browser[b].state = n
ConnectInv ==
    /\ \A n \in State : connects[n] \in {0, 1}
    /\ \A n \in State : nonce[n] # "gone" => connects[n] = 0 /\ \A b \in Browser : ~Carries(b, n)
    /\ \A n \in State : connects[n] = 1 => \A b \in Browser : ~Carries(b, n)
    /\ \A b, d \in Browser, n \in State : Carries(b, n) /\ Carries(d, n) => b = d

\* Every token there is has been issued.
Old(t) == t.grant <= issued /\ t.n <= issued
BoundInv ==
    /\ \A t \in accepted : Old(t) /\ t.n # 0
    /\ Old(Held)
    /\ \A b \in Browser : InAnswer(b) => Old(Brought(b))
    /\ \A c \in Client : Minting(c) => Old(Read(c)) /\ (Saving(c) => Old(New(c)))

\* What a callback brings is good, and of a consent that is nowhere else.
BrowserInv ==
    \A b \in Browser :
        /\ browser[b].at = "bearer" => browser[b].secret.own = "token" /\ Brought(b) = NoToken
        /\ browser[b].at = "oauth" =>
              /\ browser[b].secret.own = "secret" /\ Brought(b) \in accepted /\ Brought(b).grant # 0
              /\ Held.grant # Brought(b).grant
              /\ \A c \in Client : Minting(c) => Read(c).grant # Brought(b).grant /\ (Saving(c) => New(c).grant # Brought(b).grant)
              /\ \A d \in Browser : browser[d].at = "oauth" /\ Brought(d).grant = Brought(b).grant => d = b

\* What a call that renews has read, and what it will save.
MintInv ==
    /\ \A c \in Client : Minting(c) =>
          /\ CallBy(c).kind \in {"oauth", "principal"}
          /\ CallBy(c).kind = "oauth" => Read(c) # NoToken
          /\ Held # NoToken /\ Read(c) = Held => CallBy(c).id = server.id
    /\ \A c, d \in Client : Minting(c) /\ Minting(d) /\ Read(c) = Read(d) /\ Read(c) # NoToken => CallBy(c).id = CallBy(d).id
    /\ \A c \in Client : Saving(c) =>
          /\ CallBy(c).new.own = CallBy(c).read.own
          /\ CallBy(c).kind = "principal" => New(c) = NoToken
          /\ CallBy(c).kind = "oauth" /\ ~rotates => New(c) = Read(c)

\* A rotated token that is still to be saved is nowhere else.
Rotated(c) == Saving(c) /\ CallBy(c).kind = "oauth" /\ rotates
NewInv ==
    \A c \in Client : Rotated(c) =>
        /\ New(c).n # 0 /\ New(c).grant = Read(c).grant
        /\ Held # New(c)
        /\ \A b \in Browser : InAnswer(b) => Brought(b) # New(c)
        /\ \A d \in Client : /\ Minting(d) => Read(d) # New(c)
                             /\ Rotated(d) /\ d # c => New(d) # New(c)

OwnInv ==
    mishaps = {} => /\ server.kind = "bearer" => server.secret.own = "token"
                    /\ server.kind \in {"principal", "oauth"} => server.secret.own = "secret"

\* The row's token is good, or the answer to it is on its way and is good.
Owing(c) == Saving(c) /\ Owed(CallBy(c))
HoldInv ==
    mishaps = {} =>
        /\ server.kind = "oauth" => Held # NoToken /\ (Held \in accepted \/ \E c \in Client : Owing(c))
        /\ \A c \in Client : Owing(c) => New(c) \in accepted

RotateInv == ~rotates => mishaps \subseteq {"crossed"}

McpInv == TypeInv /\ ConnectInv /\ BoundInv /\ BrowserInv /\ MintInv /\ NewInv /\ OwnInv /\ HoldInv /\ RotateInv

-----------------------------------------------------------------------------

\* A call under way has all the parts of one.
LEMMA CallParts ==
    ASSUME TypeInv, NEW c \in Client, CallBy(c).at # "idle"
    PROVE  CallBy(c) \in ActiveCall
  BY DEF TypeInv, Calling, CallBy, ActiveCall

\* A browser is at rest, exchanges a code or waits for the answer.
LEMMA BrowserParts ==
    ASSUME TypeInv, NEW b \in Browser
    PROVE  /\ browser[b].at = "exchange" => browser[b] \in Exchange
           /\ InAnswer(b) => browser[b] \in Answer
           /\ browser[b].at = "idle" \/ browser[b].at = "exchange" \/ InAnswer(b)
  BY DEF TypeInv, Exchange, Answer, InAnswer

\* The empty values are of their types.
LEMMA Constants ==
    /\ NoToken \in Token /\ NoToken.grant = 0 /\ NoToken.n = 0
    /\ NoSecret \in Secret /\ NoSecret.refresh = NoToken /\ NoSecret.own = "none" /\ NoSecret.access = 0
    /\ AtRest \in [at : {"idle"}] /\ AtRest.at = "idle"
    /\ NoCache \in [id : Nat, header : Nat]
    /\ NoServer \in [id : Nat, kind : Kind, secret : Secret, tested : BOOLEAN]
    /\ NoServer.id = 0 /\ NoServer.kind = "none" /\ NoServer.secret = NoSecret
  BY DEF NoToken, Token, NoSecret, Secret, AtRest, NoCache, NoServer, Kind

\* Nothing is registered, no token is out.
LEMMA McpInvInit ==
    ASSUME McpInit
    PROVE  McpInv
  <1> USE Constants
  <1>1. /\ \A c \in Client : CallBy(c).at = "idle"
        /\ \A b \in Browser : browser[b].at = "idle"
        /\ Held = NoToken /\ server.kind = "none"
    BY DEF McpInit, CallBy, Held
  <1>2. TypeInv
    BY McpAssumption DEF McpInit, TypeInv, Calling
  <1>3. ConnectInv
    BY <1>1 DEF McpInit, ConnectInv, Carries
  <1>4. BoundInv
    BY <1>1 DEF McpInit, BoundInv, Old, InAnswer, Minting
  <1>5. BrowserInv /\ MintInv /\ NewInv
    BY <1>1 DEF BrowserInv, MintInv, NewInv, Rotated, Minting, Saving
  <1>6. OwnInv /\ HoldInv /\ RotateInv
    BY <1>1 DEF McpInit, OwnInv, HoldInv, Owing, Saving, RotateInv
  <1>7. QED
    BY <1>2, <1>3, <1>4, <1>5, <1>6 DEF McpInv

\* Calls go on or stop short of a renewal, and none stops that owes the row.
LEMMA Quiet ==
    ASSUME McpInv, TypeInv', server'.id = server.id, server'.kind = server.kind, server'.secret = server.secret,
           UNCHANGED <<rotates, issued, accepted, browser, nonce, connects>>,
           \A c \in Client : CallBy(c)' = CallBy(c) \/ ~Minting(c)',
           mishaps' = mishaps \/ (mishaps' # {} /\ rotates),
           mishaps' = {} => \A c \in Client : Owing(c) => CallBy(c)' = CallBy(c)
    PROVE  McpInv'
  <1>1. Held' = Held /\ \A b \in Browser : Brought(b)' = Brought(b) /\ (InAnswer(b)' <=> InAnswer(b))
    BY DEF Held, Brought, InAnswer
  <1>2. \A c \in Client : Minting(c)' => Minting(c) /\ CallBy(c)' = CallBy(c) /\ Read(c)' = Read(c) /\ New(c)' = New(c)
    BY DEF Minting, Read, New
  <1>3. \A c \in Client : /\ Saving(c)' => Minting(c)' /\ Saving(c)
                          /\ Rotated(c)' => Saving(c)' /\ Rotated(c)
                          /\ Owing(c)' => Saving(c)' /\ Owing(c)
    BY <1>1, <1>2 DEF Saving, Minting, Rotated, Owing, Owed, Held, Read
  <1>4. ConnectInv'
    BY DEF McpInv, ConnectInv, Carries
  <1>5. BoundInv'
    BY <1>1, <1>2, <1>3 DEF McpInv, BoundInv, Old
  <1>6. BrowserInv'
    BY <1>1, <1>2, <1>3 DEF McpInv, BrowserInv
  <1>7. MintInv'
    BY <1>1, <1>2, <1>3 DEF McpInv, MintInv
  <1>8. NewInv'
    BY <1>1, <1>2, <1>3 DEF McpInv, NewInv
  <1>9. OwnInv' /\ RotateInv'
    BY DEF McpInv, OwnInv, RotateInv
  <1>10. HoldInv'
    <2>1. ASSUME mishaps' = {}, NEW c \in Client, Owing(c) PROVE Owing(c)'
      BY <1>1, <2>1 DEF Owing, Owed, Saving
    <2>2. QED
      BY <1>1, <1>2, <1>3, <2>1 DEF McpInv, HoldInv
  <1>11. QED
    BY <1>4, <1>5, <1>6, <1>7, <1>8, <1>9, <1>10 DEF McpInv

\* A client's call changes and those of the others do not.
LEMMA CallPut ==
    ASSUME TypeInv, NEW c \in Client, NEW r \in Calling, caller' = [caller EXCEPT ![c] = r]
    PROVE  /\ caller' \in [Client -> Calling]
           /\ CallBy(c)' = r.call /\ \A d \in Client : d # c => CallBy(d)' = CallBy(d)
  BY DEF TypeInv, CallBy

\* What is put in place of a call.
LEMMA CallAt ==
    ASSUME TypeInv, NEW c \in Client, NEW call \in [at : {"idle"}] \cup ActiveCall, caller' = [caller EXCEPT ![c].call = call]
    PROVE  /\ caller' \in [Client -> Calling]
           /\ CallBy(c)' = call /\ \A d \in Client : d # c => CallBy(d)' = CallBy(d)
  <1>1. caller[c] \in Calling
    BY DEF TypeInv
  <1> DEFINE r == [call |-> call, cache |-> caller[c].cache]
  <1>2. r \in Calling /\ [caller[c] EXCEPT !.call = call] = r
    BY <1>1 DEF Calling
  <1>3. caller' = [caller EXCEPT ![c] = r]
    BY <1>2
  <1>4. r.call = call
    OBVIOUS
  <1> HIDE DEF r
  <1>5. QED
    BY <1>2, <1>3, <1>4, CallPut

\* The end of a call leaves the row but for its stamp.
LEMMA CallEnd ==
    ASSUME TypeInv, NEW c \in Client, CallEnds(c), CallBy(c).at # "idle"
    PROVE  /\ caller' \in [Client -> Calling]
           /\ server' \in [id : Nat, kind : Kind, secret : Secret, tested : BOOLEAN]
           /\ server'.id = server.id /\ server'.kind = server.kind /\ server'.secret = server.secret
           /\ CallBy(c)'.at = "idle" /\ \A d \in Client : d # c => CallBy(d)' = CallBy(d)
  <1>1. CASE CallBy(c).test
    <2>1. [call |-> AtRest, cache |-> NoCache] \in Calling
      BY Constants DEF Calling
    <2>2. caller' = [caller EXCEPT ![c] = [call |-> AtRest, cache |-> NoCache]]
      BY <1>1 DEF CallEnds, CallBy
    <2>3. server' = [server EXCEPT !.tested = TRUE] \/ server' = server
      BY <1>1 DEF CallEnds, CallBy
    <2> DEFINE r == [call |-> AtRest, cache |-> NoCache]
    <2>4. r.call.at = "idle"
      BY Constants
    <2> HIDE DEF r
    <2>5. caller' \in [Client -> Calling] /\ CallBy(c)' = r.call /\ \A d \in Client : d # c => CallBy(d)' = CallBy(d)
      BY <2>1, <2>2, CallPut DEF r
    <2>6. /\ server' \in [id : Nat, kind : Kind, secret : Secret, tested : BOOLEAN]
          /\ server'.id = server.id /\ server'.kind = server.kind /\ server'.secret = server.secret
      BY <2>3 DEF TypeInv
    <2>7. QED
      BY <2>4, <2>5, <2>6
  <1>2. CASE ~CallBy(c).test
    <2>1. caller' = [caller EXCEPT ![c].call = AtRest] /\ server' = server
      BY <1>2 DEF CallEnds, At, CallBy
    <2>2. AtRest \in [at : {"idle"}] \cup ActiveCall /\ AtRest.at = "idle"
      BY Constants
    <2>3. QED
      BY <2>1, <2>2, CallAt DEF TypeInv
  <1>3. QED
    BY <1>1, <1>2

-----------------------------------------------------------------------------

\* A call, or a test, reads the server's row.
LEMMA RequireStep ==
    ASSUME McpInv, NEW c \in Client, NEW test \in BOOLEAN, RequireServer(c, test)
    PROVE  McpInv'
  <1> DEFINE call == [at |-> IF caller[c].cache.id = server.id THEN "send" ELSE "secret", test |-> test, id |-> server.id,
                      kind |-> server.kind, read |-> NoSecret, new |-> NoSecret]
  <1>1. call \in ActiveCall /\ call.at \notin {"fetch", "save"}
    BY Constants DEF McpInv, TypeInv, ActiveCall
  <1>2. caller' = [caller EXCEPT ![c].call = call] /\ CallBy(c).at = "idle"
    BY Constants DEF RequireServer, At, CallBy
  <1>3. CallBy(c)' = call /\ \A d \in Client : d # c => CallBy(d)' = CallBy(d)
    BY <1>1, <1>2, CallAt DEF McpInv
  <1>4. TypeInv'
    BY <1>1, <1>2, CallAt DEF McpInv, TypeInv, RequireServer, At, NotByClients, flowVars, providerVars
  <1> HIDE DEF call
  <1>5. \A d \in Client : CallBy(d)' = CallBy(d) \/ ~Minting(d)'
    BY <1>1, <1>3 DEF Minting
  <1>6. \A d \in Client : Owing(d) => CallBy(d)' = CallBy(d)
    BY <1>2, <1>3 DEF Owing, Saving
  <1>7. QED
    BY <1>4, <1>5, <1>6, Quiet DEF RequireServer, At, NotByClients, flowVars, providerVars

\* A call reaches the provider, or fails.
LEMMA CallStep ==
    ASSUME McpInv, NEW c \in Client, CallServer(c)
    PROVE  McpInv'
  <1>1. CallBy(c).at = "send"
    BY DEF CallServer, CallBy
  <1>2. TypeInv'
    BY <1>1, CallEnd DEF McpInv, TypeInv, CallServer, NotByClients, flowVars, providerVars
  <1>3. \A d \in Client : CallBy(d)' = CallBy(d) \/ ~Minting(d)'
    BY <1>1, CallEnd DEF McpInv, Minting, CallServer
  <1>4. \A d \in Client : Owing(d) => CallBy(d)' = CallBy(d)
    BY <1>1, CallEnd DEF McpInv, Owing, Saving, CallServer
  <1>5. QED
    BY <1>1, <1>2, <1>3, <1>4, CallEnd, Quiet DEF McpInv, CallServer, NotByClients, flowVars, providerVars

\* The process of a client ends, with its cache.
LEMMA StopStep ==
    ASSUME McpInv, NEW c \in Client, StopClient(c)
    PROVE  McpInv'
  <1>1. /\ CallBy(c)'.at = "idle" /\ \A d \in Client : d # c => CallBy(d)' = CallBy(d)
        /\ caller' \in [Client -> Calling]
    <2>1. [call |-> AtRest, cache |-> NoCache] \in Calling
      BY Constants DEF Calling
    <2>2. QED
      BY <2>1, CallPut, Constants DEF StopClient, McpInv
  <1>2. mishaps' = IF Owing(c) THEN mishaps \cup {"lost"} ELSE mishaps
    BY DEF StopClient, Owing, Saving, CallBy
  <1>3. TypeInv'
    BY <1>1, <1>2 DEF StopClient, McpInv, TypeInv, NotByClients, flowVars, providerVars
  <1>4. Owing(c) => rotates
    BY DEF Owing, Owed
  <1>5. QED
    BY <1>1, <1>2, <1>3, <1>4, Quiet DEF StopClient, Minting, NotByClients, flowVars, providerVars

\* A cached header expires.
LEMMA CacheStep ==
    ASSUME McpInv, NEW c \in Client, CacheExpires(c)
    PROVE  McpInv'
  <1>1. caller' \in [Client -> Calling] /\ \A d \in Client : CallBy(d)' = CallBy(d)
    BY Constants DEF CacheExpires, CallBy, Calling, McpInv, TypeInv
  <1>2. TypeInv'
    BY <1>1 DEF CacheExpires, McpInv, TypeInv, NotByClients, flowVars, providerVars
  <1>3. QED
    BY <1>1, <1>2, Quiet DEF CacheExpires, NotByClients, flowVars, providerVars

\* A token of the provider expires.
LEMMA ExpireStep ==
    ASSUME McpInv, NEW t \in alive, TokenExpires(t)
    PROVE  McpInv'
  <1>1. caller' \in [Client -> Calling] /\ \A d \in Client : CallBy(d)' = CallBy(d)
    BY Constants DEF TokenExpires, CallBy, Calling, McpInv, TypeInv
  <1>2. TypeInv'
    BY <1>1 DEF TokenExpires, McpInv, TypeInv, NotByClients, flowVars
  <1>3. QED
    BY <1>1, <1>2, Quiet DEF TokenExpires, NotByClients, flowVars

-----------------------------------------------------------------------------

\* The changes stay within their bound.
LEMMA ChangeKept ==
    ASSUME TypeInv, Change
    PROVE  changes' \in 0..MaxChanges
  <1>1. changes \in 0..MaxChanges /\ MaxChanges \in Nat
    BY McpAssumption DEF TypeInv
  <1>2. QED
    BY <1>1 DEF Change

\* The OAuth client of the app is set or deleted.
LEMMA AppStep ==
    ASSUME McpInv, SetClient \/ DeleteClient
    PROVE  McpInv'
  <1>1. changes' \in 0..MaxChanges
    BY ChangeKept DEF SetClient, DeleteClient, McpInv
  <1>2. TypeInv'
    BY <1>1 DEF SetClient, DeleteClient, McpInv, TypeInv, providerVars
  <1>3. QED
    BY <1>2, Quiet DEF SetClient, DeleteClient, CallBy, providerVars

\* A nonce is made, ages, or is consumed by one callback.
LEMMA NonceStep ==
    ASSUME McpInv, NEW n \in State, StartFlow(n) \/ StateExpires(n) \/ \E b \in Browser : Consume(b, n)
    PROVE  McpInv'
  <1>1. UNCHANGED <<server, caller, rotates, issued, accepted, alive, rows, connects, mishaps, changes>>
    BY DEF StartFlow, StateExpires, Consume, providerVars
  <1>2. \/ UNCHANGED browser /\ (nonce[n] = "none" \/ nonce[n] = "open")
        \/ \E b \in Browser : /\ browser[b] = AtRest /\ nonce[n] \in {"open", "late"}
                             /\ browser' = [browser EXCEPT ![b] = [at |-> "exchange", state |-> n]]
        \/ UNCHANGED browser /\ nonce[n] = "late"
    BY DEF StartFlow, StateExpires, Consume
  <1>3. /\ nonce' \in [State -> {"none", "open", "late", "gone"}] /\ nonce[n] # "gone"
        /\ \A m \in State : m # n => nonce'[m] = nonce[m]
        /\ UNCHANGED browser \/ nonce'[n] = "gone"
    BY DEF StartFlow, StateExpires, Consume, Consumed, McpInv, TypeInv
  <1>4. TypeInv'
    BY <1>1, <1>2, <1>3 DEF McpInv, TypeInv, Exchange
  <1>5. ConnectInv'
    <2>1. CASE UNCHANGED browser
      BY <1>1, <1>3, <2>1 DEF McpInv, ConnectInv, Carries
    <2>2. ASSUME NEW b \in Browser, browser[b] = AtRest, browser' = [browser EXCEPT ![b] = [at |-> "exchange", state |-> n]],
                 nonce'[n] = "gone"
          PROVE  ConnectInv'
      <3>1. \A d \in Browser, m \in State : Carries(d, m)' <=> (IF d = b THEN m = n ELSE Carries(d, m))
        BY <2>2 DEF Carries, McpInv, TypeInv
      <3>2. connects[n] = 0 /\ \A d \in Browser : ~Carries(d, n)
        BY <1>3 DEF McpInv, ConnectInv
      <3>3. QED
        BY <1>1, <1>3, <2>2, <3>1, <3>2 DEF McpInv, ConnectInv
    <2>3. QED
      BY <1>2, <1>3, <2>1, <2>2
  <1>6. \A b \in Browser : InAnswer(b)' => InAnswer(b) /\ browser'[b] = browser[b]
    BY <1>2 DEF McpInv, TypeInv, InAnswer
  <1>7. \A c \in Client : /\ CallBy(c)' = CallBy(c) /\ Read(c)' = Read(c) /\ New(c)' = New(c)
                          /\ Minting(c)' = Minting(c) /\ Saving(c)' = Saving(c) /\ Rotated(c)' = Rotated(c)
                          /\ Owing(c)' = Owing(c)
    BY <1>1 DEF CallBy, Read, New, Minting, Saving, Rotated, Owing, Owed
  <1>8. Held' = Held /\ \A b \in Browser : InAnswer(b)' => Brought(b)' = Brought(b)
    BY <1>1, <1>6 DEF Held, Brought
  <1>9. BoundInv'
    BY <1>1, <1>6, <1>7, <1>8 DEF McpInv, BoundInv, Old
  <1>10. BrowserInv'
    <2>1. \A b \in Browser : browser'[b].at \in {"oauth", "bearer"} => browser'[b] = browser[b]
      BY <1>6 DEF InAnswer
    <2>2. QED
      BY <1>1, <1>7, <1>8, <2>1 DEF McpInv, BrowserInv, InAnswer, Brought
  <1>11. MintInv' /\ OwnInv' /\ RotateInv' /\ HoldInv'
    BY <1>1, <1>7, <1>8 DEF McpInv, MintInv, OwnInv, RotateInv, HoldInv
  <1>12. NewInv'
    BY <1>6, <1>7, <1>8 DEF McpInv, NewInv
  <1>13. QED
    BY <1>4, <1>5, <1>9, <1>10, <1>11, <1>12 DEF McpInv

-----------------------------------------------------------------------------
\* A token of this consent is nowhere else: the provider has just numbered it.
LEMMA ExchangeStep ==
    ASSUME McpInv, NEW b \in Browser, ExchangeCode(b)
    PROVE  McpInv'
  <1> DEFINE n == issued + 1
  <1>1. UNCHANGED <<server, nonce, caller, rotates, changes, rows, connects, mishaps>> /\ browser[b] \in Exchange
    BY BrowserParts DEF ExchangeCode, McpInv
  <1>2. PICK r \in [at : {"idle"}] \cup Answer :
           /\ browser' = [browser EXCEPT ![b] = r]
           /\ r = AtRest \/ r.state = browser[b].state
           /\ r.at = "bearer" => r.secret.own = "token" /\ r.secret.refresh = NoToken
           /\ r.at = "oauth" => r.secret.own = "secret" /\ r.secret.refresh = [grant |-> n, n |-> n]
           /\ \/ /\ r.at = "oauth" /\ issued' = n /\ n <= MaxTokens /\ alive' = alive \cup {n}
                 /\ accepted' = accepted \cup {[grant |-> n, n |-> n]}
              \/ r.at # "oauth" /\ UNCHANGED <<issued, accepted, alive>>
    <2> DEFINE secret == Consented(n)
               oauth == [at |-> "oauth", state |-> browser[b].state, secret |-> secret]
               bearer == [at |-> "bearer", state |-> browser[b].state, secret |-> [NoSecret EXCEPT !.own = "token"]]
    <2>1. n \in Nat /\ browser[b].state \in State
      BY <1>1, McpAssumption DEF McpInv, TypeInv, Exchange
    <2>2. secret \in Secret /\ secret.own = "secret" /\ secret.refresh = [grant |-> n, n |-> n]
      BY <2>1, Constants DEF Consented, Secret, Token
    <2>3. [NoSecret EXCEPT !.own = "token"] \in Secret
      BY Constants DEF Secret
    <2>4. oauth \in Answer /\ bearer \in Answer /\ AtRest \in [at : {"idle"}] /\ AtRest.at = "idle"
      BY <2>1, <2>2, <2>3, Constants DEF Answer
    <2>5. bearer.secret.own = "token" /\ bearer.secret.refresh = NoToken
      BY Constants DEF Secret
    <2>6. \/ /\ browser' = [browser EXCEPT ![b] = oauth] /\ issued' = n /\ n <= MaxTokens /\ alive' = alive \cup {n}
             /\ accepted' = accepted \cup {secret.refresh}
          \/ browser' = [browser EXCEPT ![b] = bearer] /\ UNCHANGED <<issued, accepted, alive>>
          \/ browser' = [browser EXCEPT ![b] = AtRest] /\ UNCHANGED <<issued, accepted, alive>>
      BY <2>1, McpAssumption DEF ExchangeCode, Issue, McpInv, TypeInv
    <2>7. oauth.at = "oauth" /\ oauth.state = browser[b].state /\ oauth.secret = secret
          /\ bearer.at = "bearer" /\ bearer.state = browser[b].state
      OBVIOUS
    <2> HIDE DEF oauth, bearer, secret
    <2>8. QED
      BY <2>2, <2>4, <2>5, <2>6, <2>7
  <1>3. n \in Nat /\ n \notin 0..issued /\ issued \in Nat /\ n # 0
    BY McpAssumption DEF McpInv, TypeInv
  <1>4. TypeInv'
    <2>1. browser' \in [Browser -> [at : {"idle"}] \cup Exchange \cup Answer]
      BY <1>2 DEF McpInv, TypeInv
    <2>2. issued' \in 0..MaxTokens /\ alive' \subseteq 1..issued'
      <3>1. MaxTokens \in Nat /\ issued \in 0..MaxTokens /\ alive \subseteq 1..issued
        BY McpAssumption DEF McpInv, TypeInv
      <3>2. CASE issued' = issued + 1 /\ issued + 1 <= MaxTokens /\ alive' = alive \cup {issued + 1}
        BY <3>1, <3>2
      <3>3. CASE UNCHANGED <<issued, alive>>
        BY <3>1, <3>3
      <3>4. QED
        BY <1>2, <3>2, <3>3
    <2>3. accepted' \subseteq Token
      <3>1. [grant |-> n, n |-> n] \in Token /\ accepted \subseteq Token
        BY <1>3 DEF Token, McpInv, TypeInv
      <3>2. QED
        BY <1>2, <3>1
    <2>4. QED
      BY <1>1, <2>1, <2>2, <2>3 DEF McpInv, TypeInv
  <1>5. ConnectInv'
    <2>1. \A d \in Browser, m \in State : Carries(d, m)' => Carries(d, m)
      BY <1>1, <1>2, Constants DEF Carries, McpInv, TypeInv, Exchange
    <2>2. QED
      BY <1>1, <2>1 DEF McpInv, ConnectInv
  <1>6. /\ \A d \in Browser : d # b => browser'[d] = browser[d]
        /\ browser'[b] = r
    BY <1>2 DEF McpInv, TypeInv
  <1>7. \A c \in Client : /\ CallBy(c)' = CallBy(c) /\ Read(c)' = Read(c) /\ New(c)' = New(c)
                          /\ Minting(c)' = Minting(c) /\ Saving(c)' = Saving(c) /\ Rotated(c)' = Rotated(c)
                          /\ Owing(c)' = Owing(c)
    BY <1>1 DEF CallBy, Read, New, Minting, Saving, Rotated, Owing, Owed
  <1>8. Held' = Held /\ Old(Held) /\ accepted \subseteq accepted'
    BY <1>1, <1>2 DEF Held, McpInv, BoundInv
  <1>9. \A t : t \in Token /\ Old(t) => t.grant # n /\ t.n # n /\ Old(t)'
    BY <1>2, <1>3 DEF Token, Old
  <1>10. Held \in Token /\ \A c \in Client : Minting(c) => Read(c) \in Token /\ New(c) \in Token
    <2>1. ASSUME NEW c \in Client, Minting(c) PROVE Read(c) \in Token /\ New(c) \in Token
      BY <2>1, CallParts DEF McpInv, Minting, ActiveCall, Secret, Read, New
    <2>2. QED
      BY <2>1 DEF McpInv, TypeInv, Secret, Held
  <1>11. \A d \in Browser : InAnswer(d) => Brought(d) \in Token /\ Old(Brought(d))
    BY BrowserParts DEF McpInv, BoundInv, Answer, Secret, Brought
  <1>12. BoundInv'
    <2>1. \A t \in accepted' : Old(t)' /\ t.n # 0
      <3>1. \A t \in accepted : t \in Token /\ Old(t) /\ t.n # 0
        BY DEF McpInv, TypeInv, BoundInv
      <3>2. QED
        BY <1>2, <1>3, <1>9, <3>1 DEF Old
    <2>2. Old(Held)'
      BY <1>8, <1>9, <1>10 DEF Old
    <2>3. \A d \in Browser : InAnswer(d)' => Old(Brought(d))'
      <3>1. \A d \in Browser : d # b /\ InAnswer(d)' => Brought(d)' = Brought(d) /\ InAnswer(d)
        BY <1>6 DEF InAnswer, Brought
      <3>2. InAnswer(b)' => Brought(b)' = r.secret.refresh /\ r.at \in {"bearer", "oauth"}
        BY <1>6 DEF InAnswer, Brought
      <3>3. InAnswer(b)' => Old(Brought(b))'
        BY <1>2, <1>3, <3>2, Constants DEF Old
      <3>4. QED
        BY <1>9, <1>11, <3>1, <3>3 DEF Old
    <2>4. \A c \in Client : Minting(c)' => Old(Read(c))' /\ (Saving(c)' => Old(New(c))')
      BY <1>7, <1>9, <1>10 DEF McpInv, BoundInv, Old
    <2>5. QED
      BY <2>1, <2>2, <2>3, <2>4 DEF BoundInv
  <1>13. BrowserInv'
    <2>1. \A d \in Browser : d # b => /\ browser'[d] = browser[d] /\ Brought(d)' = Brought(d)
      BY <1>6 DEF Brought
    <2>2. browser'[b] = r /\ (r.at \in {"oauth", "bearer"} => Brought(b)' = r.secret.refresh)
      BY <1>6 DEF Brought
    <2>3. r.at = "oauth" => /\ Brought(b)'.grant = n /\ Brought(b)' \in accepted'
                            /\ \A d \in Browser : d # b /\ browser[d].at = "oauth" => Brought(d).grant # n
                            /\ Held.grant # n /\ \A c \in Client : Minting(c) => Read(c).grant # n /\ (Saving(c) => New(c).grant # n)
      <3>1. \A d \in Browser : browser[d].at = "oauth" => InAnswer(d)
        BY DEF InAnswer
      <3>2. \A c \in Client : Minting(c) => Old(Read(c)) /\ (Saving(c) => Old(New(c)))
        BY DEF McpInv, BoundInv
      <3>3. QED
        BY <1>2, <1>8, <1>9, <1>10, <1>11, <2>2, <3>1, <3>2
    <2>4. QED
      BY <1>2, <1>3, <1>7, <1>8, <2>1, <2>2, <2>3 DEF McpInv, BrowserInv
  <1>14. MintInv' /\ OwnInv' /\ RotateInv'
    BY <1>1, <1>7, <1>8 DEF McpInv, MintInv, OwnInv, RotateInv
  <1>15. HoldInv'
    BY <1>1, <1>7, <1>8 DEF McpInv, HoldInv
  <1>16. NewInv'
    <2>1. \A c \in Client, d \in Browser : Rotated(c) /\ InAnswer(d)' => Brought(d)' # New(c)
      <3>1. ASSUME NEW c \in Client, Rotated(c), InAnswer(b)' PROVE Brought(b)' # New(c)
        <4>1. Minting(c) /\ New(c).n # 0 /\ New(c).n # n
          BY <1>9, <1>10, <3>1 DEF McpInv, NewInv, Rotated, Saving, Minting, BoundInv
        <4>2. Brought(b)'.n \in {0, n}
          BY <1>2, <1>6, <3>1, Constants DEF InAnswer, Brought
        <4>3. QED
          BY <4>1, <4>2
      <3>2. \A d \in Browser : d # b /\ InAnswer(d)' => Brought(d)' = Brought(d) /\ InAnswer(d)
        BY <1>6 DEF InAnswer, Brought
      <3>3. QED
        BY <3>1, <3>2 DEF McpInv, NewInv
    <2>2. QED
      BY <1>7, <1>8, <2>1 DEF McpInv, NewInv
  <1>17. QED
    BY <1>4, <1>5, <1>12, <1>13, <1>14, <1>15, <1>16 DEF McpInv

-----------------------------------------------------------------------------
\* A registration, by hand or with what a callback has brought.
LEMMA UpsertParts ==
    ASSUME TypeInv, NEW form \in Kind, NEW secret \in Secret, Upsert(form, secret)
    PROVE  /\ server' \in [id : Nat, kind : Kind, secret : Secret, tested : BOOLEAN]
           /\ server'.kind = form /\ server'.secret = secret /\ Held' = secret.refresh
           /\ rows' \in Nat /\ mishaps' = {}
  BY DEF TypeInv, Upsert, Held

\* A server is registered by hand, or deleted.
LEMMA HandStep ==
    ASSUME McpInv, RegisterByHand \/ DeleteServer
    PROVE  McpInv'
  <1>1. /\ server' \in [id : Nat, kind : Kind, secret : Secret, tested : BOOLEAN]
        /\ Held' = NoToken /\ rows' \in Nat /\ mishaps' = {}
        /\ \/ server'.kind = "bearer" /\ server'.secret.own = "token"
           \/ server'.kind = "principal" /\ server'.secret.own = "secret"
           \/ server'.kind = "none"
    <2>1. CASE RegisterByHand
      <3> DEFINE token == [NoSecret EXCEPT !.own = "token"]
                 secret == [NoSecret EXCEPT !.own = "secret"]
      <3>1. /\ token \in Secret /\ token.own = "token" /\ token.refresh = NoToken
            /\ secret \in Secret /\ secret.own = "secret" /\ secret.refresh = NoToken
            /\ "bearer" \in Kind /\ "principal" \in Kind
        BY Constants DEF Secret, Kind
      <3>2. Upsert("bearer", token) \/ Upsert("principal", secret)
        BY <2>1 DEF RegisterByHand
      <3> HIDE DEF token, secret
      <3>3. QED
        BY <3>1, <3>2, UpsertParts DEF McpInv
    <2>2. CASE DeleteServer
      BY <2>2, Constants DEF DeleteServer, Held, McpInv, TypeInv
    <2>3. QED
      BY <2>1, <2>2
  <1>2. UNCHANGED <<app, nonce, browser, connects, caller, rotates, issued, accepted, alive>> /\ changes' \in 0..MaxChanges
    BY ChangeKept DEF RegisterByHand, DeleteServer, flowVars, providerVars, McpInv
  <1>3. TypeInv' /\ ConnectInv'
    BY <1>1, <1>2 DEF McpInv, TypeInv, ConnectInv, Carries
  <1>4. \A c \in Client : /\ CallBy(c)' = CallBy(c) /\ Read(c)' = Read(c) /\ New(c)' = New(c)
                          /\ Minting(c)' = Minting(c) /\ Saving(c)' = Saving(c) /\ Rotated(c)' = Rotated(c)
    BY <1>2 DEF CallBy, Read, New, Minting, Saving, Rotated
  <1>5. \A b \in Browser : InAnswer(b)' = InAnswer(b) /\ Brought(b)' = Brought(b)
    BY <1>2 DEF InAnswer, Brought
  <1>6. BoundInv'
    BY <1>1, <1>2, <1>4, <1>5, Constants DEF McpInv, TypeInv, BoundInv, Old
  <1>7. BrowserInv'
    BY <1>1, <1>2, <1>4, <1>5, Constants DEF McpInv, BrowserInv
  <1>8. MintInv'
    BY <1>1, <1>2, <1>4 DEF McpInv, MintInv
  <1>9. NewInv'
    BY <1>1, <1>4, <1>5, Constants DEF McpInv, NewInv
  <1>10. OwnInv' /\ RotateInv'
    BY <1>1 DEF OwnInv, RotateInv
  <1>11. HoldInv'
    <2>1. \A c \in Client : ~Owing(c)'
      <3>1. ASSUME NEW c \in Client, Owing(c)' PROVE FALSE
        <4>1. Saving(c) /\ Minting(c) /\ CallBy(c).kind = "oauth" /\ Read(c) = NoToken
          BY <1>1, <1>4, <3>1 DEF Owing, Owed, Held, Read, Saving, Minting
        <4>2. QED
          BY <4>1 DEF McpInv, MintInv
      <3>2. QED
        BY <3>1
    <2>2. QED
      BY <1>1, <2>1 DEF HoldInv
  <1>12. QED
    BY <1>3, <1>6, <1>7, <1>8, <1>9, <1>10, <1>11 DEF McpInv

\* A consent registers the server.
LEMMA RegisterStep ==
    ASSUME McpInv, NEW b \in Browser, RegisterServer(b)
    PROVE  McpInv'
  <1>1. /\ browser[b] \in Answer /\ InAnswer(b) /\ browser[b].at \in Kind
        /\ browser' = [browser EXCEPT ![b] = AtRest] /\ connects' = [connects EXCEPT ![browser[b].state] = @ + 1]
        /\ UNCHANGED <<app, nonce, caller, rotates, issued, accepted, alive, changes>>
    BY BrowserParts DEF RegisterServer, InAnswer, Kind, providerVars, McpInv
  <1>2. /\ server' \in [id : Nat, kind : Kind, secret : Secret, tested : BOOLEAN]
        /\ server'.kind = browser[b].at /\ server'.secret = browser[b].secret /\ Held' = Brought(b)
        /\ rows' \in Nat /\ mishaps' = {}
    BY <1>1, UpsertParts DEF RegisterServer, Answer, McpInv, Brought
  <1>3. /\ browser'[b].at = "idle" /\ \A d \in Browser : d # b => browser'[d] = browser[d]
        /\ browser' \in [Browser -> [at : {"idle"}] \cup Exchange \cup Answer]
    BY <1>1, Constants DEF McpInv, TypeInv
  <1>4. TypeInv'
    BY <1>1, <1>2, <1>3 DEF McpInv, TypeInv, Answer
  <1>5. ConnectInv'
    <2>1. PICK n \in State : n = browser[b].state /\ Carries(b, n)
      BY <1>1 DEF Answer, InAnswer, Carries
    <2>2. /\ connects'[n] = connects[n] + 1 /\ connects[n] = 0 /\ nonce[n] = "gone"
          /\ \A m \in State : m # n => connects'[m] = connects[m]
      BY <1>1, <2>1 DEF McpInv, TypeInv, ConnectInv
    <2>3. \A d \in Browser, m \in State : Carries(d, m)' <=> d # b /\ Carries(d, m)
      BY <1>3 DEF Carries
    <2>4. \A d \in Browser : ~Carries(d, n)'
      <3>1. \A d \in Browser : Carries(b, n) /\ Carries(d, n) => b = d
        BY <2>1 DEF McpInv, ConnectInv
      <3>2. QED
        BY <2>1, <2>3, <3>1
    <2>5. QED
      BY <1>1, <2>1, <2>2, <2>3, <2>4 DEF McpInv, ConnectInv
  <1>6. \A c \in Client : /\ CallBy(c)' = CallBy(c) /\ Read(c)' = Read(c) /\ New(c)' = New(c)
                          /\ Minting(c)' = Minting(c) /\ Saving(c)' = Saving(c) /\ Rotated(c)' = Rotated(c)
    BY <1>1 DEF CallBy, Read, New, Minting, Saving, Rotated
  <1>7. \A d \in Browser : InAnswer(d)' => d # b /\ InAnswer(d) /\ Brought(d)' = Brought(d) /\ browser'[d] = browser[d]
    BY <1>3 DEF InAnswer, Brought
  <1>8. BoundInv'
    BY <1>1, <1>2, <1>6, <1>7 DEF McpInv, BoundInv, Old
  <1>9. browser[b].at = "bearer" \/ browser[b].at = "oauth"
    BY <1>1 DEF InAnswer
  <1>10. BrowserInv'
    <2>1. ASSUME NEW d \in Browser, d # b, browser[d].at = "oauth" PROVE Brought(b).grant # Brought(d).grant
      <3>1. CASE browser[b].at = "bearer"
        BY <2>1, <3>1, Constants DEF McpInv, BrowserInv
      <3>2. CASE browser[b].at = "oauth"
        BY <2>1, <3>2 DEF McpInv, BrowserInv
      <3>3. QED
        BY <1>9, <3>1, <3>2
    <2>2. \A d \in Browser : browser'[d].at \in {"oauth", "bearer"} => d # b /\ browser'[d] = browser[d] /\ Brought(d)' = Brought(d)
      BY <1>7 DEF InAnswer
    <2>3. QED
      BY <1>1, <1>2, <1>6, <2>1, <2>2 DEF McpInv, BrowserInv
  <1>11. \A c \in Client : Minting(c) => Brought(b) = NoToken \/ Read(c) # Brought(b)
    BY <1>9 DEF McpInv, BrowserInv
  <1>12. MintInv'
    BY <1>1, <1>2, <1>6, <1>11 DEF McpInv, MintInv
  <1>13. NewInv'
    BY <1>1, <1>2, <1>6, <1>7 DEF McpInv, NewInv
  <1>14. OwnInv' /\ RotateInv'
    BY <1>2, <1>9 DEF McpInv, BrowserInv, OwnInv, RotateInv
  <1>15. HoldInv'
    <2>1. \A c \in Client : ~Owing(c)'
      <3>1. ASSUME NEW c \in Client, Owing(c)' PROVE FALSE
        <4>1. Saving(c) /\ Minting(c) /\ CallBy(c).kind = "oauth" /\ Read(c) = Brought(b)
          BY <1>2, <1>6, <3>1 DEF Owing, Owed, Held, Read, Saving, Minting
        <4>2. QED
          BY <1>11, <4>1 DEF McpInv, MintInv
      <3>2. QED
        BY <3>1
    <2>2. ASSUME server'.kind = "oauth" PROVE Held' # NoToken /\ Held' \in accepted
      <3>1. browser[b].at = "oauth"
        BY <1>2, <2>2 DEF InAnswer
      <3>2. Brought(b) \in accepted /\ Brought(b).grant # 0
        BY <3>1 DEF McpInv, BrowserInv
      <3>3. QED
        BY <1>2, <3>2, Constants
    <2>3. QED
      BY <1>1, <2>1, <2>2 DEF HoldInv
  <1>16. QED
    BY <1>4, <1>5, <1>8, <1>10, <1>12, <1>13, <1>14, <1>15 DEF McpInv

-----------------------------------------------------------------------------
\* A call that is to renew has the row's secret.
LEMMA ReadStep ==
    ASSUME McpInv, NEW c \in Client, ReadSecret(c)
    PROVE  McpInv'
  <1> DEFINE call == caller[c].call
             secret == IF server.id = call.id THEN server.secret ELSE NoSecret
  <1>1. /\ CallBy(c) = call /\ call.at = "secret" /\ call \in ActiveCall
        /\ UNCHANGED <<app, nonce, browser, connects, rotates, issued, accepted, alive, changes, rows, mishaps>>
    BY CallParts DEF ReadSecret, CallBy, NotByClients, flowVars, providerVars, McpInv
  <1>2. secret \in Secret /\ (server.id # call.id => secret.refresh = NoToken /\ secret.own = "none")
    BY Constants DEF McpInv, TypeInv
  <1>3. \A d \in Client : Owing(d) => d # c
    BY <1>1 DEF Owing, Saving
  <1>4. CASE Cached(c, call, secret.access) /\ UNCHANGED server
    <2> DEFINE sent == [call EXCEPT !.at = "send"]
               cache == [id |-> call.id, header |-> secret.access]
               r == [call |-> sent, cache |-> cache]
    <2>1. r \in Calling /\ r.call.at = "send"
      BY <1>1, <1>2 DEF Calling, ActiveCall, Secret
    <2>2. caller' = [caller EXCEPT ![c] = r]
      BY <1>4 DEF Cached
    <2> HIDE DEF r
    <2>3. caller' \in [Client -> Calling] /\ CallBy(c)'.at = "send" /\ \A d \in Client : d # c => CallBy(d)' = CallBy(d)
      BY <2>1, <2>2, CallPut DEF McpInv
    <2>4. TypeInv'
      BY <1>1, <1>4, <2>3 DEF McpInv, TypeInv
    <2>5. QED
      BY <1>1, <1>3, <1>4, <2>3, <2>4, Quiet DEF Minting
  <1>5. CASE CallEnds(c)
    <2>1. TypeInv'
      BY <1>1, <1>5, CallEnd DEF McpInv, TypeInv
    <2>2. QED
      BY <1>1, <1>3, <1>5, <2>1, CallEnd, Quiet DEF McpInv, Minting
  <1>6. CASE CanMint(call.kind, secret) /\ At(c, [call EXCEPT !.at = "fetch", !.read = secret])
    <2> DEFINE next == [call EXCEPT !.at = "fetch", !.read = secret]
    <2>1. /\ next \in ActiveCall /\ next.at = "fetch" /\ next.read = secret
          /\ next.id = call.id /\ next.kind = call.kind /\ next.new = call.new
      BY <1>1, <1>2 DEF ActiveCall
    <2>2. caller' = [caller EXCEPT ![c].call = next] /\ UNCHANGED server
      BY <1>6 DEF At
    <2>3. /\ server.id = call.id /\ secret = server.secret
          /\ call.kind = "oauth" => secret.refresh # NoToken
          /\ call.kind \in {"oauth", "principal"}
      BY <1>2, <1>6 DEF CanMint
    <2> HIDE DEF next, call, secret
    <2>4. caller' \in [Client -> Calling] /\ CallBy(c)' = next /\ \A d \in Client : d # c => CallBy(d)' = CallBy(d)
      BY <2>1, <2>2, CallAt DEF McpInv
    <2>5. TypeInv' /\ ConnectInv'
      BY <1>1, <2>2, <2>4 DEF McpInv, TypeInv, ConnectInv, Carries
    <2>6. /\ Minting(c)' /\ ~Saving(c)' /\ Read(c)' = Held /\ Held' = Held /\ CallBy(c)'.kind \in {"oauth", "principal"}
          /\ CallBy(c)'.id = server.id /\ (CallBy(c)'.kind = "oauth" => Held # NoToken) /\ ~Minting(c)
      BY <1>1, <2>1, <2>2, <2>3, <2>4 DEF Minting, Saving, Read, Held, CallBy
    <2>7. \A d \in Client : d # c => /\ Minting(d)' = Minting(d) /\ Saving(d)' = Saving(d) /\ Rotated(d)' = Rotated(d)
                                    /\ Read(d)' = Read(d) /\ New(d)' = New(d) /\ Owing(d)' = Owing(d)
      BY <1>1, <2>2, <2>4 DEF Minting, Saving, Rotated, Read, New, Owing, Owed
    <2>8. \A b \in Browser : InAnswer(b)' = InAnswer(b) /\ Brought(b)' = Brought(b)
      BY <1>1 DEF InAnswer, Brought
    <2>9. ~Rotated(c)' /\ ~Owing(c)' /\ ~Owing(c)
      BY <2>6 DEF Rotated, Owing, Saving, Minting
    <2>10. BoundInv'
      BY <1>1, <2>6, <2>7, <2>8 DEF McpInv, BoundInv, Old
    <2>11. BrowserInv'
      BY <1>1, <2>6, <2>7, <2>8 DEF McpInv, BrowserInv
    <2>12. MintInv'
      <3>1. \A d \in Client : d # c /\ Minting(d)' /\ Read(d)' = Read(c)' /\ Read(c)' # NoToken => CallBy(d)'.id = CallBy(c)'.id
        BY <2>4, <2>6, <2>7 DEF McpInv, MintInv
      <3>2. QED
        BY <1>1, <2>2, <2>4, <2>6, <2>7, <3>1 DEF McpInv, MintInv
    <2>13. NewInv'
      BY <2>6, <2>7, <2>8, <2>9 DEF McpInv, NewInv
    <2>14. OwnInv' /\ RotateInv'
      BY <1>1, <2>2 DEF McpInv, OwnInv, RotateInv
    <2>15. HoldInv'
      BY <1>1, <2>2, <2>6, <2>7, <2>9 DEF McpInv, HoldInv
    <2>16. QED
      BY <2>5, <2>10, <2>11, <2>12, <2>13, <2>14, <2>15 DEF McpInv
  <1>7. QED
    BY <1>4, <1>5, <1>6 DEF ReadSecret

-----------------------------------------------------------------------------
\* What a call that has been given a token, or has ended, leaves of the others.
Others(c) ==
    \A d \in Client : d # c => /\ CallBy(d)' = CallBy(d) /\ Minting(d)' = Minting(d) /\ Saving(d)' = Saving(d)
                              /\ Rotated(d)' = Rotated(d) /\ Read(d)' = Read(d) /\ New(d)' = New(d)

\* The rotated token is new, and replaces the one it was asked for with.
LEMMA RefreshStep ==
    ASSUME McpInv, NEW c \in Client, Refresh(c)
    PROVE  McpInv'
  <1> DEFINE call == caller[c].call
             n == issued + 1
             rotated == IF rotates /\ call.kind = "oauth" THEN [grant |-> call.read.refresh.grant, n |-> n] ELSE NoToken
             new == Renewed(call.kind, call.read, n, rotated)
  <1>1. /\ CallBy(c) = call /\ call.at = "fetch" /\ call \in ActiveCall /\ Minting(c) /\ ~Saving(c) /\ call.read.refresh = Read(c)
        /\ call.kind \in {"oauth", "principal"} /\ (call.kind = "oauth" => Read(c) # NoToken /\ Read(c) \in accepted)
        /\ UNCHANGED <<app, nonce, browser, connects, rotates, changes, rows>>
    BY CallParts DEF Refresh, CallBy, Minting, Saving, Read, NotByClients, flowVars, McpInv, MintInv
  <1>2. /\ issued' = n /\ alive' = alive \cup {n} /\ n <= MaxTokens /\ n \in Nat /\ issued \in Nat /\ n # 0
        /\ accepted' = IF rotated # NoToken THEN (accepted \ {Read(c)}) \cup {rotated} ELSE accepted
    BY <1>1, McpAssumption DEF Refresh, Issue, McpInv, TypeInv
  <1>3. Read(c) \in Token /\ Old(Read(c)) /\ call.read \in Secret
    BY <1>1 DEF ActiveCall, Secret, McpInv, BoundInv
  <1>4. /\ rotates /\ call.kind = "oauth" => /\ rotated \in Token /\ rotated.n = n /\ rotated.grant = Read(c).grant
                                             /\ rotated # NoToken
        /\ ~rotates \/ call.kind # "oauth" => rotated = NoToken
        /\ rotated \in Token
    BY <1>1, <1>2, <1>3, Constants DEF Token
  <1>5. /\ new \in Secret /\ new.own = call.read.own
        /\ rotates /\ call.kind = "oauth" => new.refresh = rotated
        /\ call.kind = "principal" => new.refresh = NoToken
        /\ call.kind = "oauth" /\ ~rotates => new.refresh = Read(c)
    <2> DEFINE refresh == IF call.kind = "principal" THEN NoToken ELSE IF rotated # NoToken THEN rotated ELSE call.read.refresh
    <2>1. refresh \in Token /\ n \in Nat
      BY <1>1, <1>2, <1>3, <1>4, Constants
    <2>2. new = [call.read EXCEPT !.access = n, !.refresh = refresh]
      BY <1>3 DEF Renewed, Secret
    <2> HIDE DEF new
    <2>3. new \in Secret /\ new.own = call.read.own /\ new.refresh = refresh
      BY <1>3, <2>1, <2>2 DEF Secret
    <2>4. QED
      BY <1>1, <1>4, <2>3
  <1>6. /\ caller' \in [Client -> Calling]
        /\ server' \in [id : Nat, kind : Kind, secret : Secret, tested : BOOLEAN]
        /\ server'.id = server.id /\ server'.kind = server.kind /\ server'.secret = server.secret
        /\ \A d \in Client : d # c => CallBy(d)' = CallBy(d)
        /\ \/ CallBy(c)' = [call EXCEPT !.at = "save", !.new = new] /\ mishaps' = mishaps
           \/ CallBy(c)'.at = "idle" /\ mishaps' = IF Owed(call) THEN mishaps \cup {"lost"} ELSE mishaps
    <2> DEFINE next == [call EXCEPT !.at = "save", !.new = new]
    <2>1. next \in ActiveCall
      BY <1>1, <1>5 DEF ActiveCall
    <2>2. \/ At(c, next) /\ mishaps' = mishaps
          \/ CallEnds(c) /\ mishaps' = IF Owed(call) THEN mishaps \cup {"lost"} ELSE mishaps
      BY DEF Refresh
    <2> HIDE DEF next
    <2>3. CASE At(c, next) /\ mishaps' = mishaps
      BY <2>1, <2>3, CallAt DEF At, McpInv, TypeInv, next
    <2>4. CASE CallEnds(c) /\ mishaps' = IF Owed(call) THEN mishaps \cup {"lost"} ELSE mishaps
      BY <1>1, <2>4, CallEnd DEF McpInv
    <2>5. QED
      BY <2>2, <2>3, <2>4 DEF next
  <1> HIDE DEF new
  <1>7. \/ /\ Minting(c)' /\ Saving(c)' /\ CallBy(c)'.id = call.id /\ CallBy(c)'.kind = call.kind /\ CallBy(c)'.read = call.read
           /\ CallBy(c)'.new = new /\ Read(c)' = Read(c) /\ New(c)' = new.refresh /\ mishaps' = mishaps
        \/ ~Minting(c)' /\ ~Saving(c)' /\ mishaps' = IF Owed(call) THEN mishaps \cup {"lost"} ELSE mishaps
    BY <1>1, <1>6 DEF ActiveCall, Minting, Saving, Read, New, CallBy
  <1>8. Others(c)
    BY <1>1, <1>6 DEF Others, Minting, Saving, Rotated, Read, New
  <1>9. /\ Held' = Held /\ UNCHANGED browser /\ (Rotated(c)' <=> Saving(c)' /\ call.kind = "oauth" /\ rotates)
        /\ \A b \in Browser : InAnswer(b)' = InAnswer(b) /\ Brought(b)' = Brought(b)
    BY <1>1, <1>6, <1>7 DEF Held, InAnswer, Brought, Rotated
  <1>10. TypeInv'
    <2>1. MaxTokens \in Nat /\ alive \subseteq 1..issued /\ accepted \subseteq Token
      BY McpAssumption DEF McpInv, TypeInv
    <2>2. issued' \in 0..MaxTokens /\ alive' \subseteq 1..issued'
      BY <1>2, <2>1
    <2>3. accepted' \subseteq Token
      BY <1>2, <1>4, <2>1
    <2>4. mishaps' \subseteq {"lost", "reuse", "crossed"}
      BY <1>6 DEF McpInv, TypeInv
    <2>5. QED
      BY <1>1, <1>6, <2>2, <2>3, <2>4 DEF McpInv, TypeInv
  <1>11. ConnectInv'
    BY <1>1 DEF McpInv, ConnectInv, Carries
  <1>12. \A t : t \in Token /\ Old(t) => Old(t)' /\ t.n # n
    BY <1>2 DEF Old, Token
  <1>13. rotated # NoToken => rotated.n = n /\ rotated.n <= issued' /\ rotated.grant <= issued'
    <2>1. Read(c).grant \in Nat /\ Read(c).grant <= issued
      BY <1>3 DEF Token, Old
    <2>2. QED
      BY <1>2, <1>4, <2>1 DEF Old
  <1>14. Held \in Token /\ Old(Held) /\ \A d \in Client : Minting(d) => /\ Read(d) \in Token /\ Old(Read(d))
                                                                       /\ New(d) \in Token /\ (Saving(d) => Old(New(d)))
    <2>1. ASSUME NEW d \in Client, Minting(d) PROVE Read(d) \in Token /\ New(d) \in Token
      BY <2>1, CallParts DEF McpInv, Minting, ActiveCall, Secret, Read, New
    <2>2. QED
      BY <2>1 DEF McpInv, TypeInv, Secret, Held, BoundInv
  <1>15. \A b \in Browser : InAnswer(b) => Brought(b) \in Token /\ Old(Brought(b))
    BY BrowserParts DEF McpInv, BoundInv, Answer, Secret, Brought
  <1>16. \A t \in accepted : t \in Token /\ Old(t) /\ t.n # 0
    BY DEF McpInv, TypeInv, BoundInv
  <1> HIDE DEF call, n, rotated
  <1>17. BoundInv'
    <2>1. \A t \in accepted' : Old(t)' /\ t.n # 0
      BY <1>2, <1>4, <1>12, <1>13, <1>16 DEF Old
    <2>2. Saving(c)' => New(c)'.grant <= issued' /\ New(c)'.n <= issued'
      <3>1. Read(c).grant <= issued' /\ Read(c).n <= issued' /\ NoToken.grant <= issued' /\ NoToken.n <= issued'
        BY <1>2, <1>3, <1>12, Constants DEF Old
      <3>2. QED
        BY <1>1, <1>4, <1>5, <1>7, <1>13, <3>1
    <2>3. QED
      BY <1>7, <1>8, <1>9, <1>12, <1>14, <1>15, <1>3, <2>1, <2>2 DEF BoundInv, Others, Old
  <1>18. BrowserInv'
    <2>1. ASSUME NEW b \in Browser, browser[b].at = "oauth"
          PROVE  /\ Brought(b) \in accepted' /\ Read(c).grant # Brought(b).grant
                 /\ Saving(c)' => New(c)'.grant # Brought(b).grant
      <3>1. Brought(b) \in accepted /\ Read(c).grant # Brought(b).grant /\ Brought(b).grant # 0
        BY <1>1, <2>1 DEF McpInv, BrowserInv
      <3>2. QED
        BY <1>1, <1>2, <1>4, <1>5, <1>7, <3>1, Constants
    <2>2. QED
      BY <1>7, <1>8, <1>9, <2>1 DEF McpInv, BrowserInv, Others
  <1>19. MintInv'
    <2>1. \A d \in Client : Minting(d)' => Minting(d) /\ CallBy(d)'.kind = CallBy(d).kind /\ CallBy(d)'.id = CallBy(d).id /\ Read(d)' = Read(d)
      BY <1>1, <1>7, <1>8 DEF Others
    <2>2. Saving(c)' => /\ CallBy(c)'.new.own = CallBy(c)'.read.own
                        /\ CallBy(c)'.kind = "principal" => New(c)' = NoToken
                        /\ CallBy(c)'.kind = "oauth" /\ ~rotates' => New(c)' = Read(c)'
      BY <1>1, <1>5, <1>7
    <2>3. QED
      BY <1>1, <1>6, <1>8, <1>9, <2>1, <2>2 DEF McpInv, MintInv, Others
  <1>20. NewInv'
    <2>1. ASSUME NEW d \in Client, Rotated(d)', d # c
          PROVE  /\ Minting(c)' => Read(c)' # New(d)
                 /\ Rotated(c)' => New(c)' # New(d)
      BY <1>1, <1>2, <1>4, <1>5, <1>7, <1>8, <1>9, <1>12, <1>14, <2>1 DEF McpInv, NewInv, Others, Rotated, Saving, Minting
    <2>2. ASSUME Rotated(c)'
          PROVE  /\ New(c)'.n = n /\ New(c)'.grant = Read(c)'.grant /\ Held # New(c)' /\ Read(c)' # New(c)'
                 /\ \A b \in Browser : InAnswer(b) => Brought(b) # New(c)'
                 /\ \A d \in Client : d # c /\ Minting(d) => Read(d) # New(c)'
      BY <1>1, <1>3, <1>4, <1>5, <1>7, <1>9, <1>12, <1>14, <1>15, <2>2
    <2>3. QED
      BY <1>2, <1>8, <1>9, <2>1, <2>2 DEF McpInv, NewInv, Others
  <1>21. OwnInv' /\ RotateInv'
    BY <1>1, <1>6 DEF McpInv, OwnInv, RotateInv, Owed
  <1>22. HoldInv'
    <2> SUFFICES ASSUME mishaps' = {} PROVE HoldInv'
      BY DEF HoldInv
    <2>1. mishaps = {}
      BY <1>6
    <2>2. \A d \in Client : d # c => Owing(d)' = Owing(d)
      BY <1>1, <1>6, <1>8 DEF Owing, Owed, Others
    <2>3. \A d \in Client : Owing(d)' => New(d)' \in accepted'
      <3>1. ASSUME NEW d \in Client, d # c, Owing(d) PROVE New(d) \in accepted'
        <4>1. New(d) \in accepted /\ Rotated(d)
          BY <2>1, <3>1 DEF McpInv, HoldInv, Owing, Owed, Rotated
        <4>2. New(d) # Read(c)
          BY <1>1, <4>1 DEF McpInv, NewInv
        <4>3. QED
          BY <1>2, <4>1, <4>2
      <3>2. Owing(c)' => New(c)' \in accepted'
        <4>1. Owing(c)' => Saving(c)' /\ rotates /\ call.kind = "oauth"
          BY <1>1, <1>7 DEF Owing, Owed
        <4>2. QED
          BY <1>1, <1>2, <1>4, <1>5, <1>7, <4>1
      <3>3. QED
        BY <2>2, <3>1, <3>2, <1>8 DEF Others
    <2>4. ASSUME server.kind = "oauth"
          PROVE  Held # NoToken /\ (Held \in accepted' \/ \E d \in Client : Owing(d)')
      <3>1. Held # NoToken /\ (Held \in accepted \/ \E d \in Client : Owing(d))
        BY <2>1, <2>4 DEF McpInv, HoldInv
      <3>2. CASE \E d \in Client : Owing(d)
        BY <1>1, <2>2, <3>1, <3>2 DEF Owing
      <3>3. CASE Held \in accepted /\ Held # Read(c)
        BY <1>2, <3>1, <3>3
      <3>4. CASE Held \in accepted /\ Held = Read(c)
        <4>1. call.id = server.id
          BY <1>1, <3>1, <3>4 DEF McpInv, MintInv
        <4>2. CASE rotates /\ call.kind = "oauth"
          <5>1. Owed(call)
            BY <1>1, <3>4, <4>1, <4>2 DEF Owed, Held
          <5>2. Saving(c)' /\ CallBy(c)'.id = call.id /\ CallBy(c)'.kind = call.kind /\ CallBy(c)'.read = call.read
            BY <1>7, <5>1
          <5>3. Owing(c)'
            BY <1>1, <1>6, <5>1, <5>2 DEF Owing, Owed
          <5>4. QED
            BY <3>1, <5>3
        <4>3. CASE ~(rotates /\ call.kind = "oauth")
          BY <1>2, <1>4, <3>1, <3>4, <4>3
        <4>4. QED
          BY <4>2, <4>3
      <3>5. QED
        BY <3>1, <3>2, <3>3, <3>4
    <2>5. QED
      BY <1>6, <1>9, <2>3, <2>4 DEF HoldInv
  <1>23. QED
    BY <1>10, <1>11, <1>17, <1>18, <1>19, <1>20, <1>21, <1>22 DEF McpInv

\* A refused token may end its consent: of what is accepted or on its way to the
\* row, only this consent's goes.
LEMMA FailStep ==
    ASSUME McpInv, NEW c \in Client, RefreshFails(c)
    PROVE  McpInv'
  <1> DEFINE grant == Read(c).grant
  <1>1. /\ CallBy(c).at = "fetch" /\ Minting(c) /\ ~Saving(c) /\ CallEnds(c)
        /\ UNCHANGED <<app, nonce, browser, connects, rotates, issued, alive, changes, rows>>
    BY DEF RefreshFails, CallBy, Minting, Saving, NotByClients, flowVars
  <1>2. /\ caller' \in [Client -> Calling]
        /\ server' \in [id : Nat, kind : Kind, secret : Secret, tested : BOOLEAN]
        /\ server'.id = server.id /\ server'.kind = server.kind /\ server'.secret = server.secret
        /\ CallBy(c)'.at = "idle" /\ \A d \in Client : d # c => CallBy(d)' = CallBy(d)
    BY <1>1, CallEnd DEF McpInv
  <1>3. CASE UNCHANGED <<accepted, mishaps>>
    <2>1. TypeInv'
      BY <1>1, <1>2, <1>3 DEF McpInv, TypeInv
    <2>2. QED
      BY <1>1, <1>2, <1>3, <2>1, Quiet DEF Minting, Saving, Owing
  <1>4. CASE /\ rotates /\ accepted' = {t \in accepted : t.grant # grant}
             /\ mishaps' = IF Held.grant = grant THEN mishaps \cup {"reuse"} ELSE mishaps
    <2>1. TypeInv' /\ ConnectInv'
      BY <1>1, <1>2, <1>4 DEF McpInv, TypeInv, ConnectInv, Carries
    <2>2. Others(c) /\ ~Minting(c)' /\ ~Saving(c)'
      BY <1>1, <1>2 DEF Others, Minting, Saving, Rotated, Read, New
    <2>3. Held' = Held /\ ~Rotated(c)' /\ \A b \in Browser : InAnswer(b)' = InAnswer(b) /\ Brought(b)' = Brought(b)
      BY <1>1, <1>2, <2>2 DEF Held, InAnswer, Brought, Rotated
    <2>4. BoundInv'
      BY <1>1, <1>4, <2>2, <2>3 DEF McpInv, BoundInv, Others, Old
    <2>5. BrowserInv'
      <3>1. \A b \in Browser : browser[b].at = "oauth" => Brought(b) \in accepted'
        BY <1>1, <1>4 DEF McpInv, BrowserInv
      <3>2. QED
        BY <1>1, <2>2, <2>3, <3>1 DEF McpInv, BrowserInv, Others
    <2>6. MintInv'
      <3>1. \A d \in Client : Minting(d)' => d # c
        BY <2>2
      <3>2. QED
        BY <1>1, <1>2, <2>2, <2>3, <3>1 DEF McpInv, MintInv, Others
    <2>7. NewInv'
      BY <2>2, <2>3 DEF McpInv, NewInv, Others
    <2>8. OwnInv' /\ RotateInv'
      BY <1>1, <1>2, <1>4 DEF McpInv, OwnInv, RotateInv
    <2>9. HoldInv'
      <3> SUFFICES ASSUME mishaps' = {} PROVE HoldInv'
        BY DEF HoldInv
      <3>1. mishaps = {} /\ Held.grant # grant
        BY <1>4
      <3>2. \A d \in Client : Owing(d)' <=> Owing(d)
        BY <1>1, <1>2, <2>2 DEF Owing, Owed, Others
      <3>3. ASSUME NEW d \in Client, Owing(d) PROVE New(d) \in accepted'
        <4>1. New(d) \in accepted /\ Rotated(d) /\ Read(d) = Held
          BY <3>1, <3>3 DEF McpInv, HoldInv, Owing, Owed, Rotated, Read, Held
        <4>2. New(d).grant = Held.grant
          BY <4>1 DEF McpInv, NewInv
        <4>3. QED
          BY <1>4, <3>1, <4>1, <4>2
      <3>4. Held \in accepted => Held \in accepted'
        BY <1>4, <3>1
      <3>5. \A d \in Client : Owing(d) => New(d)' = New(d)
        BY <2>2, <1>1 DEF Owing, Others
      <3>6. QED
        BY <1>2, <2>3, <3>1, <3>2, <3>3, <3>4, <3>5 DEF McpInv, HoldInv
    <2>10. QED
      BY <2>1, <2>4, <2>5, <2>6, <2>7, <2>8, <2>9 DEF McpInv
  <1>5. QED
    BY <1>3, <1>4 DEF RefreshFails, Read, Held, CallBy

\* The answer replaces the secret that it was asked for with, or the renewal has
\* crossed a registration.
LEMMA SaveStep ==
    ASSUME McpInv, NEW c \in Client, SaveSecret(c)
    PROVE  McpInv'
  <1> DEFINE call == caller[c].call
  <1>1. /\ CallBy(c) = call /\ call \in ActiveCall /\ Minting(c) /\ Saving(c) /\ call.at = "save"
        /\ call.new.refresh = New(c) /\ call.read.refresh = Read(c)
        /\ UNCHANGED <<app, nonce, browser, connects, rotates, issued, accepted, alive, changes, rows>>
    BY CallParts DEF SaveSecret, CallBy, Minting, Saving, New, Read, NotByClients, flowVars, providerVars, McpInv
  <1>2. caller' \in [Client -> Calling] /\ CallBy(c)'.at = "send" /\ \A d \in Client : d # c => CallBy(d)' = CallBy(d)
    <2> DEFINE r == [call |-> [call EXCEPT !.at = "send"], cache |-> [id |-> call.id, header |-> call.new.access]]
    <2>1. r \in Calling /\ r.call.at = "send"
      BY <1>1 DEF Calling, ActiveCall, Secret
    <2>2. caller' = [caller EXCEPT ![c] = r]
      BY DEF SaveSecret, Cached
    <2> HIDE DEF r
    <2>3. QED
      BY <2>1, <2>2, CallPut DEF McpInv
  <1>3. Others(c) /\ ~Minting(c)' /\ ~Saving(c)' /\ ~Rotated(c)'
    BY <1>1, <1>2 DEF Others, Minting, Saving, Rotated, Read, New
  <1>4. \A b \in Browser : InAnswer(b)' = InAnswer(b) /\ Brought(b)' = Brought(b)
    BY <1>1 DEF InAnswer, Brought
  <1>5. CASE server.id # call.id
    <2>1. UNCHANGED <<server, mishaps>>
      BY <1>5 DEF SaveSecret
    <2>2. TypeInv'
      BY <1>1, <1>2, <2>1 DEF McpInv, TypeInv
    <2>3. ~Owing(c)
      BY <1>1, <1>5 DEF Owing, Owed
    <2>4. QED
      BY <1>1, <1>2, <1>3, <2>1, <2>2, <2>3, Quiet
  <1>6. CASE server.id = call.id
    <2>1. /\ server' = [server EXCEPT !.secret = call.new] /\ call.new \in Secret
          /\ mishaps' = IF Other(call) THEN mishaps \cup {"crossed"} ELSE mishaps
      BY <1>1, <1>6 DEF SaveSecret, ActiveCall
    <2>2. /\ server'.id = server.id /\ server'.kind = server.kind /\ server'.secret = call.new /\ Held' = New(c)
          /\ server' \in [id : Nat, kind : Kind, secret : Secret, tested : BOOLEAN]
      BY <1>1, <2>1 DEF McpInv, TypeInv, Held
    <2>3. TypeInv' /\ ConnectInv'
      BY <1>1, <1>2, <2>1, <2>2 DEF McpInv, TypeInv, ConnectInv, Carries
    <2>4. BoundInv'
      BY <1>1, <1>3, <1>4, <2>2 DEF McpInv, BoundInv, Others, Old
    <2>5. BrowserInv'
      BY <1>1, <1>3, <1>4, <2>2 DEF McpInv, BrowserInv, Others
    <2>6. call.kind \in {"oauth", "principal"}
      BY <1>1 DEF McpInv, MintInv
    <2>7. \/ Rotated(c) /\ call.kind = "oauth"
          \/ call.kind = "principal" /\ New(c) = NoToken
          \/ call.kind = "oauth" /\ ~rotates /\ New(c) = Read(c)
      BY <1>1, <2>6 DEF McpInv, MintInv, Rotated
    <2>8. MintInv'
      <3>1. ASSUME NEW d \in Client, d # c, Minting(d), New(c) # NoToken, Read(d) = New(c) PROVE CallBy(d).id = server.id
        BY <1>1, <1>6, <2>7, <3>1 DEF McpInv, MintInv, NewInv
      <3>2. QED
        BY <1>1, <1>2, <1>3, <2>2, <3>1 DEF McpInv, MintInv, Others
    <2>9. NewInv'
      <3>1. ASSUME NEW d \in Client, d # c, Rotated(d) PROVE New(c) # New(d)
        BY <1>1, <2>7, <3>1, Constants DEF McpInv, NewInv, Rotated
      <3>2. QED
        BY <1>3, <1>4, <2>2, <3>1 DEF McpInv, NewInv, Others
    <2>10. RotateInv'
      BY <1>1, <2>1 DEF McpInv, RotateInv
    <2>11. ASSUME mishaps' = {}
           PROVE  mishaps = {} /\ server.kind = call.kind /\ Held = Read(c) /\ server.secret.own = call.read.own
      BY <1>1, <2>1, <2>11 DEF Other, Held
    <2>12. OwnInv'
      BY <1>1, <2>2, <2>11 DEF McpInv, OwnInv, MintInv
    <2>13. HoldInv'
      <3> SUFFICES ASSUME mishaps' = {} PROVE HoldInv'
        BY DEF HoldInv
      <3>1. \A d \in Client : ~Owing(d)'
        <4>1. ASSUME NEW d \in Client, Owing(d)' PROVE FALSE
          <5>1. d # c /\ Saving(d) /\ Minting(d) /\ CallBy(d).kind = "oauth" /\ Read(d) = New(c) /\ rotates
            BY <1>1, <1>2, <1>3, <2>2, <4>1 DEF Owing, Owed, Others, Held, Read, Saving, Minting
          <5>2. QED
            BY <1>1, <2>7, <5>1 DEF McpInv, NewInv, MintInv
        <4>2. QED
          BY <4>1
      <3>2. ASSUME server.kind = "oauth" PROVE New(c) # NoToken /\ New(c) \in accepted
        <4>1. Read(c) # NoToken /\ call.kind = "oauth"
          BY <1>1, <2>11, <3>2 DEF McpInv, MintInv
        <4>2. CASE Rotated(c)
          <5>1. Owing(c)
            BY <1>1, <1>6, <2>11, <4>1, <4>2 DEF Owing, Owed, Rotated, Held
          <5>2. QED
            BY <2>11, <4>2, <5>1, Constants DEF McpInv, HoldInv, NewInv
        <4>3. CASE ~rotates /\ New(c) = Read(c)
          BY <2>11, <3>2, <4>1, <4>3 DEF McpInv, HoldInv, Owing, Owed
        <4>4. QED
          BY <2>7, <4>1, <4>2, <4>3
      <3>3. QED
        BY <1>1, <2>2, <3>1, <3>2 DEF HoldInv
    <2>14. QED
      BY <2>3, <2>4, <2>5, <2>8, <2>9, <2>10, <2>12, <2>13 DEF McpInv
  <1>7. QED
    BY <1>5, <1>6

-----------------------------------------------------------------------------

\* Every step keeps the invariant.
LEMMA McpInvStep ==
    ASSUME McpInv, [McpNext]_mcpVars
    PROVE  McpInv'
  <1>1. CASE SetClient \/ DeleteClient
    BY <1>1, AppStep
  <1>2. CASE RegisterByHand \/ DeleteServer
    BY <1>2, HandStep
  <1>3. ASSUME NEW n \in State, StartFlow(n) \/ StateExpires(n) \/ \E b \in Browser : Consume(b, n) PROVE McpInv'
    BY <1>3, NonceStep
  <1>4. ASSUME NEW b \in Browser, ExchangeCode(b) \/ RegisterServer(b) PROVE McpInv'
    BY <1>4, ExchangeStep, RegisterStep
  <1>5. ASSUME NEW c \in Client, NEW test \in BOOLEAN, RequireServer(c, test) PROVE McpInv'
    BY <1>5, RequireStep
  <1>6. ASSUME NEW c \in Client, ReadSecret(c) \/ Refresh(c) \/ RefreshFails(c) \/ SaveSecret(c) PROVE McpInv'
    BY <1>6, ReadStep, RefreshStep, FailStep, SaveStep
  <1>7. ASSUME NEW c \in Client, CallServer(c) \/ StopClient(c) \/ CacheExpires(c) PROVE McpInv'
    BY <1>7, CallStep, StopStep, CacheStep
  <1>8. ASSUME NEW t \in alive, TokenExpires(t) PROVE McpInv'
    BY <1>8, ExpireStep
  <1>9. CASE UNCHANGED mcpVars
    <2>1. TypeInv'
      BY <1>9 DEF mcpVars, McpInv, TypeInv
    <2>2. QED
      BY <1>9, <2>1, Quiet DEF mcpVars, CallBy
  <1>10. QED
    BY <1>1, <1>2, <1>3, <1>4, <1>5, <1>6, <1>7, <1>8, <1>9 DEF McpNext

\* Tokens, rows and calls agree.
LEMMA McpInvariance == McpSpec => []McpInv
  <1>1. McpInit => McpInv
    BY McpInvInit
  <1>2. McpInv /\ [McpNext]_mcpVars => McpInv'
    BY McpInvStep
  <1>3. QED
    BY <1>1, <1>2, PTL DEF McpSpec

\* The row, the provider's tokens and the mishaps stay inside their types,
\* for any numbers of clients, callbacks and changes (mcp_client, api/routes/mcp*.py).
THEOREM McpTypeCorrect == McpSpec => []McpTypeOK
  <1>1. McpInv => McpTypeOK
    <2>1. ASSUME McpInv PROVE \A t \in accepted : t.n \in 1..issued
      <3>1. \A t \in accepted : t.n \in Nat /\ t.n <= issued /\ t.n # 0
        BY <2>1 DEF McpInv, TypeInv, BoundInv, Old, Token
      <3>2. issued \in Nat
        BY <2>1, McpAssumption DEF McpInv, TypeInv
      <3>3. QED
        BY <3>1, <3>2
    <2>2. ASSUME McpInv PROVE {t.n : t \in accepted} \subseteq 1..issued
      BY <2>1, <2>2
    <2>3. ASSUME McpInv
          PROVE  /\ server.kind \in {"none", "bearer", "principal", "oauth"} /\ server.tested \in BOOLEAN
                 /\ alive \subseteq 1..issued /\ issued \in 0..MaxTokens
                 /\ changes \in 0..MaxChanges /\ mishaps \subseteq {"lost", "reuse", "crossed"}
      BY <2>3 DEF McpInv, TypeInv, Kind
    <2>4. ASSUME McpInv PROVE {t.n : t \in accepted} \cup alive \subseteq 1..issued
      BY <2>2, <2>3, <2>4
    <2>5. QED
      BY <2>3, <2>4 DEF McpTypeOK
  <1>2. QED
    BY <1>1, McpInvariance, PTL

\* What is stored for a server stays usable through every interleaving of renewals,
\* registrations, callbacks and ends of processes, but for the three named mishaps,
\* and a consent registers one server (mcp_client/client.py, api/routes/mcp_oauth.py).
THEOREM Credentials == McpSpec => []CredentialHolds
  <1>1. McpInv => CredentialHolds
    <2> SUFFICES ASSUME McpInv PROVE CredentialHolds
      OBVIOUS
    <2>1. \A n \in State : connects[n] <= 1
      BY DEF McpInv, ConnectInv
    <2>2. ASSUME mishaps = {}
          PROVE  /\ server.kind = "bearer" => server.secret.own = "token"
                 /\ server.kind \in {"principal", "oauth"} => server.secret.own = "secret"
                 /\ server.kind = "oauth" => \/ server.secret.refresh \in accepted
                                             \/ \E c \in Client : caller[c].call.at = "save" /\ Owed(caller[c].call)
      BY <2>2 DEF McpInv, OwnInv, HoldInv, Owing, Saving, CallBy, Held
    <2>3. QED
      BY <2>1, <2>2 DEF McpInv, RotateInv, CredentialHolds
  <1>2. QED
    BY <1>1, McpInvariance, PTL

-----------------------------------------------------------------------------
(*****************************************************************************)
(* The loop of the agent.                                                    *)
(*****************************************************************************)

Fields == [role : {"user", "assistant", "tool"}, calls : Seq(Ids), replies : Seq([id : Ids, archived : BOOLEAN])]

\* What a turn has in hand: blocks numbered as they came, the calls among them that are
\* ready, each with its own id, and the results of the first of those.
TurnInv ==
    /\ loop \in {"stream", "dispatch"} => turn >= 1
    /\ \A i \in DOMAIN blocks : blocks[i].id = <<turn, i>>
    /\ \A i \in DOMAIN finished : finished[i].id \in {<<turn, k>> : k \in 1..Len(blocks)}
    /\ \A i, j \in DOMAIN finished : finished[i].id = finished[j].id => i = j
    /\ loop = "stream" =>
          /\ results = <<>>
          /\ wire # "anthropic" => finished = <<>>
    /\ wire = "anthropic" => \A i, j \in DOMAIN finished : i < j => finished[i].id[2] < finished[j].id[2]
    /\ loop = "dispatch" => finished # <<>>
    /\ Len(results) <= Len(finished)
    /\ \A i \in DOMAIN results : results[i].id = finished[i].id

Results(t) == {i \in DOMAIN t : t[i].event # "start"}

\* Every call has at most one result, and of this turn only those in hand have one.
TraceInv ==
    /\ \A i \in DOMAIN trace : trace[i].id[1] <= turn
    /\ \A i, j \in Results(trace) : trace[i].id = trace[j].id => i = j
    /\ loop = "stream" => \A i \in Results(trace) : trace[i].id[1] < turn
    /\ loop = "dispatch" =>
          \A i \in Results(trace) : trace[i].id[1] = turn => \E k \in DOMAIN results : trace[i].id = results[k].id

\* The versions are the good and the unloadable writes, in their order.
Write(i) == trace[i].name = "write_skill" /\ trace[i].event \in {"ok", "invalid"}
VersionsInv ==
    /\ \A v \in DOMAIN versions : \E i \in DOMAIN trace : trace[i].id = versions[v] /\ Write(i)
    /\ \A i \in DOMAIN trace : Write(i) => \E v \in DOMAIN versions : versions[v] = trace[i].id
    /\ \A v, w \in DOMAIN versions : \A i, j \in Results(trace) :
          v < w /\ trace[i].id = versions[v] /\ trace[j].id = versions[w] => i < j

\* A run that stops at a killed sandbox sends nothing.
KillInv ==
    shortCircuit /\ (\E i \in DOMAIN trace : trace[i].event = "kill") =>
        \/ loop = "dispatch" /\ SandboxKill
        \/ loop = "returned" /\ returned.stop = "sandbox_error_propagated"
        \/ loop \in {"raised", "skipped"}

\* Roles, calls and replies of messages.
RolesInv ==
    /\ Len(history) >= 1 /\ history[1] = Kickoff
    /\ \A i \in DOMAIN history : /\ history[i].calls # <<>> => history[i].role = "assistant"
                                 /\ history[i].replies # <<>> => history[i].role # "assistant"

\* The calls of a history are of turns gone by, and on the Anthropic wire those of
\* this turn that started are the ones in hand.
CalledInv ==
    /\ wire = "anthropic" =>
          \A i \in DOMAIN history : \A k \in DOMAIN history[i].calls :
              /\ history[i].calls[k][1] <= turn
              /\ loop \in {"stream", "dispatch"} => history[i].calls[k][1] < turn
    /\ wire = "anthropic" /\ loop \in {"stream", "dispatch"} =>
          {c \in Started(trace) : c[1] = turn} = {finished[j].id : j \in DOMAIN finished}
    /\ wire # "anthropic" =>
          \A i \in DOMAIN history : \A k \in DOMAIN history[i].calls : history[i].calls[k] \in Started(trace)

\* Roles take turns, and the calls that started are answered in the next message.
Alternates(h, started) ==
    /\ Len(h) % 2 = 1
    /\ \A i \in DOMAIN h :
          /\ h[i].role = IF i % 2 = 1 THEN "user" ELSE "assistant"
          /\ h[i].role = "assistant" =>
                i + 1 \in DOMAIN h /\ Answered(h[i].calls, h[i + 1].replies, started)

\* The first n messages answer every call of theirs, and nothing else.
Answers(h, n) ==
    \A i \in 1..n :
        /\ \A k \in DOMAIN h[i].calls :
              i + k <= n /\ h[i + k].role = "tool" /\ Len(h[i + k].replies) = 1 /\ h[i + k].replies[1].id = h[i].calls[k]
        /\ h[i].replies # <<>> => \E a \in 1..i - 1 : i <= a + Len(h[a].calls)

HistoryInv ==
    /\ wire = "anthropic" => Alternates(history, Started(trace))
    /\ wire # "anthropic" /\ loop \in {"request", "stream"} => Answers(history, Len(history))
    /\ wire # "anthropic" /\ loop = "dispatch" =>
          /\ Answers(history, Len(history) - 1)
          /\ history[Len(history)] = Message("assistant", [i \in DOMAIN finished |-> finished[i].id], <<>>)

Asked(h) == {i \in DOMAIN h : h[i].calls # <<>>}
FreshAfter(h) ==
    \A a \in Asked(h) :
        (\A i \in Asked(h) : i <= a) /\ (wire = "anthropic" \/ Len(h[a].calls) <= KeepLastK) =>
            \A i \in DOMAIN h : i > a => \A k \in DOMAIN h[i].replies : ~h[i].replies[k].archived
FreshInv == loop \in {"request", "stream", "dispatch"} => FreshAfter(history)

LoopInv ==
    /\ LoopTypeOK /\ TurnInv /\ TraceInv /\ VersionsInv /\ KillInv
    /\ RolesInv /\ CalledInv /\ HistoryInv /\ FreshInv /\ CandidateIsLastGoodWrite

BlockT  == [id : Ids, name : Tools, whole : BOOLEAN]
CallT   == [id : Ids, name : Tools]
ResultT == [id : Ids, outcome : {"ok", "invalid", "error", "kill"}]
EventT  == [event : {"start", "ok", "invalid", "error", "kill"}, id : Ids, name : Tools]

-----------------------------------------------------------------------------
\* A finite set whose elements have distinct keys can be listed by ascending key.
LEMMA SortedEnumeration ==
    ASSUME NEW S, IsFiniteSet(S), NEW key \in [S -> Int],
           \A x, y \in S : key[x] = key[y] => x = y
    PROVE  \E s \in [1..Cardinality(S) -> S] :
               \A i, j \in 1..Cardinality(S) : i < j => key[s[i]] < key[s[j]]
  <1> DEFINE n == Cardinality(S)
             Below(x) == {y \in S : key[y] <= key[x]}
             pos == [x \in S |-> Cardinality(Below(x))]
  <1>1. n \in Nat
    BY FS_CardinalityType
  <1>2. ASSUME NEW x \in S, NEW y \in S, key[x] < key[y]
        PROVE  Cardinality(Below(x)) < Cardinality(Below(y))
    <2>1. IsFiniteSet(Below(y)) /\ IsFiniteSet(Below(x))
      BY FS_Subset
    <2>2. key[x] \in Int /\ key[y] \in Int
      OBVIOUS
    <2>3. Below(x) \subseteq Below(y)
      <3>1. ASSUME NEW z \in S, key[z] <= key[x] PROVE key[z] <= key[y]
        <4>1. key[z] \in Int
          OBVIOUS
        <4>2. QED
          BY <1>2, <2>2, <3>1, <4>1
      <3>2. QED
        BY <3>1
    <2>4. y \in Below(y) /\ y \notin Below(x)
      BY <1>2, <2>2
    <2>5. /\ Cardinality(Below(x)) <= Cardinality(Below(y))
          /\ Cardinality(Below(y)) = Cardinality(Below(x)) => Below(y) = Below(x)
      BY <2>1, <2>3, FS_Subset
    <2>6. Cardinality(Below(x)) \in Nat /\ Cardinality(Below(y)) \in Nat
      BY <2>1, FS_CardinalityType
    <2>7. QED
      BY <2>4, <2>5, <2>6
  <1>3. \A x \in S : Cardinality(Below(x)) \in 1..n
    <2> TAKE x \in S
    <2>1. IsFiniteSet(Below(x)) /\ Cardinality(Below(x)) <= n
      BY FS_Subset
    <2>2. x \in Below(x)
      <3>1. key[x] \in Int
        OBVIOUS
      <3>2. QED
        BY <3>1
    <2>3. Cardinality(Below(x)) \in Nat /\ Cardinality(Below(x)) # 0
      BY <2>1, <2>2, FS_CardinalityType, FS_EmptySet
    <2>4. QED
      BY <1>1, <2>1, <2>3
  <1>4. pos \in Injection(S, 1..n)
    <2>1. ASSUME NEW x \in S, NEW y \in S, pos[x] = pos[y] PROVE x = y
      <3> HIDE DEF Below
      <3>1. key[x] \in Int /\ key[y] \in Int /\ Cardinality(Below(x)) = Cardinality(Below(y))
            /\ Cardinality(Below(x)) \in Int
        BY <1>3, <2>1
      <3>2. ~(key[x] < key[y]) /\ ~(key[y] < key[x])
        BY <1>2, <3>1
      <3>3. QED
        BY <3>1, <3>2
    <2>2. pos \in [S -> 1..n]
      <3> HIDE DEF Below
      <3> QED BY <1>3
    <2>3. QED
      <3> HIDE DEF pos
      <3> QED BY <2>1, <2>2 DEF Injection, IsInjective
  <1>5. pos \in Surjection(S, 1..n)
    <2>1. IsFiniteSet(1..n) /\ Cardinality(1..n) = n
      BY <1>1, FS_Interval
    <2> HIDE DEF pos
    <2>2. QED
      BY <1>4, <2>1, FS_Injection
  <1>6. \A i \in 1..n : \E x \in S : pos[x] = i
    <2> HIDE DEF pos
    <2> QED BY <1>5 DEF Surjection
  <1> DEFINE s == [i \in 1..n |-> CHOOSE x \in S : pos[x] = i]
  <1>7. \A i \in 1..n : s[i] \in S /\ pos[s[i]] = i
    <2> HIDE DEF pos
    <2> QED BY <1>6
  <1>8. ASSUME NEW i \in 1..n, NEW j \in 1..n, i < j PROVE key[s[i]] < key[s[j]]
    <2>1. s[i] \in S /\ s[j] \in S /\ pos[s[i]] = i /\ pos[s[j]] = j
      BY <1>7
    <2> HIDE DEF s, Below
    <2>2. Cardinality(Below(s[i])) = i /\ Cardinality(Below(s[j])) = j
      BY <2>1
    <2>3. key[s[i]] \in Int /\ key[s[j]] \in Int
      BY <2>1
    <2>4. ~(key[s[j]] < key[s[i]])
      BY <1>1, <1>2, <1>8, <2>1, <2>2
    <2>5. key[s[i]] # key[s[j]]
      BY <1>1, <1>8, <2>1, <2>2
    <2>6. QED
      BY <2>3, <2>4, <2>5
  <1>9. s \in [1..n -> S]
    <2> HIDE DEF pos
    <2> QED BY <1>7
  <1>10. QED
    <2> HIDE DEF s
    <2> QED BY <1>8, <1>9

\* The greatest of some numbers up to n.
LEMMA GreatestOf ==
    ASSUME NEW n \in Nat, NEW S \in SUBSET (1..n), S # {}
    PROVE  LET g == CHOOSE u \in S : \A w \in S : w <= u
           IN  g \in S /\ \A w \in S : w <= g
  <1> DEFINE T == {n - x : x \in S}
  <1>1. T \subseteq Nat /\ T # {}
    <2>1. \A x \in S : x \in 1..n
      OBVIOUS
    <2>2. \A x \in 1..n : n - x \in Nat
      OBVIOUS
    <2>3. \A x \in S : n - x \in Nat
      BY <2>1, <2>2
    <2>4. QED
      BY <2>3
  <1>2. PICK d \in T : \A e \in T : ~(<<e, d>> \in OpToRel(<, Nat))
    <2> HIDE DEF T
    <2> QED BY <1>1, NatLessThanWellFounded, WFMin
  <1>3. PICK y \in S : d = n - y
    OBVIOUS
  <1>4. \A x \in S : x <= y
    <2>1. SUFFICES ASSUME NEW x \in S, x > y PROVE FALSE
      OBVIOUS
    <2>2. n - x \in T /\ n - x \in Nat /\ d \in Nat /\ n - x < d
      BY <1>3, <2>1
    <2>3. <<n - x, d>> \in OpToRel(<, Nat)
      BY <2>2 DEF OpToRel
    <2>4. QED
      BY <1>2, <2>2, <2>3
  <1>5. QED
    BY <1>4

\* The whole calls of a response: some of its blocks, each once.
LEMMA WholeCalls ==
    ASSUME NEW s \in Seq(BlockT), \A m, n \in DOMAIN s : s[m].id = s[n].id => m = n
    PROVE  /\ Whole(s) \in Seq(BlockT)
           /\ \A x \in DOMAIN Whole(s) : \E m \in DOMAIN s : Whole(s)[x] = s[m]
           /\ \A x, y \in DOMAIN Whole(s) : Whole(s)[x].id = Whole(s)[y].id => x = y
  <1> DEFINE W == {i \in DOMAIN s : s[i].whole}
             N == Cardinality(W)
             Right(f) == \A i, j \in DOMAIN f : i < j => f[i] < f[j]
             nth == CHOOSE f \in [1..N -> W] : Right(f)
             key == [x \in W |-> x]
  <1>1. W \subseteq 1..Len(s) /\ Len(s) \in Nat
    OBVIOUS
  <1>2. IsFiniteSet(W) /\ N \in Nat
    <2>1. IsFiniteSet(1..Len(s))
      BY <1>1, FS_Interval
    <2>2. IsFiniteSet(W)
      BY <1>1, <2>1, FS_Subset
    <2> HIDE DEF W
    <2>3. QED
      BY <2>2, FS_CardinalityType
  <1>3. key \in [W -> Int] /\ \A x, y \in W : key[x] = key[y] => x = y
    BY <1>1
  <1>4. \E f \in [1..N -> W] : \A i, j \in 1..N : i < j => key[f[i]] < key[f[j]]
    <2> HIDE DEF W, key
    <2> QED BY <1>2, <1>3, SortedEnumeration
  <1>5. \E f \in [1..N -> W] : Right(f)
    <2>1. PICK f \in [1..N -> W] : \A i, j \in 1..N : i < j => key[f[i]] < key[f[j]]
      BY <1>4
    <2>2. \A i, j \in 1..N : i < j => f[i] < f[j]
      BY <2>1
    <2>3. QED
      BY <2>2
  <1>6. nth \in [1..N -> W] /\ Right(nth)
    <2> HIDE DEF W, N
    <2> QED BY <1>5
  <1>7. Whole(s) = [i \in 1..N |-> s[nth[i]]]
    BY <1>6 DEF Whole
  <1> HIDE DEF nth, N
  <1>8. \A i, j \in 1..N : nth[i] = nth[j] => i = j
    <2>1. SUFFICES ASSUME NEW i \in 1..N, NEW j \in 1..N, nth[i] = nth[j], i < j PROVE FALSE
      BY <1>2
    <2>2. nth[i] < nth[j] /\ nth[i] \in Int
      BY <1>1, <1>6, <2>1
    <2>3. QED
      BY <2>1, <2>2
  <1>9. Whole(s) \in Seq(BlockT)
    <2>1. \A i \in 1..N : s[nth[i]] \in BlockT
      BY <1>1, <1>6
    <2>2. [i \in 1..N |-> s[nth[i]]] \in [1..N -> BlockT]
      BY <2>1
    <2>3. QED
      BY <1>2, <1>7, <2>2
  <1>10. DOMAIN Whole(s) = 1..N
    BY <1>7
  <1>11. QED
    BY <1>1, <1>6, <1>7, <1>8, <1>9, <1>10

\* What compaction leaves: the messages, their roles, calls and replies, and those
\* it does not archive.
LEMMA CompactKeeps ==
    ASSUME NEW h \in Seq(Fields)
    PROVE  /\ Compact(h) \in Seq(Fields) /\ Len(Compact(h)) = Len(h)
           /\ \A x \in DOMAIN h :
                 LET o == h[x]
                     m == Compact(h)[x]
                 IN  /\ m.role = o.role /\ m.calls = o.calls /\ Len(m.replies) = Len(o.replies)
                     /\ \A k \in DOMAIN o.replies : m.replies[k].id = o.replies[k].id
                     /\ x \notin ToArchive(h) => m = o
  <1>1. CASE Size(h) <= Threshold
    BY <1>1 DEF Compact
  <1>2. CASE ~(Size(h) <= Threshold)
    <2>1. \A m \in Fields : /\ Archived(m) \in Fields /\ Archived(m).role = m.role /\ Archived(m).calls = m.calls
                            /\ Len(Archived(m).replies) = Len(m.replies)
                            /\ \A k \in DOMAIN m.replies : Archived(m).replies[k].id = m.replies[k].id
      <3>1. SUFFICES ASSUME NEW m \in Fields
                     PROVE  /\ Archived(m) \in Fields /\ Archived(m).role = m.role /\ Archived(m).calls = m.calls
                            /\ Len(Archived(m).replies) = Len(m.replies)
                            /\ \A k \in DOMAIN m.replies : Archived(m).replies[k].id = m.replies[k].id
        OBVIOUS
      <3> DEFINE r == [k \in DOMAIN m.replies |-> [m.replies[k] EXCEPT !.archived = TRUE]]
                 n == Len(m.replies)
      <3>2. m.replies \in Seq([id : Ids, archived : BOOLEAN]) /\ DOMAIN m.replies = 1..n /\ n \in Nat
        BY DEF Fields
      <3>3. \A k \in 1..n : m.replies[k] \in [id : Ids, archived : BOOLEAN]
        <4>1. \A T : \A q \in Seq(T) : \A k \in 1..Len(q) : q[k] \in T
          OBVIOUS
        <4>2. QED
          BY <3>2, <4>1
      <3>4. \A k \in 1..n : r[k] \in [id : Ids, archived : BOOLEAN] /\ r[k].id = m.replies[k].id
        BY <3>2, <3>3
      <3>5. r \in [1..n -> [id : Ids, archived : BOOLEAN]]
        BY <3>2, <3>4
      <3>6. r \in Seq([id : Ids, archived : BOOLEAN]) /\ Len(r) = n
        BY <3>2, <3>5
      <3> HIDE DEF r, n
      <3>7. Archived(m) = [m EXCEPT !.replies = r]
        BY DEF Archived, r
      <3>8. Archived(m) \in Fields /\ Archived(m).role = m.role /\ Archived(m).calls = m.calls /\ Archived(m).replies = r
        BY <3>6, <3>7 DEF Fields
      <3>9. QED
        BY <3>2, <3>4, <3>6, <3>8 DEF n
    <2> DEFINE c == [i \in DOMAIN h |-> IF i \in ToArchive(h) THEN Archived(h[i]) ELSE h[i]]
    <2>2. Compact(h) = c /\ DOMAIN h = 1..Len(h) /\ Len(h) \in Nat
      BY <1>2 DEF Compact
    <2>3. \A i \in 1..Len(h) : c[i] \in Fields
      BY <2>1, <2>2
    <2>4. c \in [1..Len(h) -> Fields]
      BY <2>2, <2>3
    <2>5. c \in Seq(Fields) /\ Len(c) = Len(h)
      BY <2>2, <2>4
    <2>6. \A x \in DOMAIN h : h[x] \in Fields /\ c[x] = IF x \in ToArchive(h) THEN Archived(h[x]) ELSE h[x]
      BY <2>2
    <2> HIDE DEF c
    <2>7. QED
      BY <2>1, <2>2, <2>5, <2>6
  <1>3. QED
    BY <1>1, <1>2

\* The ids, names and starts of calls.
LEMMA CallsOf ==
    ASSUME NEW s \in Seq(BlockT)
    PROVE  /\ Calls(s) \in Seq(CallT) /\ Len(Calls(s)) = Len(s)
           /\ \A x \in 1..Len(s) : Calls(s)[x].id = s[x].id /\ Calls(s)[x].name = s[x].name
           /\ Starts(s) \in Seq(EventT) /\ Len(Starts(s)) = Len(s)
           /\ \A x \in 1..Len(s) : Starts(s)[x].id = s[x].id /\ Starts(s)[x].event = "start"
  <1>1. DOMAIN s = 1..Len(s) /\ Len(s) \in Nat /\ \A x \in 1..Len(s) : s[x] \in BlockT
    OBVIOUS
  <1>2. \A b \in BlockT : /\ CallOf(b) \in CallT /\ CallOf(b).id = b.id /\ CallOf(b).name = b.name
                          /\ StartOf(b) \in EventT /\ StartOf(b).id = b.id /\ StartOf(b).event = "start"
    BY DEF CallOf, StartOf, BlockT, CallT, EventT
  <1>3. Calls(s) \in [1..Len(s) -> CallT] /\ Starts(s) \in [1..Len(s) -> EventT]
    BY <1>1, <1>2 DEF Calls, Starts
  <1>4. Calls(s) \in Seq(CallT) /\ Len(Calls(s)) = Len(s) /\ Starts(s) \in Seq(EventT) /\ Len(Starts(s)) = Len(s)
    BY <1>1, <1>3
  <1>5. \A x \in 1..Len(s) : Calls(s)[x] = CallOf(s[x]) /\ Starts(s)[x] = StartOf(s[x])
    BY <1>1 DEF Calls, Starts
  <1>6. QED
    BY <1>1, <1>2, <1>4, <1>5

\* The types of the state's parts.
LEMMA LoopTypes ==
    ASSUME LoopTypeOK
    PROVE  /\ wire \in Wires /\ turn \in Nat /\ turn <= MaxTurns
           /\ history \in Seq(Fields) /\ blocks \in Seq(BlockT) /\ finished \in Seq(CallT)
           /\ results \in Seq(ResultT) /\ trace \in Seq(EventT) /\ versions \in Seq(Ids)
  BY LoopAssumption DEF LoopTypeOK, Fields, BlockT, CallT, ResultT, EventT

\* The type of the next state.
LEMMA LoopTypesNext ==
    ASSUME LoopTypeOK, wire' \in Wires, shortCircuit' \in BOOLEAN, turn' \in 0..MaxTurns,
           loop' \in {"request", "stream", "dispatch", "returned", "raised", "gated", "skipped"},
           history' \in Seq(Fields), blocks' \in Seq(BlockT), finished' \in Seq(CallT),
           results' \in Seq(ResultT), trace' \in Seq(EventT), versions' \in Seq(Ids),
           returned' = returned \/
           returned' \in [stop : Stops \cup {"none", "max_iterations", "sandbox_error_propagated"},
                          calls : Nat, errors : Nat, candidate : Ids \cup {NoCall}]
    PROVE  LoopTypeOK'
  BY DEF LoopTypeOK, Fields, BlockT, CallT, ResultT, EventT

\* Where a turn is left.
LEMMA TurnKept ==
    ASSUME TurnInv, UNCHANGED <<wire, turn, blocks, finished, results>>, loop' \notin {"stream", "dispatch"}
    PROVE  TurnInv'
  BY DEF TurnInv

\* What is left alone stays right: the trace, ...
LEMMA TraceKept ==
    ASSUME TraceInv, UNCHANGED <<turn, trace>>, loop' \notin {"stream", "dispatch"}
    PROVE  TraceInv'
  BY DEF TraceInv, Results

\* ... the versions, ...
LEMMA VersionsKept ==
    ASSUME VersionsInv, UNCHANGED <<trace, versions>>
    PROVE  VersionsInv'
  BY DEF VersionsInv, Results, Write

\* ... what started, ...
LEMMA StartedKept ==
    ASSUME UNCHANGED trace
    PROVE  Started(trace)' = Started(trace)
  BY DEF Started

LEMMA CalledKept ==
    ASSUME CalledInv, UNCHANGED <<wire, turn, history, finished>>, Started(trace)' = Started(trace),
           loop' \in {"stream", "dispatch"} => loop \in {"stream", "dispatch"}
    PROVE  CalledInv'
  <1>1. wire = "anthropic" /\ loop' \in {"stream", "dispatch"} =>
           {c \in Started(trace)' : c[1] = turn'} = {finished'[j].id : j \in DOMAIN finished'}
    BY DEF CalledInv
  <1>2. QED
    BY <1>1 DEF CalledInv

\* ... the answers, where roles, calls and the ids of replies stay and no call of
\* theirs starts, ...
LEMMA AlternatesKept ==
    ASSUME NEW h \in Seq(Fields), NEW g \in Seq(Fields), NEW S, NEW T, Alternates(h, S), Len(g) = Len(h),
           \A x \in DOMAIN h : /\ g[x].role = h[x].role /\ g[x].calls = h[x].calls /\ Len(g[x].replies) = Len(h[x].replies)
                               /\ \A k \in DOMAIN h[x].replies : g[x].replies[k].id = h[x].replies[k].id,
           \A x \in DOMAIN h : \A k \in DOMAIN h[x].calls : h[x].calls[k] \in S <=> h[x].calls[k] \in T
    PROVE  Alternates(g, T)
  <1>1. DOMAIN h = 1..Len(h) /\ DOMAIN g = DOMAIN h /\ Len(h) \in Nat
    OBVIOUS
  <1>2. \A x \in DOMAIN h : h[x] \in Fields /\ g[x] \in Fields
    BY <1>1
  <1>3. ASSUME NEW i \in DOMAIN h, h[i].role = "assistant"
        PROVE  i + 1 \in DOMAIN g /\ Answered(g[i].calls, g[i + 1].replies, T)
    <2>1. i + 1 \in DOMAIN h /\ Answered(h[i].calls, h[i + 1].replies, S)
      BY <1>3 DEF Alternates
    <2> DEFINE q == h[i + 1].replies
               p == g[i + 1].replies
               c == h[i].calls
    <2>2. q \in Seq([id : Ids, archived : BOOLEAN]) /\ p \in Seq([id : Ids, archived : BOOLEAN])
      BY <1>2, <2>1 DEF Fields
    <2>3. DOMAIN p = DOMAIN q /\ \A k \in DOMAIN q : p[k].id = q[k].id
      BY <2>1, <2>2
    <2>4. {c[k] : k \in DOMAIN c} \cap S = {c[k] : k \in DOMAIN c} \cap T
      OBVIOUS
    <2>5. g[i].calls = c
      OBVIOUS
    <2>6. /\ {q[k].id : k \in DOMAIN q} = {c[k] : k \in DOMAIN c} \cap S
          /\ \A j, k \in DOMAIN q : j < k => q[j].id[2] < q[k].id[2]
      BY <2>1 DEF Answered
    <2> HIDE DEF q, p, c
    <2>7. Answered(c, p, T)
      <3>1. {p[k].id : k \in DOMAIN p} = {q[k].id : k \in DOMAIN q}
        BY <2>3
      <3>2. \A j, k \in DOMAIN p : j < k => p[j].id[2] < p[k].id[2]
        <4>1. SUFFICES ASSUME NEW j \in DOMAIN p, NEW k \in DOMAIN p, j < k PROVE p[j].id[2] < p[k].id[2]
          OBVIOUS
        <4>2. p[j].id = q[j].id /\ p[k].id = q[k].id /\ q[j].id[2] < q[k].id[2]
          BY <2>3, <2>6, <4>1
        <4>3. QED
          BY <4>2
      <3>3. QED
        BY <2>4, <2>6, <3>1, <3>2 DEF Answered
    <2>8. QED
      BY <1>1, <2>1, <2>5, <2>7 DEF p
  <1>4. QED
    BY <1>1, <1>3 DEF Alternates

\* and where one more message and its answer come last, ...
LEMMA AlternatesExtended ==
    ASSUME NEW h \in Seq(Fields), NEW S, Alternates(h, S), NEW a \in Fields, NEW u \in Fields,
           a.role = "assistant", u.role = "user", Answered(a.calls, u.replies, S)
    PROVE  Alternates(h \o <<a, u>>, S)
  <1> DEFINE n == Len(h)
             g == h \o <<a, u>>
  <1>1. n \in Nat /\ n % 2 = 1 /\ DOMAIN h = 1..n
    BY DEF Alternates
  <1>2. <<a, u>> \in Seq(Fields) /\ Len(<<a, u>>) = 2 /\ <<a, u>>[1] = a /\ <<a, u>>[2] = u
    OBVIOUS
  <1>3. /\ g \in Seq(Fields) /\ Len(g) = n + 2 /\ g[n + 1] = a /\ g[n + 2] = u
        /\ \A i \in 1..n : g[i] = h[i]
    BY <1>1, <1>2
  <1>4. DOMAIN g = 1..n + 2 /\ \A i \in 1..n + 2 : i \in 1..n \/ i = n + 1 \/ i = n + 2
    BY <1>1, <1>3
  <1> HIDE DEF g, n
  <1>5. (n + 2) % 2 = 1 /\ (n + 1) % 2 # 1
    BY <1>1
  <1>6. ASSUME NEW i \in DOMAIN g
        PROVE  /\ g[i].role = IF i % 2 = 1 THEN "user" ELSE "assistant"
               /\ g[i].role = "assistant" => i + 1 \in DOMAIN g /\ Answered(g[i].calls, g[i + 1].replies, S)
    <2>1. CASE i \in 1..n
      <3>1. h[i].role = "assistant" => i + 1 \in 1..n /\ Answered(h[i].calls, h[i + 1].replies, S)
        BY <1>1, <2>1 DEF Alternates
      <3>2. g[i] = h[i] /\ (h[i].role = "assistant" => g[i + 1] = h[i + 1] /\ i + 1 \in 1..n + 2)
        BY <1>1, <1>3, <2>1, <3>1
      <3>3. h[i].role = IF i % 2 = 1 THEN "user" ELSE "assistant"
        BY <1>1, <2>1 DEF Alternates
      <3>4. QED
        BY <1>4, <3>1, <3>2, <3>3
    <2>2. CASE i = n + 1
      <3>1. i + 1 = n + 2 /\ n + 2 \in 1..n + 2
        BY <1>1, <2>2
      <3>2. QED
        BY <1>3, <1>4, <1>5, <2>2, <3>1
    <2>3. CASE i = n + 2
      BY <1>3, <1>5, <2>3
    <2>4. QED
      BY <1>4, <2>1, <2>2, <2>3
  <1>7. Alternates(g, S)
    BY <1>3, <1>5, <1>6 DEF Alternates
  <1>8. QED
    BY <1>7 DEF g

\* ... and the fresh results.
LEMMA FreshKept ==
    ASSUME FreshAfter(history), UNCHANGED <<wire, history>>
    PROVE  FreshAfter(history)'
  BY DEF FreshAfter, Asked

\* The stops of a run.
LEMMA ReturnTypes ==
    ASSUME LoopTypeOK, NEW stop \in Stops \cup {"max_iterations"}, Return(stop)
    PROVE  /\ loop' = "returned" /\ returned'.stop = stop
           /\ returned' \in [stop : Stops \cup {"none", "max_iterations", "sandbox_error_propagated"},
                             calls : Nat, errors : Nat, candidate : Ids \cup {NoCall}]
  BY DEF Return, LoopTypeOK

\* Leaving the loop with the history and the trace as they are.
LEMMA LeaveStep ==
    ASSUME LoopInv, loop \in {"request", "stream", "dispatch"},
           UNCHANGED <<wire, shortCircuit, turn, history, blocks, finished, results, trace, versions>>,
           \/ /\ loop # "dispatch"
              /\ \E stop \in Stops \cup {"max_iterations"} : Return(stop)
           \/ loop' = "raised" /\ UNCHANGED returned
    PROVE  LoopInv'
  <1>1. loop' \in {"returned", "raised"}
    BY DEF Return
  <1>2. LoopTypeOK'
    <2>1. \/ returned' = returned
          \/ returned' \in [stop : Stops \cup {"none", "max_iterations", "sandbox_error_propagated"},
                            calls : Nat, errors : Nat, candidate : Ids \cup {NoCall}]
      BY ReturnTypes DEF LoopInv
    <2>2. LoopTypeOK
      BY DEF LoopInv
    <2>3. QED
      BY <1>1, <2>1, <2>2, LoopTypes, LoopTypesNext DEF LoopTypeOK
  <1>3. TurnInv' /\ TraceInv' /\ VersionsInv'
    BY <1>1, TurnKept, TraceKept, VersionsKept DEF LoopInv
  <1>4. KillInv'
    BY <1>1 DEF LoopInv, KillInv
  <1>5. CalledInv' /\ Started(trace)' = Started(trace)
    BY <1>1, CalledKept, StartedKept DEF LoopInv
  <1>6. RolesInv' /\ HistoryInv' /\ FreshInv'
    BY <1>1, <1>5 DEF LoopInv, RolesInv, HistoryInv, Alternates, FreshInv
  <1>7. CandidateIsLastGoodWrite'
    BY <1>1 DEF CandidateIsLastGoodWrite
  <1>8. QED
    BY <1>2, <1>3, <1>4, <1>5, <1>6, <1>7 DEF LoopInv

\* Giving up, a stream that is cut off, and an exception.
LEMMA StopSteps ==
    ASSUME LoopInv, GiveUp \/ EndCutOff \/ Raise
    PROVE  LoopInv'
  BY LeaveStep DEF GiveUp, EndCutOff, Raise, Stops

\* The invariant holds at the start.
LEMMA LoopInvInit == LoopInit => LoopInv
  <1>1. SUFFICES ASSUME LoopInit PROVE LoopInv
    OBVIOUS
  <1>2. /\ wire \in Wires /\ shortCircuit \in BOOLEAN /\ loop = "request" /\ turn = 0 /\ history = <<Kickoff>>
        /\ blocks = <<>> /\ finished = <<>> /\ results = <<>> /\ trace = <<>> /\ versions = <<>>
        /\ returned = [stop |-> "none", calls |-> 0, errors |-> 0, candidate |-> NoCall]
    BY <1>1 DEF LoopInit
  <1>3. Kickoff \in Fields /\ Kickoff.role = "user" /\ Kickoff.calls = <<>> /\ Kickoff.replies = <<>>
    BY DEF Kickoff, Message, Fields
  <1>4. history \in Seq(Fields) /\ Len(history) = 1 /\ history[1] = Kickoff /\ DOMAIN history = {1}
    BY <1>2, <1>3
  <1>5. LoopTypeOK
    BY <1>2, <1>4, LoopAssumption DEF LoopTypeOK, Fields
  <1>6. TurnInv /\ TraceInv /\ VersionsInv /\ KillInv /\ CandidateIsLastGoodWrite
    BY <1>2 DEF TurnInv, TraceInv, VersionsInv, KillInv, CandidateIsLastGoodWrite, Results
  <1>7. RolesInv
    BY <1>3, <1>4 DEF RolesInv
  <1>8. CalledInv /\ HistoryInv
    BY <1>2, <1>3, <1>4 DEF CalledInv, HistoryInv, Alternates, Answers
  <1>9. FreshInv
    BY <1>3, <1>4 DEF FreshInv, FreshAfter, Asked
  <1>10. QED
    BY <1>5, <1>6, <1>7, <1>8, <1>9 DEF LoopInv

\* A call opens.
LEMMA OpenStep ==
    ASSUME LoopInv, NEW name \in Tools, OpenCall(name)
    PROVE  LoopInv'
  <1>1. /\ loop = "stream" /\ Len(blocks) < TurnCalls
        /\ UNCHANGED <<wire, shortCircuit, loop, turn, history, finished, results, trace, versions, returned>>
    BY DEF OpenCall
  <1>2. PICK whole \in BOOLEAN : blocks' = Append(blocks, [id |-> <<turn, Len(blocks) + 1>>, name |-> name, whole |-> whole])
    BY DEF OpenCall
  <1>3. LoopTypeOK /\ TurnInv /\ blocks \in Seq(BlockT) /\ finished \in Seq(CallT) /\ turn \in Nat /\ turn <= MaxTurns
    BY LoopTypes DEF LoopInv
  <1>4. <<turn, Len(blocks) + 1>> \in Ids
    BY <1>1, <1>3, LoopAssumption DEF TurnInv, Ids
  <1>5. blocks' \in Seq(BlockT) /\ Len(blocks') = Len(blocks) + 1
    BY <1>2, <1>3, <1>4 DEF BlockT
  <1>6. \A i \in DOMAIN blocks' : blocks'[i].id = <<turn, i>>
    BY <1>2, <1>3, <1>5 DEF TurnInv
  <1>7. LoopTypeOK'
    BY <1>1, <1>3, <1>5, LoopTypes, LoopTypesNext DEF LoopTypeOK
  <1>8. CalledInv' /\ Started(trace)' = Started(trace)
    BY <1>1, CalledKept, StartedKept DEF LoopInv
  <1>9. \A k \in 1..Len(blocks) : k \in 1..Len(blocks')
    BY <1>3, <1>5
  <1>10. TurnInv'
    BY <1>1, <1>3, <1>5, <1>6, <1>9 DEF TurnInv
  <1>11. TraceInv' /\ VersionsInv' /\ KillInv'
    BY <1>1, VersionsKept DEF LoopInv, TraceInv, KillInv, Results, SandboxKill
  <1>12. RolesInv' /\ HistoryInv' /\ FreshInv'
    BY <1>1, <1>8, FreshKept DEF LoopInv, RolesInv, HistoryInv, Alternates, FreshInv
  <1>13. CandidateIsLastGoodWrite'
    BY <1>1 DEF CandidateIsLastGoodWrite
  <1>14. QED
    BY <1>7, <1>8, <1>10, <1>11, <1>12, <1>13 DEF LoopInv

\* Calls that start leave the results of the others as they are.
LEMMA StartsAppended ==
    ASSUME LoopTypeOK, TraceInv, VersionsInv, NEW s \in Seq(EventT), trace' = trace \o s, UNCHANGED <<turn, versions>>,
           \A x \in 1..Len(s) : s[x].event = "start" /\ s[x].id[1] <= turn
    PROVE  /\ trace' \in Seq(EventT) /\ Results(trace)' = Results(trace)
           /\ Started(trace') = Started(trace) \cup {s[x].id : x \in 1..Len(s)}
           /\ \A i \in DOMAIN trace : trace'[i] = trace[i]
           /\ \A i \in DOMAIN trace' : trace'[i].id[1] <= turn /\ (trace'[i].event # "start" => i \in DOMAIN trace)
           /\ \A i, j \in Results(trace)' : trace'[i].id = trace'[j].id => i = j
           /\ VersionsInv'
  <1>1. trace \in Seq(EventT) /\ Len(trace) \in Nat /\ Len(s) \in Nat
    BY LoopTypes
  <1>2. trace' \in Seq(EventT) /\ Len(trace') = Len(trace) + Len(s)
    BY <1>1
  <1>3. \A i \in 1..Len(trace) : i \in 1..Len(trace') /\ trace'[i] = trace[i]
    BY <1>1, <1>2
  <1>4. \A i \in 1..Len(trace') : i \notin 1..Len(trace) => trace'[i].event = "start" /\ trace'[i].id[1] <= turn
    <2>1. SUFFICES ASSUME NEW i \in 1..Len(trace'), i \notin 1..Len(trace)
                   PROVE  trace'[i].event = "start" /\ trace'[i].id[1] <= turn
      OBVIOUS
    <2>2. trace'[i] = s[i - Len(trace)] /\ i - Len(trace) \in 1..Len(s)
      BY <1>1, <1>2, <2>1
    <2>3. QED
      BY <2>2
  <1>5. DOMAIN trace = 1..Len(trace) /\ DOMAIN trace' = 1..Len(trace')
    BY <1>1, <1>2
  <1>6. Results(trace)' = Results(trace)
    BY <1>3, <1>4, <1>5 DEF Results
  <1>7. \A i \in DOMAIN trace' : trace'[i].id[1] <= turn /\ (trace'[i].event # "start" => i \in DOMAIN trace)
    BY <1>3, <1>4, <1>5 DEF TraceInv
  <1>8. \A i \in Results(trace) : i \in DOMAIN trace /\ trace'[i] = trace[i]
    BY <1>3, <1>5 DEF Results
  <1>9. \A i, j \in Results(trace)' : trace'[i].id = trace'[j].id => i = j
    BY <1>6, <1>8 DEF TraceInv
  <1>10. \A i \in DOMAIN trace' : Write(i)' => i \in DOMAIN trace /\ Write(i)
    BY <1>3, <1>4, <1>5 DEF Write
  <1>11. \A i \in DOMAIN trace : Write(i) => i \in DOMAIN trace' /\ Write(i)'
    BY <1>3, <1>5 DEF Write
  <1>12. VersionsInv'
    <2>1. \A v \in DOMAIN versions : \E i \in DOMAIN trace' : trace'[i].id = versions[v] /\ Write(i)'
      BY <1>3, <1>5, <1>11 DEF VersionsInv
    <2>2. \A i \in DOMAIN trace' : Write(i)' => \E v \in DOMAIN versions : versions[v] = trace'[i].id
      BY <1>3, <1>5, <1>10 DEF VersionsInv
    <2>3. \A v, w \in DOMAIN versions : \A i, j \in Results(trace)' :
             v < w /\ trace'[i].id = versions[v] /\ trace'[j].id = versions[w] => i < j
      BY <1>6, <1>8 DEF VersionsInv
    <2>4. QED
      BY <2>1, <2>2, <2>3 DEF VersionsInv
  <1>13. Started(trace') = Started(trace) \cup {s[x].id : x \in 1..Len(s)}
    <2>1. \A i \in 1..Len(trace') : i \in 1..Len(trace) \/ \E x \in 1..Len(s) : i = Len(trace) + x
      <3>1. \A i \in 1..Len(trace') : i \notin 1..Len(trace) => i - Len(trace) \in 1..Len(s) /\ i = Len(trace) + (i - Len(trace))
        BY <1>1, <1>2
      <3>2. QED
        BY <3>1
    <2>2. \A x \in 1..Len(s) : Len(trace) + x \in 1..Len(trace') /\ trace'[Len(trace) + x] = s[x]
      BY <1>1, <1>2
    <2>3. Started(trace') \subseteq Started(trace) \cup {s[x].id : x \in 1..Len(s)}
      <3>1. SUFFICES ASSUME NEW i \in 1..Len(trace'), trace'[i].event = "start"
                     PROVE  trace'[i].id \in Started(trace) \cup {s[x].id : x \in 1..Len(s)}
        BY <1>5 DEF Started
      <3>2. CASE i \in 1..Len(trace)
        BY <1>3, <1>5, <3>1, <3>2 DEF Started
      <3>3. CASE \E x \in 1..Len(s) : i = Len(trace) + x
        BY <2>2, <3>3
      <3>4. QED
        BY <2>1, <3>2, <3>3
    <2>4. Started(trace) \subseteq Started(trace')
      BY <1>3, <1>5 DEF Started
    <2>5. \A x \in 1..Len(s) : s[x].id \in Started(trace')
      BY <1>5, <2>2 DEF Started
    <2>6. QED
      BY <2>3, <2>4, <2>5
  <1>14. QED
    BY <1>2, <1>3, <1>5, <1>6, <1>7, <1>9, <1>12, <1>13

\* The elements of a sequence.
LEMMA SeqElements ==
    ASSUME NEW T, NEW q \in Seq(T)
    PROVE  DOMAIN q = 1..Len(q) /\ Len(q) \in Nat /\ \A k \in 1..Len(q) : q[k] \in T
  OBVIOUS

\* A block closes: its call is the next that is ready.
LEMMA CloseStep ==
    ASSUME LoopInv, CloseCall
    PROVE  LoopInv'
  <1> DEFINE n == Len(finished)
             l == Len(blocks)
             b == blocks[l]
  <1>1. /\ loop = "stream" /\ wire = "anthropic" /\ l \in Unclosed
        /\ trace' = Append(trace, StartOf(Last(blocks))) /\ finished' = Append(finished, CallOf(Last(blocks)))
        /\ UNCHANGED <<wire, shortCircuit, loop, turn, history, blocks, results, versions, returned>>
    BY DEF CloseCall
  <1>2. /\ LoopTypeOK /\ TurnInv /\ TraceInv /\ VersionsInv /\ history \in Seq(Fields)
        /\ blocks \in Seq(BlockT) /\ finished \in Seq(CallT) /\ trace \in Seq(EventT) /\ turn \in Nat
    BY LoopTypes DEF LoopInv
  <1>3. Last(blocks) = b /\ b \in BlockT /\ b.id = <<turn, l>> /\ l \in DOMAIN blocks /\ n \in Nat /\ l \in Nat
    BY <1>1, <1>2 DEF TurnInv, Last, Unclosed
  <1>4. StartOf(b) \in EventT /\ StartOf(b).event = "start" /\ StartOf(b).id = b.id /\ CallOf(b) \in CallT /\ CallOf(b).id = b.id
    BY <1>3 DEF StartOf, CallOf, BlockT, CallT, EventT
  <1>u. \A i \in DOMAIN finished : finished[i].id # b.id
    BY <1>1 DEF Unclosed
  <1> HIDE DEF b
  <1>5. finished' \in Seq(CallT) /\ Len(finished') = n + 1 /\ finished'[n + 1].id = <<turn, l>>
        /\ (\A i \in 1..n : finished'[i] = finished[i]) /\ DOMAIN finished = 1..n /\ DOMAIN finished' = 1..n + 1
        /\ \A i \in 1..n + 1 : i \in 1..n \/ i = n + 1
    <2>1. finished' = Append(finished, CallOf(b)) /\ CallOf(b) \in CallT /\ CallOf(b).id = <<turn, l>>
      BY <1>1, <1>3, <1>4
    <2>2. finished' \in Seq(CallT) /\ Len(finished') = n + 1 /\ finished'[n + 1] = CallOf(b)
          /\ (\A i \in 1..n : finished'[i] = finished[i]) /\ DOMAIN finished = 1..n /\ DOMAIN finished' = 1..n + 1
      BY <1>2, <1>3, <2>1
    <2>3. \A i \in 1..n + 1 : i \in 1..n \/ i = n + 1
      BY <1>3
    <2>4. QED
      BY <2>1, <2>2, <2>3
  <1>6. trace' = trace \o <<StartOf(b)>> /\ <<StartOf(b)>> \in Seq(EventT)
    BY <1>1, <1>2, <1>3, <1>4
  <1>7. \A x \in 1..Len(<<StartOf(b)>>) : <<StartOf(b)>>[x].event = "start" /\ <<StartOf(b)>>[x].id[1] <= turn
    BY <1>2, <1>3, <1>4
  <1>8. /\ trace' \in Seq(EventT) /\ Results(trace)' = Results(trace) /\ Started(trace') = Started(trace) \cup {b.id}
        /\ \A i \in DOMAIN trace : trace'[i] = trace[i]
        /\ \A i \in DOMAIN trace' : trace'[i].id[1] <= turn /\ (trace'[i].event # "start" => i \in DOMAIN trace)
        /\ \A i, j \in Results(trace)' : trace'[i].id = trace'[j].id => i = j
        /\ VersionsInv'
    <2> DEFINE s == <<StartOf(b)>>
    <2>1. s \in Seq(EventT) /\ trace' = trace \o s /\ \A x \in 1..Len(s) : s[x].event = "start" /\ s[x].id[1] <= turn
      BY <1>6, <1>7
    <2>2. {s[x].id : x \in 1..Len(s)} = {b.id}
      <3>1. Len(s) = 1 /\ s[1].id = b.id
        BY <1>4
      <3>2. 1..Len(s) = {1}
        BY <3>1
      <3>3. QED
        BY <3>1, <3>2
    <2> HIDE DEF s
    <2>3. QED
      BY <1>1, <1>2, <2>1, <2>2, StartsAppended
  <1>9. LoopTypeOK'
    BY <1>1, <1>2, <1>5, <1>8, LoopTypes, LoopTypesNext DEF LoopTypeOK
  <1>10. \A i \in 1..n : \E k \in 1..l : finished[i].id = <<turn, k>> /\ k < l
    <2>1. SUFFICES ASSUME NEW i \in 1..n PROVE \E k \in 1..l : finished[i].id = <<turn, k>> /\ k < l
      OBVIOUS
    <2>2. PICK k \in 1..l : finished[i].id = <<turn, k>>
      BY <1>2, <1>5, SMTT(60) DEF TurnInv
    <2>3. k # l
      BY <1>3, <1>5, <1>u, <2>2
    <2>4. QED
      BY <1>3, <2>2, <2>3
  <1>11. TurnInv'
    <2>1. \A i \in DOMAIN finished' : finished'[i].id \in {<<turn, k>> : k \in 1..l}
      <3>1. finished'[n + 1].id \in {<<turn, k>> : k \in 1..l}
        BY <1>2, <1>3, <1>5
      <3>2. QED
        BY <1>5, <1>10, <3>1
    <2>2. \A i, j \in DOMAIN finished' : i < j => finished'[i].id[2] < finished'[j].id[2]
      <3>1. SUFFICES ASSUME NEW i \in DOMAIN finished', NEW j \in DOMAIN finished', i < j
                     PROVE  finished'[i].id[2] < finished'[j].id[2]
        OBVIOUS
      <3>2. CASE j = n + 1
        <4>1. i \in 1..n /\ finished'[i] = finished[i]
          BY <1>3, <1>5, <3>1, <3>2
        <4>2. QED
          BY <1>5, <1>10, <3>2, <4>1
      <3>3. CASE j \in 1..n
        <4>1. i \in 1..n /\ finished'[i] = finished[i] /\ finished'[j] = finished[j]
          BY <1>5, <3>1, <3>3
        <4>2. QED
          BY <1>1, <1>2, <1>5, <3>1, <3>3, <4>1 DEF TurnInv
      <3>4. QED
        BY <1>5, <3>2, <3>3
    <2>3. \A i, j \in DOMAIN finished' : finished'[i].id = finished'[j].id => i = j
      <3>1. \A i \in 1..n : finished'[i].id # finished'[n + 1].id
        BY <1>3, <1>5, <1>u
      <3>2. \A i, j \in 1..n : finished'[i].id = finished'[j].id => i = j
        BY <1>2, <1>5 DEF TurnInv
      <3>3. QED
        BY <1>5, <3>1, <3>2
    <2>4. results = <<>> /\ Len(results) = 0
      BY <1>1, <1>2 DEF TurnInv
    <2>5. QED
      BY <1>1, <1>2, <1>3, <1>5, <2>1, <2>2, <2>3, <2>4, SMTT(60) DEF TurnInv
  <1>12. TraceInv'
    <2>1. \A i \in Results(trace)' : i \in DOMAIN trace /\ trace'[i] = trace[i]
      BY <1>8 DEF Results
    <2>2. QED
      BY <1>1, <1>2, <1>8, <2>1 DEF TraceInv
  <1>13. KillInv'
    <2>1. \A i \in DOMAIN trace' : trace'[i].event = "kill" => i \in DOMAIN trace /\ trace[i].event = "kill"
      BY <1>8
    <2>2. QED
      BY <1>1, <2>1 DEF LoopInv, KillInv
  <1>14. CalledInv'
    <2>1. {finished'[j].id : j \in DOMAIN finished'} = {finished[j].id : j \in DOMAIN finished} \cup {b.id}
      <3>1. \A j \in 1..n : finished'[j].id = finished[j].id
        BY <1>5
      <3>2. finished'[n + 1].id = b.id /\ n + 1 \in 1..n + 1 /\ \A j \in 1..n : j \in 1..n + 1
        BY <1>3, <1>5
      <3>3. QED
        BY <1>5, <3>1, <3>2
    <2>2. {c \in Started(trace) : c[1] = turn} = {finished[j].id : j \in DOMAIN finished}
      BY <1>1 DEF LoopInv, CalledInv
    <2>3. b.id[1] = turn
      BY <1>3
    <2>4. {c \in Started(trace') : c[1] = turn} = {finished'[j].id : j \in DOMAIN finished'}
      BY <1>8, <2>1, <2>2, <2>3
    <2>5. QED
      BY <1>1, <2>4 DEF LoopInv, CalledInv
  <1>15. HistoryInv'
    <2>1. \A x \in DOMAIN history : \A k \in DOMAIN history[x].calls :
             history[x].calls[k] \in Started(trace) <=> history[x].calls[k] \in Started(trace')
      <3>1. \A x \in DOMAIN history : \A k \in DOMAIN history[x].calls : history[x].calls[k][1] < turn
        BY <1>1 DEF LoopInv, CalledInv
      <3>2. b.id[1] = turn
        BY <1>3
      <3>3. \A x \in DOMAIN history : \A k \in DOMAIN history[x].calls : history[x].calls[k] # b.id
        BY <1>2, <3>1, <3>2
      <3>4. QED
        BY <1>8, <3>3
    <2>2. Alternates(history, Started(trace))
      BY <1>1 DEF LoopInv, HistoryInv
    <2>3. Alternates(history, Started(trace'))
      BY <1>2, <2>1, <2>2, AlternatesKept
    <2>4. QED
      BY <1>1, <2>3 DEF HistoryInv
  <1>16. RolesInv' /\ FreshInv' /\ CandidateIsLastGoodWrite'
    BY <1>1, FreshKept DEF LoopInv, RolesInv, FreshInv, CandidateIsLastGoodWrite
  <1>17. QED
    BY <1>8, <1>9, <1>11, <1>12, <1>13, <1>14, <1>15, <1>16 DEF LoopInv

\* The history and the stop after a response, once what is ready is known.
LEMMA RouteStep ==
    ASSUME LoopInv, loop = "stream", NEW stop \in Stops, NEW c \in Seq(CallT), Route(c, stop), finished' = c,
           UNCHANGED <<wire, shortCircuit, turn, blocks, results, versions>>,
           trace' \in Seq(EventT),
           \A i \in DOMAIN c : c[i].id \in {<<turn, k>> : k \in 1..Len(blocks)},
           \A i, j \in DOMAIN c : c[i].id = c[j].id => i = j,
           wire = "anthropic" => UNCHANGED <<finished, trace>>,
           Started(trace) \subseteq Started(trace'), \A i \in DOMAIN c : c[i].id \in Started(trace'),
           Results(trace)' = Results(trace), \A i \in DOMAIN trace : trace'[i] = trace[i],
           \A i \in DOMAIN trace' : trace'[i].id[1] <= turn /\ (trace'[i].event # "start" => i \in DOMAIN trace),
           VersionsInv'
    PROVE  LoopInv'
  <1> DEFINE m == Message("assistant", [i \in DOMAIN c |-> c[i].id], <<>>)
  <1>1. LoopTypeOK /\ TurnInv /\ TraceInv /\ history \in Seq(Fields) /\ turn \in Nat
    BY LoopTypes DEF LoopInv
  <1>2. \/ c = <<>> /\ Return(stop) /\ UNCHANGED history
        \/ /\ c # <<>> /\ loop' = "dispatch" /\ UNCHANGED returned
           /\ wire = "anthropic" => history' = history
           /\ wire # "anthropic" => history' = Append(history, m)
    BY DEF Route
  <1>3. m \in Fields /\ m.role = "assistant" /\ m.replies = <<>> /\ m.calls = [i \in DOMAIN c |-> c[i].id]
    <2>0. DOMAIN c = 1..Len(c) /\ Len(c) \in Nat /\ \A i \in 1..Len(c) : c[i] \in CallT
      BY SeqElements
    <2>1. DOMAIN c = 1..Len(c) /\ Len(c) \in Nat /\ \A i \in 1..Len(c) : c[i].id \in Ids
      BY <2>0 DEF CallT
    <2>2. [i \in DOMAIN c |-> c[i].id] \in [1..Len(c) -> Ids]
      BY <2>1
    <2>3. [i \in DOMAIN c |-> c[i].id] \in Seq(Ids)
      BY <2>1, <2>2
    <2>4. QED
      BY <2>3 DEF Message, Fields
  <1>4. c # <<>> => m.calls # <<>>
    BY <1>3
  <1>5. history' \in Seq(Fields)
    <2>1. history' = history \/ history' = Append(history, m)
      BY <1>1, <1>2 DEF Wires
    <2> HIDE DEF m
    <2>2. QED
      BY <1>1, <1>3, <2>1, SMTT(60)
  <1>6. loop' \in {"returned", "dispatch"} /\ LoopTypeOK'
    <2>1. \/ loop' = "dispatch" /\ returned' = returned
          \/ /\ loop' = "returned"
             /\ returned' \in [stop : Stops \cup {"none", "max_iterations", "sandbox_error_propagated"},
                               calls : Nat, errors : Nat, candidate : Ids \cup {NoCall}]
      BY <1>1, <1>2, ReturnTypes
    <2>2. QED
      BY <1>1, <1>5, <2>1, LoopTypes, LoopTypesNext DEF LoopTypeOK
  <1>7. results = <<>> /\ Len(results) = 0
    BY <1>1 DEF TurnInv
  <1>8. TurnInv'
    <2>1. loop' = "dispatch" => turn >= 1 /\ c # <<>>
      BY <1>1, <1>2, <1>6 DEF TurnInv, Return
    <2>2. \A i \in DOMAIN blocks : blocks[i].id = <<turn, i>>
      BY <1>1 DEF TurnInv
    <2>3. Len(c) \in Nat
      OBVIOUS
    <2>4. wire = "anthropic" => \A i, j \in DOMAIN c : i < j => c[i].id[2] < c[j].id[2]
      BY <1>1 DEF TurnInv
    <2>5. QED
      BY <1>6, <1>7, <2>1, <2>2, <2>3, <2>4 DEF TurnInv
  <1>9. TraceInv'
    <2>1. \A i \in Results(trace)' : i \in Results(trace) /\ trace'[i] = trace[i] /\ trace[i].id[1] < turn
      BY <1>1 DEF TraceInv, Results
    <2>2. \A i \in DOMAIN trace : trace[i].id[1] \in Nat
      <3>0. trace \in Seq(EventT)
        BY <1>1, LoopTypes
      <3>a. \A i \in DOMAIN trace : trace[i] \in EventT
        BY <3>0, SeqElements
      <3>1. \A i \in DOMAIN trace : trace[i].id \in Ids
        BY <3>a DEF EventT
      <3>2. QED
        BY <3>1, LoopAssumption DEF Ids
    <2>3. \A i \in Results(trace)' : trace'[i].id[1] # turn
      BY <1>1, <2>1, <2>2 DEF Results
    <2>4. QED
      BY <1>1, <1>6, <2>1, <2>3 DEF TraceInv
  <1>10. KillInv'
    <2>1. \A i \in DOMAIN trace' : trace'[i].event = "kill" => i \in DOMAIN trace /\ trace[i].event = "kill"
      OBVIOUS
    <2>2. QED
      BY <2>1 DEF LoopInv, KillInv
  <1>11. CandidateIsLastGoodWrite'
    BY <1>6 DEF CandidateIsLastGoodWrite
  <1>12. CASE history' = history /\ (wire = "anthropic" \/ loop' = "returned")
    <2>1. RolesInv' /\ FreshInv'
      BY <1>12, FreshKept DEF LoopInv, RolesInv, FreshInv
    <2>2. wire = "anthropic" => Started(trace)' = Started(trace)
      BY StartedKept
    <2>3. HistoryInv'
      BY <1>6, <1>12, <2>2 DEF LoopInv, HistoryInv, Alternates
    <2>4. CalledInv'
      <3>1. CASE wire = "anthropic"
        BY <1>12, <2>2, <3>1, CalledKept DEF LoopInv
      <3>2. CASE wire # "anthropic"
        BY <1>12, <3>2 DEF LoopInv, CalledInv
      <3>3. QED
        BY <3>1, <3>2
    <2>5. QED
      BY <1>6, <1>8, <1>9, <1>10, <1>11, <2>1, <2>3, <2>4 DEF LoopInv
  <1>13. CASE history' = Append(history, m) /\ wire # "anthropic" /\ loop' = "dispatch" /\ c # <<>>
    <2> HIDE DEF m
    <2> DEFINE n == Len(history)
    <2>1. Len(history') = n + 1 /\ history'[n + 1] = m /\ n \in Nat /\ n >= 1 /\ (\A i \in 1..n : history'[i] = history[i])
          /\ DOMAIN history = 1..n /\ DOMAIN history' = 1..n + 1
      BY <1>1, <1>3, <1>13 DEF LoopInv, RolesInv
    <2>2. RolesInv'
      BY <1>3, <2>1 DEF LoopInv, RolesInv
    <2>3. Answers(history, n)
      BY <1>13 DEF LoopInv, HistoryInv
    <2>4. Answers(history', n)
      <3>1. \A i \in 1..n : \A k \in DOMAIN history[i].calls : i + k \in 1..n
        <4>0. \A i \in 1..n : history[i] \in Fields
          BY <1>1, SeqElements
        <4>1. \A i \in 1..n : history[i].calls \in Seq(Ids)
          BY <4>0 DEF Fields
        <4>2. \A i \in 1..n : DOMAIN history[i].calls = 1..Len(history[i].calls) /\ Len(history[i].calls) \in Nat
          BY <4>1, SeqElements
        <4>3. QED
          BY <2>1, <2>3, <4>2 DEF Answers
      <3>2. \A i \in 1..n : \A a \in 1..i - 1 : a \in 1..n
        BY <2>1
      <3>3. ASSUME NEW i \in 1..n
            PROVE  /\ \A k \in DOMAIN history'[i].calls :
                         /\ i + k <= n /\ history'[i + k].role = "tool" /\ Len(history'[i + k].replies) = 1
                         /\ history'[i + k].replies[1].id = history'[i].calls[k]
                   /\ history'[i].replies # <<>> => \E a \in 1..i - 1 : i <= a + Len(history'[a].calls)
        <4>1. history'[i] = history[i]
          BY <2>1
        <4>2. \A k \in DOMAIN history[i].calls : history'[i + k] = history[i + k]
          BY <2>1, <3>1
        <4>3. \A a \in 1..i - 1 : history'[a] = history[a]
          BY <2>1, <3>2
        <4>4. \A k \in DOMAIN history[i].calls :
                  /\ i + k <= n /\ history[i + k].role = "tool" /\ Len(history[i + k].replies) = 1
                  /\ history[i + k].replies[1].id = history[i].calls[k]
          BY <2>3 DEF Answers
        <4>5. history[i].replies # <<>> => \E a \in 1..i - 1 : i <= a + Len(history[a].calls)
          BY <2>3 DEF Answers
        <4>6. history'[i].replies # <<>> => \E a \in 1..i - 1 : i <= a + Len(history'[a].calls)
          BY <4>1, <4>3, <4>5
        <4>7. QED
          BY <4>1, <4>2, <4>4, <4>6
      <3>4. QED
        BY <3>3 DEF Answers
    <2>5. HistoryInv'
      <3>1. m = Message("assistant", [i \in DOMAIN c |-> c[i].id], <<>>)
        BY DEF m
      <3>2. QED
        BY <1>13, <2>1, <2>4, <3>1 DEF HistoryInv
    <2>6. FreshInv'
      <3>1. n + 1 \in Asked(history')
        BY <1>3, <1>4, <1>13, <2>1 DEF Asked
      <3>2. \A a \in Asked(history') : (\A i \in Asked(history') : i <= a) => a = n + 1
        BY <2>1, <3>1 DEF Asked
      <3>3. FreshAfter(history)'
        BY <2>1, <3>2 DEF FreshAfter
      <3>4. QED
        BY <3>3 DEF FreshInv
    <2>7. CalledInv'
      <3>1. \A k \in DOMAIN m.calls : m.calls[k] \in Started(trace')
        <4>1. m.calls = [i \in DOMAIN c |-> c[i].id]
          BY <1>3
        <4>2. QED
          BY <4>1
      <3>2. \A i \in 1..n : \A k \in DOMAIN history[i].calls : history[i].calls[k] \in Started(trace')
        BY <1>13, <2>1 DEF LoopInv, CalledInv
      <3>3. \A i \in 1..n + 1 : i \in 1..n \/ i = n + 1
        BY <2>1
      <3>4. QED
        BY <1>13, <2>1, <3>1, <3>2, <3>3 DEF CalledInv
    <2>8. QED
      BY <1>6, <1>8, <1>9, <1>10, <1>11, <2>2, <2>5, <2>6, <2>7 DEF LoopInv
  <1>14. QED
    BY <1>1, <1>2, <1>12, <1>13 DEF Return

\* A response ends.
LEMMA EndStep ==
    ASSUME LoopInv, NEW stop \in Stops, EndAnthropic(stop) \/ EndOpenAI(stop) \/ EndOllama(stop)
    PROVE  LoopInv'
  <1>1. /\ LoopTypeOK /\ TurnInv /\ TraceInv /\ VersionsInv /\ turn \in Nat
        /\ blocks \in Seq(BlockT) /\ finished \in Seq(CallT) /\ trace \in Seq(EventT)
    BY LoopTypes DEF LoopInv
  <1>2. CASE EndAnthropic(stop)
    <2>1. /\ loop = "stream" /\ Route(finished, stop)
          /\ UNCHANGED <<wire, shortCircuit, turn, blocks, finished, results, trace, versions>>
      BY <1>2 DEF EndAnthropic
    <2>2. VersionsInv'
      BY <1>1, <2>1, VersionsKept
    <2>3. \A i \in DOMAIN trace : trace[i].id[1] <= turn
      BY <1>1 DEF TraceInv
    <2>4. Results(trace)' = Results(trace)
      BY <2>1 DEF Results
    <2>5. /\ \A i \in DOMAIN finished : finished[i].id \in {<<turn, k>> : k \in 1..Len(blocks)}
          /\ \A i, j \in DOMAIN finished : finished[i].id = finished[j].id => i = j
      BY <1>1 DEF TurnInv
    <2>6. Started(trace) \subseteq Started(trace') /\ \A i \in DOMAIN finished : finished[i].id \in Started(trace')
      <3>1. wire = "anthropic" /\ Started(trace') = Started(trace)
        BY <1>2, <2>1 DEF EndAnthropic
      <3>2. {x \in Started(trace) : x[1] = turn} = {finished[j].id : j \in DOMAIN finished}
        BY <2>1, <3>1 DEF LoopInv, CalledInv
      <3>3. QED
        BY <3>1, <3>2
    <2>7. QED
      BY <1>1, <2>1, <2>2, <2>3, <2>4, <2>5, <2>6, RouteStep
  <1>3. ASSUME NEW s \in Seq(BlockT), loop = "stream", wire # "anthropic", trace' = trace \o Starts(s), finished' = Calls(s),
               Route(finished', stop), UNCHANGED <<wire, shortCircuit, turn, blocks, results, versions>>,
               \A x \in DOMAIN s : \E m \in DOMAIN blocks : s[x] = blocks[m],
               \A x, y \in DOMAIN s : s[x].id = s[y].id => x = y
        PROVE  LoopInv'
    <2>1. /\ Calls(s) \in Seq(CallT) /\ Len(Calls(s)) = Len(s)
          /\ \A x \in 1..Len(s) : Calls(s)[x].id = s[x].id
          /\ Starts(s) \in Seq(EventT) /\ Len(Starts(s)) = Len(s)
          /\ \A x \in 1..Len(s) : Starts(s)[x].id = s[x].id /\ Starts(s)[x].event = "start"
      BY <1>3, CallsOf
    <2>2. \A x \in 1..Len(s) : s[x].id \in {<<turn, k>> : k \in 1..Len(blocks)}
      <3>1. SUFFICES ASSUME NEW x \in 1..Len(s) PROVE s[x].id \in {<<turn, k>> : k \in 1..Len(blocks)}
        OBVIOUS
      <3>2. PICK m \in DOMAIN blocks : s[x] = blocks[m]
        BY <1>3
      <3>3. s[x].id = <<turn, m>> /\ m \in 1..Len(blocks)
        BY <1>1, <3>2 DEF TurnInv
      <3>4. QED
        BY <3>3
    <2>3. \A x \in 1..Len(Starts(s)) : Starts(s)[x].event = "start" /\ Starts(s)[x].id[1] <= turn
      BY <1>1, <2>1, <2>2
    <2>4. /\ trace' \in Seq(EventT) /\ Results(trace)' = Results(trace)
          /\ Started(trace') = Started(trace) \cup {Starts(s)[x].id : x \in 1..Len(Starts(s))}
          /\ \A i \in DOMAIN trace : trace'[i] = trace[i]
          /\ \A i \in DOMAIN trace' : trace'[i].id[1] <= turn /\ (trace'[i].event # "start" => i \in DOMAIN trace)
          /\ VersionsInv'
      BY <1>1, <1>3, <2>1, <2>3, StartsAppended
    <2>5. /\ \A i \in DOMAIN finished' : finished'[i].id \in {<<turn, k>> : k \in 1..Len(blocks)}
          /\ \A i \in DOMAIN finished' : finished'[i].id \in Started(trace')
          /\ \A i, j \in DOMAIN finished' : finished'[i].id = finished'[j].id => i = j
      <3>1. finished' = Calls(s) /\ DOMAIN finished' = 1..Len(s) /\ DOMAIN s = 1..Len(s)
        BY <1>3, <2>1, SeqElements
      <3>2. \A x \in 1..Len(s) : finished'[x].id = s[x].id
        BY <2>1, <3>1
      <3>3. \A x \in 1..Len(s) : s[x].id \in Started(trace')
        BY <2>1, <2>4
      <3>4. QED
        BY <1>3, <2>2, <3>1, <3>2, <3>3
    <2>6. finished' \in Seq(CallT)
      BY <1>3, <2>1
    <2>7. QED
      BY <1>3, <2>4, <2>5, <2>6, RouteStep
  <1>4. \A m, n \in DOMAIN blocks : blocks[m].id = blocks[n].id => m = n
    BY <1>1 DEF TurnInv
  <1>5. CASE EndOpenAI(stop)
    <2>1. /\ Whole(blocks) \in Seq(BlockT)
          /\ \A x \in DOMAIN Whole(blocks) : \E m \in DOMAIN blocks : Whole(blocks)[x] = blocks[m]
          /\ \A x, y \in DOMAIN Whole(blocks) : Whole(blocks)[x].id = Whole(blocks)[y].id => x = y
      BY <1>1, <1>4, WholeCalls
    <2>2. QED
      BY <1>3, <1>5, <2>1 DEF EndOpenAI
  <1>6. CASE EndOllama(stop)
    BY <1>1, <1>3, <1>4, <1>6 DEF EndOllama
  <1>7. QED
    BY <1>2, <1>5, <1>6

\* A rejected response: the synthetic pair keeps the roles alternating.
LEMMA RecoverStep ==
    ASSUME LoopInv, Recover
    PROVE  LoopInv'
  <1> DEFINE n == Len(history)
             a == Message("assistant", <<>>, <<>>)
             u == Message("user", <<>>, <<>>)
  <1>1. /\ loop = "stream" /\ wire = "anthropic" /\ history' = history \o <<a, u>> /\ loop' = "request"
        /\ UNCHANGED <<wire, shortCircuit, turn, blocks, finished, results, trace, versions, returned>>
    BY DEF Recover
  <1>2. LoopTypeOK /\ history \in Seq(Fields) /\ n \in Nat /\ n >= 1 /\ n % 2 = 1
    BY <1>1, LoopTypes DEF LoopInv, RolesInv, HistoryInv, Alternates
  <1>3. /\ a \in Fields /\ u \in Fields /\ a.role = "assistant" /\ u.role = "user"
        /\ a.calls = <<>> /\ u.calls = <<>> /\ a.replies = <<>> /\ u.replies = <<>>
    BY DEF Message, Fields
  <1> HIDE DEF a, u
  <1>4. /\ history' \in Seq(Fields) /\ Len(history') = n + 2 /\ history'[n + 1] = a /\ history'[n + 2] = u
        /\ \A i \in 1..n : history'[i] = history[i]
    <2>1. <<a, u>> \in Seq(Fields) /\ Len(<<a, u>>) = 2 /\ <<a, u>>[1] = a /\ <<a, u>>[2] = u
      BY <1>3
    <2>2. QED
      BY <1>1, <1>2, <2>1
  <1>5. DOMAIN history = 1..n /\ DOMAIN history' = 1..n + 2 /\ \A i \in 1..n + 2 : i \in 1..n \/ i = n + 1 \/ i = n + 2
    BY <1>2, <1>4
  <1>6. LoopTypeOK'
    BY <1>1, <1>2, <1>4, LoopTypes, LoopTypesNext DEF LoopTypeOK
  <1>7. TurnInv' /\ TraceInv' /\ VersionsInv'
    BY <1>1, TurnKept, TraceKept, VersionsKept DEF LoopInv
  <1>8. KillInv' /\ CandidateIsLastGoodWrite'
    BY <1>1 DEF LoopInv, KillInv, CandidateIsLastGoodWrite
  <1>9. RolesInv'
    BY <1>2, <1>3, <1>4, <1>5 DEF LoopInv, RolesInv
  <1>10. HistoryInv' /\ CalledInv'
    <2>1. Alternates(history, Started(trace))
      BY <1>1 DEF LoopInv, HistoryInv
    <2>2. Answered(a.calls, u.replies, Started(trace))
      BY <1>3 DEF Answered
    <2>3. Alternates(history', Started(trace))
      BY <1>1, <1>2, <1>3, <2>1, <2>2, AlternatesExtended
    <2>4. Started(trace)' = Started(trace)
      BY <1>1, StartedKept
    <2>5. HistoryInv'
      BY <1>1, <2>3, <2>4 DEF HistoryInv
    <2>6. \A i \in DOMAIN history' : \A k \in DOMAIN history'[i].calls : history'[i].calls[k][1] <= turn
      <3>1. \A i \in 1..n : \A k \in DOMAIN history[i].calls : history[i].calls[k][1] <= turn
        BY <1>1, <1>5 DEF LoopInv, CalledInv
      <3>2. \A i \in {n + 1, n + 2} : DOMAIN history'[i].calls = {}
        BY <1>3, <1>4
      <3>3. QED
        BY <1>4, <1>5, <3>1, <3>2
    <2>7. CalledInv'
      BY <1>1, <2>6 DEF CalledInv
    <2>8. QED
      BY <2>5, <2>7
  <1>11. FreshInv'
    <2>1. FreshAfter(history)
      BY <1>1 DEF LoopInv, FreshInv
    <2>2. Asked(history') = Asked(history)
      BY <1>3, <1>4, <1>5 DEF Asked
    <2>3. \A i \in 1..n : i \in 1..n + 2 /\ history'[i] = history[i]
      BY <1>2, <1>4
    <2>4. FreshAfter(history)'
      <3>1. SUFFICES ASSUME NEW c \in Asked(history'), \A i \in Asked(history') : i <= c,
                            wire = "anthropic" \/ Len(history'[c].calls) <= KeepLastK,
                            NEW i \in DOMAIN history', i > c, NEW k \in DOMAIN history'[i].replies
                     PROVE  ~history'[i].replies[k].archived
        BY <1>1 DEF FreshAfter
      <3>2. c \in 1..n /\ history'[c] = history[c] /\ c \in Asked(history)
        BY <2>2, <2>3, <3>1, <1>5 DEF Asked
      <3>3. CASE i \in 1..n
        BY <1>5, <2>1, <2>2, <2>3, <3>1, <3>2, <3>3 DEF FreshAfter
      <3>4. CASE i \in {n + 1, n + 2}
        <4>1. DOMAIN history'[i].replies = {}
          BY <1>3, <1>4, <3>4
        <4>2. QED
          BY <3>1, <4>1
      <3>5. QED
        BY <1>5, <3>3, <3>4
    <2>5. QED
      BY <2>4 DEF FreshInv
  <1>12. QED
    BY <1>6, <1>7, <1>8, <1>9, <1>10, <1>11 DEF LoopInv

\* The choice of the version that goes to the gate.
LEMMA ConcludeStep ==
    ASSUME LoopInv, Conclude
    PROVE  LoopInv'
  <1> DEFINE P == {i \in DOMAIN trace : trace[i].name = "write_skill" /\ trace[i].event = "ok"}
             g == CHOOSE i \in P : \A j \in P : j <= i
  <1>1. /\ loop = "returned" /\ returned' = [returned EXCEPT !.candidate = LatestWrite]
        /\ loop' = IF returned.stop = "end_turn" /\ LatestWrite # NoCall THEN "gated" ELSE "skipped"
        /\ UNCHANGED <<wire, shortCircuit, turn, history, blocks, finished, results, trace, versions>>
    BY DEF Conclude
  <1>2. LoopTypeOK /\ trace \in Seq(EventT) /\ TraceInv /\ VersionsInv /\ KillInv
    BY LoopTypes DEF LoopInv
  <1>3. DOMAIN trace = 1..Len(trace) /\ Len(trace) \in Nat /\ \A i \in DOMAIN trace : trace[i] \in EventT
    BY <1>2, SeqElements
  <1>4. P # {} => g \in P /\ \A j \in P : j <= g
    <2>1. P \in SUBSET (1..Len(trace))
      BY <1>3
    <2> HIDE DEF P
    <2>2. QED
      BY <1>3, <2>1, GreatestOf
  <1>5. LatestWrite = IF P = {} THEN NoCall ELSE trace[g].id
    BY DEF LatestWrite
  <1>6. LatestWrite \in Ids \cup {NoCall}
    BY <1>3, <1>4, <1>5 DEF EventT
  <1> HIDE DEF g
  <1>7. returned' \in [stop : Stops \cup {"none", "max_iterations", "sandbox_error_propagated"},
                       calls : Nat, errors : Nat, candidate : Ids \cup {NoCall}]
        /\ returned'.candidate = LatestWrite
    BY <1>1, <1>2, <1>6 DEF LoopTypeOK
  <1>8. LoopTypeOK'
    BY <1>1, <1>2, <1>7, LoopTypes, LoopTypesNext DEF LoopTypeOK
  <1>9. TurnInv' /\ TraceInv' /\ VersionsInv'
    BY <1>1, TurnKept, TraceKept, VersionsKept DEF LoopInv
  <1>10. KillInv'
    BY <1>1, <1>2 DEF KillInv
  <1>11. CalledInv' /\ RolesInv' /\ HistoryInv' /\ FreshInv'
    <2>1. CalledInv' /\ Started(trace)' = Started(trace)
      BY <1>1, CalledKept, StartedKept DEF LoopInv
    <2>2. QED
      BY <1>1, <2>1 DEF LoopInv, RolesInv, HistoryInv, Alternates, FreshInv
  <1>12. CandidateIsLastGoodWrite'
    <2>1. CASE loop' = "gated"
      <3>1. P # {} /\ returned.stop = "end_turn" /\ LatestWrite = trace[g].id /\ g \in P
        BY <1>1, <1>4, <1>5, <2>1
      <3>2. g \in DOMAIN trace /\ Write(g) /\ g \in Results(trace) /\ trace[g].event = "ok"
        BY <3>1 DEF Write, Results
      <3>3. PICK v \in DOMAIN versions : versions[v] = trace[g].id
        BY <1>2, <3>2 DEF VersionsInv
      <3>4. ASSUME NEW i \in DOMAIN trace, trace[i].id = versions[v], trace[i].event # "start" PROVE trace[i].event = "ok"
        <4>1. i \in Results(trace)
          BY <3>4 DEF Results
        <4>2. i = g
          BY <1>2, <3>2, <3>3, <3>4, <4>1 DEF TraceInv
        <4>3. QED
          BY <3>2, <4>2
      <3>5. ASSUME NEW w \in DOMAIN versions, w > v
            PROVE  \E i \in DOMAIN trace : trace[i].id = versions[w] /\ trace[i].event = "invalid"
        <4>1. PICK i \in DOMAIN trace : trace[i].id = versions[w] /\ Write(i)
          BY <1>2 DEF VersionsInv
        <4>2. i \in Results(trace)
          BY <4>1 DEF Write, Results
        <4>3. versions \in Seq(Ids)
          BY <1>2, LoopTypes
        <4>4. v < w
          BY <3>5, <4>3, SeqElements
        <4>5. g < i
          BY <1>2, <3>2, <3>3, <4>1, <4>2, <4>4 DEF VersionsInv
        <4>6. i \notin P
          BY <1>3, <1>4, <3>1, <4>5
        <4>7. QED
          BY <4>1, <4>6 DEF Write
      <3>6. shortCircuit => \A i \in DOMAIN trace : trace[i].event # "kill"
        BY <1>1, <1>2, <3>1 DEF KillInv
      <3>7. versions[v] = returned'.candidate
        BY <1>7, <3>1, <3>3
      <3>8. \A i \in DOMAIN trace : trace[i].id = versions[v] => trace[i].event \in {"start", "ok"}
        BY <3>4
      <3>9. QED
        BY <1>1, <3>5, <3>6, <3>7, <3>8 DEF CandidateIsLastGoodWrite
    <2>2. CASE loop' # "gated"
      BY <2>2 DEF CandidateIsLastGoodWrite
    <2>3. QED
      BY <2>1, <2>2
  <1>13. QED
    BY <1>8, <1>9, <1>10, <1>11, <1>12 DEF LoopInv

\* A call is dispatched: its one result.
LEMMA DispatchStep ==
    ASSUME LoopInv, NEW outcome \in {"ok", "invalid", "error", "kill"}, Dispatch(outcome)
    PROVE  LoopInv'
  <1>n. PICK n \in Nat : n = Len(results) + 1
    BY LoopTypes DEF LoopInv
  <1>t. PICK t \in Nat : t = Len(trace) + 1
    BY LoopTypes DEF LoopInv
  <1> DEFINE call == finished[n]
             ev == [event |-> outcome, id |-> call.id, name |-> call.name]
             r == [id |-> call.id, outcome |-> outcome]
  <1>1. /\ loop = "dispatch" /\ Len(results) < Len(finished) /\ outcome \in Outcomes[call.name]
        /\ results' = Append(results, r) /\ trace' = Append(trace, ev)
        /\ versions' = IF call.name = "write_skill" /\ outcome \in {"ok", "invalid"} THEN Append(versions, call.id) ELSE versions
        /\ UNCHANGED <<wire, shortCircuit, loop, turn, history, blocks, finished, returned>>
    BY <1>n DEF Dispatch
  <1>2. /\ LoopTypeOK /\ TurnInv /\ TraceInv /\ VersionsInv /\ turn \in Nat /\ results \in Seq(ResultT)
        /\ finished \in Seq(CallT) /\ trace \in Seq(EventT) /\ versions \in Seq(Ids)
    BY LoopTypes DEF LoopInv
  <1>3. /\ n \in 1..Len(finished) /\ DOMAIN finished = 1..Len(finished) /\ t \in Nat /\ n \in Nat /\ t >= 1
        /\ DOMAIN trace = 1..Len(trace) /\ DOMAIN results = 1..Len(results) /\ DOMAIN versions = 1..Len(versions)
    BY <1>1, <1>2, <1>n, <1>t, SeqElements
  <1>4. call \in CallT
    BY <1>2, <1>3, SeqElements
  <1>5. ev \in EventT /\ r \in ResultT /\ call.id \in Ids /\ call.name \in Tools
    BY <1>4 DEF CallT, EventT, ResultT
  <1>6. PICK k0 \in 1..Len(blocks) : call.id = <<turn, k0>>
    <2>1. \A i \in DOMAIN finished : finished[i].id \in {<<turn, k>> : k \in 1..Len(blocks)}
      BY <1>2 DEF TurnInv
    <2>2. finished[n].id \in {<<turn, k>> : k \in 1..Len(blocks)}
      BY <1>3, <2>1
    <2>3. QED
      BY <2>2
  <1>7. ev.event = outcome /\ ev.id = call.id /\ ev.name = call.name /\ r.id = call.id /\ r.outcome = outcome /\ ev.id[1] = turn
    BY <1>6
  <1> HIDE DEF ev, r, call
  <1>8. trace' \in Seq(EventT) /\ Len(trace') = t /\ trace'[t] = ev /\ DOMAIN trace' = 1..t
        /\ \A i \in 1..t - 1 : trace'[i] = trace[i]
    BY <1>1, <1>2, <1>5, <1>t
  <1>9. results' \in Seq(ResultT) /\ Len(results') = n /\ results'[n] = r /\ DOMAIN results' = 1..n
        /\ \A i \in 1..n - 1 : results'[i] = results[i]
    BY <1>1, <1>2, <1>5, <1>n
  <1>10. versions' \in Seq(Ids)
    BY <1>1, <1>2, <1>5
  <1>s. DOMAIN trace = 1..t - 1 /\ DOMAIN results = 1..n - 1 /\ (\A i \in 1..t : i \in 1..t - 1 \/ i = t)
        /\ \A i \in 1..n : i \in 1..n - 1 \/ i = n
    BY <1>3, <1>n, <1>t
  <1>11. \A i \in Results(trace) : i \in 1..t - 1 /\ trace[i].id # call.id
    <2>1. SUFFICES ASSUME NEW i \in Results(trace), trace[i].id = call.id PROVE FALSE
      BY <1>3, <1>s DEF Results
    <2>2. trace[i].id[1] = turn
      BY <1>6, <2>1
    <2>3. PICK k \in DOMAIN results : trace[i].id = results[k].id
      BY <1>1, <1>2, <2>1, <2>2 DEF TraceInv
    <2>4. results[k].id = finished[k].id /\ k \in 1..Len(finished) /\ k # n
      BY <1>2, <1>3, <1>s, <2>3 DEF TurnInv
    <2>5. finished[k].id = finished[n].id
      BY <2>1, <2>3, <2>4 DEF call
    <2>6. QED
      BY <1>2, <1>3, <2>4, <2>5 DEF TurnInv
  <1>12. Results(trace)' = Results(trace) \cup {t}
    BY <1>1, <1>3, <1>7, <1>8, <1>s DEF Results
  <1>13. t \notin Results(trace) /\ \A i \in Results(trace) : trace'[i] = trace[i]
    BY <1>8, <1>11
  <1>14. LoopTypeOK'
    BY <1>1, <1>2, <1>8, <1>9, <1>10, LoopTypes, LoopTypesNext DEF LoopTypeOK
  <1>15. TurnInv'
    <2>1. \A i \in DOMAIN results' : results'[i].id = finished[i].id
      <3>1. \A i \in DOMAIN results : results[i].id = finished[i].id
        BY <1>2 DEF TurnInv
      <3>2. results'[n].id = finished[n].id
        BY <1>7, <1>9 DEF call
      <3>3. QED
        BY <1>9, <1>s, <3>1, <3>2
    <2>2. n <= Len(finished) /\ Len(results') <= Len(finished)
      BY <1>3, <1>9
    <2>3. loop # "stream" /\ UNCHANGED <<wire, loop, turn, blocks, finished>>
      BY <1>1
    <2>4. QED
      BY <1>2, <2>1, <2>2, <2>3 DEF TurnInv
  <1>16. TraceInv'
    <2>1. \A i \in DOMAIN trace' : trace'[i].id[1] <= turn
      <3>1. \A i \in DOMAIN trace : trace[i].id[1] <= turn
        BY <1>2 DEF TraceInv
      <3>2. trace'[t].id[1] <= turn
        BY <1>2, <1>7, <1>8
      <3>3. QED
        BY <1>8, <1>s, <3>1, <3>2
    <2>2. \A i, j \in Results(trace)' : trace'[i].id = trace'[j].id => i = j
      <3>1. \A i, j \in Results(trace) : trace[i].id = trace[j].id => i = j
        BY <1>2 DEF TraceInv
      <3>2. trace'[t].id = call.id
        BY <1>7, <1>8
      <3>3. \A i \in Results(trace) : trace'[i].id # call.id /\ trace'[i].id = trace[i].id
        BY <1>11, <1>13
      <3>4. QED
        BY <1>12, <3>1, <3>2, <3>3
    <2>3. ASSUME NEW i \in Results(trace)', trace'[i].id[1] = turn PROVE \E k \in DOMAIN results' : trace'[i].id = results'[k].id
      <3>1. CASE i = t
        <4>1. n \in DOMAIN results' /\ results'[n].id = call.id /\ trace'[t].id = call.id
          BY <1>3, <1>7, <1>8, <1>9
        <4>2. QED
          BY <3>1, <4>1
      <3>2. CASE i \in Results(trace)
        <4>1. PICK k \in DOMAIN results : trace[i].id = results[k].id
          BY <1>1, <1>2, <1>13, <2>3, <3>2 DEF TraceInv
        <4>2. k \in DOMAIN results' /\ results'[k] = results[k]
          BY <1>3, <1>9, <1>s, <4>1
        <4>3. QED
          BY <1>13, <3>2, <4>1, <4>2
      <3>3. QED
        BY <1>12, <2>3, <3>1, <3>2
    <2>4. QED
      BY <1>1, <2>1, <2>2, <2>3 DEF TraceInv
  <1>17. \A i \in DOMAIN trace' : Write(i)' <=> (i \in DOMAIN trace /\ Write(i)) \/ (i = t /\ call.name = "write_skill" /\ outcome \in {"ok", "invalid"})
    <2>1. \A i \in 1..t - 1 : Write(i)' <=> Write(i)
      BY <1>8 DEF Write
    <2>2. Write(t)' <=> call.name = "write_skill" /\ outcome \in {"ok", "invalid"}
      BY <1>7, <1>8 DEF Write
    <2>3. QED
      BY <1>3, <1>8, <1>s, <2>1, <2>2
  <1>18. \A i \in DOMAIN trace : Write(i) => i \in Results(trace)
    BY DEF Write, Results
  <1>19. \A v \in DOMAIN versions : versions[v] # call.id
    <2>1. SUFFICES ASSUME NEW v \in DOMAIN versions, versions[v] = call.id PROVE FALSE
      OBVIOUS
    <2>2. PICK i \in DOMAIN trace : trace[i].id = versions[v] /\ Write(i)
      BY <1>2 DEF VersionsInv
    <2>3. QED
      BY <1>11, <1>18, <2>1, <2>2
  <1>20. VersionsInv'
    <2>1. \A v \in DOMAIN versions : \E i \in DOMAIN trace' : trace'[i].id = versions[v] /\ Write(i)'
      <3>1. SUFFICES ASSUME NEW v \in DOMAIN versions PROVE \E i \in DOMAIN trace' : trace'[i].id = versions[v] /\ Write(i)'
        OBVIOUS
      <3>2. PICK i \in DOMAIN trace : trace[i].id = versions[v] /\ Write(i)
        BY <1>2 DEF VersionsInv
      <3>3. i \in DOMAIN trace' /\ trace'[i] = trace[i] /\ Write(i)'
        BY <1>3, <1>8, <1>17, <1>s, <3>2
      <3>4. QED
        BY <3>2, <3>3
    <2>2. \A v, w \in DOMAIN versions : \A i, j \in Results(trace)' :
             v < w /\ trace'[i].id = versions[v] /\ trace'[j].id = versions[w] => i < j
      <3>1. SUFFICES ASSUME NEW v \in DOMAIN versions, NEW w \in DOMAIN versions, NEW i \in Results(trace)', NEW j \in Results(trace)',
                            v < w, trace'[i].id = versions[v], trace'[j].id = versions[w]
                     PROVE  i < j
        OBVIOUS
      <3>2. i # t /\ j # t
        BY <1>7, <1>8, <1>19, <3>1
      <3>3. i \in Results(trace) /\ j \in Results(trace)
        BY <1>12, <3>1, <3>2
      <3>4. QED
        BY <1>2, <1>13, <3>1, <3>3 DEF VersionsInv
    <2>3. CASE call.name = "write_skill" /\ outcome \in {"ok", "invalid"}
      <3> DEFINE m == Len(versions) + 1
      <3>1. /\ versions' = Append(versions, call.id) /\ Len(versions') = m /\ versions'[m] = call.id /\ DOMAIN versions' = 1..m
            /\ (\A v \in 1..m - 1 : versions'[v] = versions[v]) /\ m \in Nat /\ m >= 1 /\ DOMAIN versions = 1..m - 1
        BY <1>1, <1>2, <1>3, <1>5, <2>3
      <3>2. \A v \in 1..m : v = m \/ v \in 1..m - 1
        BY <3>1
      <3>3. \A v \in DOMAIN versions' : \E i \in DOMAIN trace' : trace'[i].id = versions'[v] /\ Write(i)'
        <4>1. t \in DOMAIN trace' /\ trace'[t].id = versions'[m] /\ Write(t)'
          <5>1. t \in DOMAIN trace' /\ trace'[t].id = call.id
            BY <1>3, <1>7, <1>8
          <5>2. Write(t)'
            BY <1>17, <2>3, <5>1
          <5>3. versions'[m] = call.id
            BY <3>1
          <5>4. QED
            BY <5>1, <5>2, <5>3
        <4>2. \A v \in 1..m - 1 : \E i \in DOMAIN trace' : trace'[i].id = versions'[v] /\ Write(i)'
          BY <2>1, <3>1
        <4>3. QED
          BY <3>1, <3>2, <4>1, <4>2
      <3>4. \A i \in DOMAIN trace' : Write(i)' => \E v \in DOMAIN versions' : versions'[v] = trace'[i].id
        <4>1. SUFFICES ASSUME NEW i \in DOMAIN trace', Write(i)' PROVE \E v \in DOMAIN versions' : versions'[v] = trace'[i].id
          OBVIOUS
        <4>2. CASE i = t
          BY <1>7, <1>8, <3>1, <4>2
        <4>3. CASE i \in DOMAIN trace /\ Write(i)
          <5>1. PICK v \in DOMAIN versions : versions[v] = trace[i].id
            BY <1>2, <4>3 DEF VersionsInv
          <5>2. v \in DOMAIN versions' /\ versions'[v] = versions[v] /\ trace'[i] = trace[i]
            BY <1>3, <1>8, <1>s, <3>1, <4>3, <5>1
          <5>3. QED
            BY <5>1, <5>2
        <4>4. QED
          BY <1>17, <4>1, <4>2, <4>3
      <3>5. \A v, w \in DOMAIN versions' : \A i, j \in Results(trace)' :
               v < w /\ trace'[i].id = versions'[v] /\ trace'[j].id = versions'[w] => i < j
        <4>1. SUFFICES ASSUME NEW v \in DOMAIN versions', NEW w \in DOMAIN versions', NEW i \in Results(trace)', NEW j \in Results(trace)',
                              v < w, trace'[i].id = versions'[v], trace'[j].id = versions'[w]
                       PROVE  i < j
          OBVIOUS
        <4>2. v \in DOMAIN versions /\ versions'[v] = versions[v]
          BY <3>1, <4>1
        <4>3. i \in Results(trace)
          BY <1>7, <1>8, <1>12, <1>19, <4>1, <4>2
        <4>4. CASE w = m
          <5>1. j = t
            BY <1>11, <1>12, <1>13, <3>1, <4>1, <4>4
          <5>2. QED
            <6>1. i \in 1..t - 1
              BY <1>11, <4>3
            <6>2. QED
              BY <1>3, <5>1, <6>1
        <4>5. CASE w \in 1..m - 1
          BY <2>2, <3>1, <4>1, <4>2, <4>5
        <4>6. QED
          BY <3>1, <3>2, <4>4, <4>5
      <3>6. QED
        BY <3>3, <3>4, <3>5 DEF VersionsInv
    <2>4. CASE ~(call.name = "write_skill" /\ outcome \in {"ok", "invalid"})
      <3>1. versions' = versions
        BY <1>1, <2>4
      <3>2. \A i \in DOMAIN trace' : Write(i)' => i \in DOMAIN trace /\ Write(i) /\ trace'[i] = trace[i]
        BY <1>3, <1>8, <1>17, <1>s, <2>4
      <3>3. \A i \in DOMAIN trace' : Write(i)' => \E v \in DOMAIN versions : versions[v] = trace'[i].id
        BY <1>2, <3>2 DEF VersionsInv
      <3>4. QED
        BY <2>1, <2>2, <3>1, <3>3 DEF VersionsInv
    <2>5. QED
      BY <2>3, <2>4
  <1>21. KillInv'
    <2>1. SUFFICES ASSUME shortCircuit, NEW i \in DOMAIN trace', trace'[i].event = "kill"
                   PROVE  SandboxKill'
      BY <1>1 DEF KillInv
    <2>2. CASE i = t
      <3>1. n \in DOMAIN results' /\ results'[n].outcome = "kill"
        BY <1>3, <1>7, <1>8, <1>9, <2>1, <2>2
      <3>2. QED
        BY <3>1 DEF SandboxKill
    <2>3. CASE i \in 1..t - 1
      <3>1. SandboxKill
        BY <1>1, <1>3, <1>8, <1>s, <2>1, <2>3 DEF LoopInv, KillInv
      <3>2. PICK k \in DOMAIN results : results[k].outcome = "kill"
        BY <3>1 DEF SandboxKill
      <3>3. k \in DOMAIN results' /\ results'[k] = results[k]
        BY <1>3, <1>9, <1>s, <3>2
      <3>4. QED
        BY <3>2, <3>3 DEF SandboxKill
    <2>4. QED
      BY <1>3, <1>8, <1>s, <2>1, <2>2, <2>3
  <1>22. CalledInv' /\ RolesInv' /\ HistoryInv' /\ FreshInv'
    <2>1. Started(trace') = Started(trace)
      <3>1. trace'[t].event # "start"
        BY <1>7, <1>8
      <3>2. \A i \in 1..t - 1 : i \in 1..t /\ trace'[i] = trace[i]
        BY <1>3, <1>8
      <3>3. QED
        BY <1>8, <1>s, <3>1, <3>2 DEF Started
    <2>2. CalledInv'
      BY <1>1, <2>1, CalledKept DEF LoopInv
    <2>3. QED
      BY <1>1, <2>1, <2>2, FreshKept DEF LoopInv, RolesInv, HistoryInv, Alternates, Answers, FreshInv
  <1>23. CandidateIsLastGoodWrite'
    BY <1>1 DEF CandidateIsLastGoodWrite
  <1>24. QED
    BY <1>14, <1>15, <1>16, <1>20, <1>21, <1>22, <1>23 DEF LoopInv

\* An answered history stays one where roles, calls and the ids of replies stay.
LEMMA AnswersKept ==
    ASSUME NEW h \in Seq(Fields), NEW g \in Seq(Fields), NEW n \in 0..Len(h), n <= Len(g), Answers(h, n),
           \A x \in 1..n : /\ g[x].role = h[x].role /\ g[x].calls = h[x].calls /\ Len(g[x].replies) = Len(h[x].replies)
                           /\ \A k \in DOMAIN h[x].replies : g[x].replies[k].id = h[x].replies[k].id
    PROVE  Answers(g, n)
  <1>1. \A x \in 1..n : h[x] \in Fields /\ g[x] \in Fields
    <2>1. \A x \in 1..n : x \in 1..Len(h) /\ x \in 1..Len(g)
      OBVIOUS
    <2>2. QED
      BY <2>1, SeqElements
  <1>2. \A m \in Fields : m.replies \in Seq([id : Ids, archived : BOOLEAN]) /\ m.calls \in Seq(Ids)
    BY DEF Fields
  <1>3. SUFFICES ASSUME NEW x \in 1..n
        PROVE  /\ \A k \in DOMAIN g[x].calls :
                     /\ x + k <= n /\ g[x + k].role = "tool" /\ Len(g[x + k].replies) = 1
                     /\ g[x + k].replies[1].id = g[x].calls[k]
               /\ g[x].replies # <<>> => \E a \in 1..x - 1 : x <= a + Len(g[a].calls)
    BY DEF Answers
  <1>4. g[x].calls = h[x].calls /\ h[x].calls \in Seq(Ids)
    BY <1>1, <1>2
  <1>5. ASSUME NEW k \in DOMAIN g[x].calls
        PROVE  /\ x + k <= n /\ g[x + k].role = "tool" /\ Len(g[x + k].replies) = 1
               /\ g[x + k].replies[1].id = g[x].calls[k]
    <2>1. k \in 1..Len(h[x].calls)
      BY <1>4, <1>5, SeqElements
    <2>2. /\ x + k <= n /\ h[x + k].role = "tool" /\ Len(h[x + k].replies) = 1
          /\ h[x + k].replies[1].id = h[x].calls[k]
      BY <1>4, <1>5 DEF Answers
    <2>3. x + k \in 1..n
      BY <2>1, <2>2
    <2>4. h[x + k].replies \in Seq([id : Ids, archived : BOOLEAN])
      BY <1>1, <1>2, <2>3
    <2>5. 1 \in DOMAIN h[x + k].replies
      BY <2>2, <2>4
    <2>6. QED
      BY <1>4, <2>2, <2>3, <2>5
  <1>6. g[x].replies # <<>> => \E a \in 1..x - 1 : x <= a + Len(g[a].calls)
    <2>1. g[x].replies # <<>> => h[x].replies # <<>>
      <3>1. g[x].replies \in Seq([id : Ids, archived : BOOLEAN]) /\ Len(g[x].replies) = Len(h[x].replies)
        BY <1>1, <1>2
      <3>2. QED
        BY <3>1
    <2>2. \A a \in 1..x - 1 : a \in 1..n
      OBVIOUS
    <2>3. h[x].replies # <<>> => \E a \in 1..x - 1 : x <= a + Len(h[a].calls)
      BY DEF Answers
    <2>4. QED
      BY <2>1, <2>2, <2>3
  <1>7. QED
    BY <1>5, <1>6

\* The size of an interval.
LEMMA IntervalSize ==
    ASSUME NEW lo \in Int, NEW hi \in Int, NEW k \in Nat, hi < lo + k
    PROVE  IsFiniteSet(lo..hi) /\ Cardinality(lo..hi) \in Nat /\ Cardinality(lo..hi) <= k
  <1>1. IsFiniteSet(lo..hi) /\ Cardinality(lo..hi) = IF lo > hi THEN 0 ELSE hi - lo + 1
    BY FS_Interval
  <1>2. QED
    BY <1>1

\* A request: compaction keeps the answers and the latest results.
LEMMA RequestStep ==
    ASSUME LoopInv, Request
    PROVE  LoopInv'
  <1> DEFINE h == history
             g == Compact(h)
  <1>1. /\ loop = "request" /\ turn < MaxTurns /\ turn' = turn + 1 /\ history' = g /\ loop' = "stream"
        /\ blocks' = <<>> /\ finished' = <<>> /\ results' = <<>>
        /\ UNCHANGED <<wire, shortCircuit, trace, versions, returned>>
    BY DEF Request
  <1>2. LoopTypeOK /\ h \in Seq(Fields) /\ turn \in Nat /\ MaxTurns \in Nat /\ wire \in Wires /\ trace \in Seq(EventT)
    BY LoopTypes, LoopAssumption DEF LoopInv
  <1>3. DOMAIN h = 1..Len(h) /\ Len(h) \in Nat /\ Len(h) >= 1 /\ \A x \in 1..Len(h) : h[x] \in Fields
    BY <1>2, SeqElements DEF LoopInv, RolesInv
  <1>4. /\ g \in Seq(Fields) /\ Len(g) = Len(h)
        /\ \A x \in DOMAIN h : /\ g[x].role = h[x].role /\ g[x].calls = h[x].calls /\ Len(g[x].replies) = Len(h[x].replies)
                               /\ \A k \in DOMAIN h[x].replies : g[x].replies[k].id = h[x].replies[k].id
                               /\ x \notin ToArchive(h) => g[x] = h[x]
    BY <1>2, CompactKeeps
  <1>5. DOMAIN g = DOMAIN h
    BY <1>3, <1>4, SeqElements
  <1> HIDE DEF g
  <1>6. \A x \in DOMAIN h : h[x].replies = <<>> => g[x] = h[x]
    BY <1>4 DEF ToArchive, ResultPositions
  <1>7. \A x \in DOMAIN h : g[x].replies # <<>> => h[x].replies # <<>>
    BY <1>6
  <1>8. LoopTypeOK'
    <2>1. /\ history' \in Seq(Fields) /\ blocks' \in Seq(BlockT) /\ finished' \in Seq(CallT) /\ results' \in Seq(ResultT)
          /\ turn' \in 0..MaxTurns
      BY <1>1, <1>2, <1>4
    <2>2. QED
      BY <1>1, <1>2, <2>1, LoopTypes, LoopTypesNext DEF LoopTypeOK
  <1>9. TurnInv'
    BY <1>1, <1>2 DEF TurnInv
  <1>10. TraceInv'
    <2>1. \A i \in DOMAIN trace : trace[i].id[1] \in Nat
      <3>1. \A i \in DOMAIN trace : trace[i] \in EventT
        BY <1>2, SeqElements
      <3>2. \A i \in DOMAIN trace : trace[i].id \in Ids
        BY <3>1 DEF EventT
      <3>3. QED
        BY <3>2, LoopAssumption DEF Ids
    <2>2. \A i \in DOMAIN trace : trace[i].id[1] <= turn
      BY DEF LoopInv, TraceInv
    <2>3. \A i \in DOMAIN trace : trace[i].id[1] < turn + 1 /\ trace[i].id[1] <= turn + 1
      BY <1>2, <2>1, <2>2
    <2>4. \A i \in Results(trace) : i \in DOMAIN trace
      BY DEF Results
    <2>5. \A i, j \in Results(trace) : trace[i].id = trace[j].id => i = j
      BY DEF LoopInv, TraceInv
    <2>6. Results(trace)' = Results(trace)
      BY <1>1 DEF Results
    <2>7. QED
      BY <1>1, <2>3, <2>4, <2>5, <2>6 DEF TraceInv
  <1>11. VersionsInv' /\ KillInv' /\ CandidateIsLastGoodWrite'
    BY <1>1, VersionsKept DEF LoopInv, KillInv, CandidateIsLastGoodWrite
  <1>12. RolesInv'
    <2>1. 1 \in DOMAIN h /\ h[1] = Kickoff /\ Kickoff.replies = <<>>
      BY <1>3 DEF LoopInv, RolesInv, Kickoff, Message
    <2>2. g[1] = Kickoff
      BY <1>6, <2>1
    <2>3. \A i \in DOMAIN h : /\ h[i].calls # <<>> => h[i].role = "assistant"
                              /\ h[i].replies # <<>> => h[i].role # "assistant"
      BY DEF LoopInv, RolesInv
    <2>4. QED
      BY <1>1, <1>3, <1>4, <1>5, <1>7, <2>2, <2>3 DEF RolesInv
  <1>13. HistoryInv'
    <2>1. CASE wire = "anthropic"
      <3>1. Alternates(h, Started(trace)) /\ Started(trace)' = Started(trace)
        BY <1>1, <2>1, StartedKept DEF LoopInv, HistoryInv
      <3>2. Alternates(g, Started(trace))
        <4> HIDE DEF h
        <4> QED BY <1>2, <1>4, <3>1, AlternatesKept
      <3>3. QED
        BY <1>1, <2>1, <3>1, <3>2 DEF HistoryInv
    <2>2. CASE wire # "anthropic"
      <3>1. Answers(h, Len(h))
        BY <1>1, <2>2 DEF LoopInv, HistoryInv
      <3>2. Answers(g, Len(h))
        <4>1. Len(h) \in 0..Len(h) /\ Len(h) <= Len(g)
          BY <1>3, <1>4
        <4>2. \A x \in 1..Len(h) : /\ g[x].role = h[x].role /\ g[x].calls = h[x].calls /\ Len(g[x].replies) = Len(h[x].replies)
                                   /\ \A k \in DOMAIN h[x].replies : g[x].replies[k].id = h[x].replies[k].id
          BY <1>3, <1>4
        <4>3. h \in Seq(Fields) /\ g \in Seq(Fields)
          BY <1>2, <1>4
        <4> HIDE DEF h
        <4>4. QED
          BY <3>1, <4>1, <4>2, <4>3, AnswersKept
      <3>3. QED
        BY <1>1, <1>4, <2>2, <3>2 DEF HistoryInv
    <2>3. QED
      BY <2>1, <2>2
  <1>14. FreshInv'
    <2>1. Asked(g) = Asked(h)
      BY <1>4, <1>5 DEF Asked
    <2>2. SUFFICES ASSUME NEW a \in Asked(h), \A i \in Asked(h) : i <= a,
                          wire = "anthropic" \/ Len(h[a].calls) <= KeepLastK,
                          NEW i \in DOMAIN h, i > a
                   PROVE  g[i] = h[i]
      <3>1. ASSUME NEW a \in Asked(g), \A i \in Asked(g) : i <= a,
                   wire = "anthropic" \/ Len(g[a].calls) <= KeepLastK,
                   NEW i \in DOMAIN g, i > a, NEW k \in DOMAIN g[i].replies
            PROVE  ~g[i].replies[k].archived
        <4>1. a \in Asked(h) /\ (\A x \in Asked(h) : x <= a) /\ (wire = "anthropic" \/ Len(h[a].calls) <= KeepLastK) /\ i \in DOMAIN h
          BY <1>4, <1>5, <2>1, <3>1 DEF Asked
        <4>2. g[i] = h[i]
          BY <2>2, <3>1, <4>1
        <4>3. FreshAfter(h)
          BY <1>1 DEF LoopInv, FreshInv
        <4>4. QED
          BY <3>1, <4>1, <4>2, <4>3 DEF FreshAfter
      <3>2. FreshAfter(history)'
        BY <1>1, <3>1 DEF FreshAfter
      <3>3. QED
        BY <3>2 DEF FreshInv
    <2>3. CASE h[i].replies = <<>>
      BY <1>6, <2>3
    <2>4. CASE h[i].replies # <<>>
      <3> DEFINE L == {j \in ResultPositions(h) : j > i}
      <3>1. a \in 1..Len(h) /\ i \in 1..Len(h) /\ h[a].role = "assistant" /\ h[a].calls # <<>>
        BY <1>3, <2>2 DEF Asked, LoopInv, RolesInv
      <3>2. \A x \in 1..Len(h) : h[x].calls \in Seq(Ids) /\ h[x].replies \in Seq([id : Ids, archived : BOOLEAN])
        BY <1>3 DEF Fields
      <3>3. CASE wire = "anthropic"
        <4>1. Alternates(h, Started(trace))
          BY <3>3 DEF LoopInv, HistoryInv
        <4>2. \A x \in 1..Len(h) : h[x].replies # <<>> => x - 1 \in Asked(h) \/ x = 1
          <5>1. SUFFICES ASSUME NEW x \in 1..Len(h), h[x].replies # <<>>, x # 1 PROVE x - 1 \in Asked(h)
            OBVIOUS
          <5>2. h[x].role # "assistant"
            BY <1>3, <5>1 DEF LoopInv, RolesInv
          <5>3. x % 2 = 1
            BY <1>3, <4>1, <5>1, <5>2 DEF Alternates
          <5>4. x - 1 \in 1..Len(h) /\ (x - 1) % 2 # 1
            BY <1>3, <5>1, <5>3
          <5>5. h[x - 1].role = "assistant"
            BY <1>3, <4>1, <5>4 DEF Alternates
          <5>6. Answered(h[x - 1].calls, h[x - 1 + 1].replies, Started(trace))
            BY <1>3, <4>1, <5>4, <5>5 DEF Alternates
          <5>7. x - 1 + 1 = x /\ 1 \in DOMAIN h[x].replies
            BY <3>2, <5>1
          <5>8. h[x - 1].calls # <<>>
            <6>1. h[x].replies[1].id \in {h[x - 1].calls[k] : k \in DOMAIN h[x - 1].calls}
              BY <5>6, <5>7 DEF Answered
            <6>2. DOMAIN h[x - 1].calls # {}
              BY <6>1
            <6>3. QED
              BY <6>2
          <5>9. QED
            BY <1>3, <5>4, <5>8 DEF Asked
        <4>3. \A x \in 1..Len(h) : h[x].replies # <<>> => x <= a + 1
          BY <2>2, <3>1, <4>2
        <4>4. L = {}
          BY <1>3, <2>2, <3>1, <4>3 DEF ResultPositions
        <4>5. i \notin ToArchive(h)
          BY <4>4, FS_EmptySet, LoopAssumption DEF ToArchive
        <4>6. QED
          BY <1>4, <4>5
      <3>4. CASE wire # "anthropic"
        <4> DEFINE m == Len(h[a].calls)
        <4>1. Answers(h, Len(h)) /\ m <= KeepLastK /\ m \in Nat /\ KeepLastK \in Nat /\ KeepLastK >= 1
          BY <1>1, <2>2, <3>1, <3>2, <3>4, LoopAssumption DEF LoopInv, HistoryInv
        <4>2. \A x \in 1..Len(h) : h[x].replies # <<>> /\ x > a => x <= a + m
          <5>1. SUFFICES ASSUME NEW x \in 1..Len(h), h[x].replies # <<>>, x > a PROVE x <= a + m
            OBVIOUS
          <5>2. PICK c \in 1..x - 1 : x <= c + Len(h[c].calls)
            BY <4>1, <5>1 DEF Answers
          <5>3. c \in 1..Len(h) /\ Len(h[c].calls) \in Nat
            BY <1>3, <3>2, <5>2
          <5>4. h[c].calls # <<>>
            BY <5>2, <5>3, <3>2
          <5>5. c \in Asked(h) /\ c <= a
            BY <1>3, <2>2, <5>3, <5>4 DEF Asked
          <5>6. CASE c = a
            BY <5>2, <5>6
          <5>7. CASE c < a
            <6>1. a - c \in DOMAIN h[c].calls
              <7>1. a - c \in 1..Len(h[c].calls)
                BY <3>1, <5>1, <5>2, <5>3, <5>7
              <7>2. QED
                BY <3>2, <5>3, <7>1, SeqElements
            <6>2. h[c + (a - c)].role = "tool"
              BY <4>1, <5>3, <6>1 DEF Answers
            <6>3. c + (a - c) = a
              BY <3>1, <5>3
            <6>4. QED
              BY <3>1, <6>2, <6>3
          <5>8. QED
            BY <3>1, <5>3, <5>5, <5>6, <5>7
        <4>3. L \subseteq (i + 1)..(a + m)
          BY <1>3, <2>2, <3>1, <4>2 DEF ResultPositions
        <4>4. i <= a + m
          BY <2>2, <2>4, <3>1, <4>2
        <4>5. Cardinality((i + 1)..(a + m)) < KeepLastK /\ IsFiniteSet((i + 1)..(a + m)) /\ Cardinality((i + 1)..(a + m)) \in Nat
          <5>1. i + 1 \in Int /\ a + m \in Int /\ i \in Nat /\ a \in Nat
            BY <3>1, <4>1
          <5>2. KeepLastK - 1 \in Nat /\ a + m < i + 1 + (KeepLastK - 1)
            BY <2>2, <4>1, <5>1
          <5>3. /\ IsFiniteSet((i + 1)..(a + m)) /\ Cardinality((i + 1)..(a + m)) \in Nat
                /\ Cardinality((i + 1)..(a + m)) <= KeepLastK - 1
            <6> HIDE DEF m
            <6> QED BY <5>1, <5>2, IntervalSize
          <5>4. QED
            BY <4>1, <5>3
        <4>6. Cardinality(L) <= Cardinality((i + 1)..(a + m)) /\ IsFiniteSet(L)
          BY <4>3, <4>5, FS_Subset
        <4>7. Cardinality(L) \in Nat
          BY <4>6, FS_CardinalityType
        <4>8. ~(Cardinality(L) >= KeepLastK)
          BY <4>1, <4>5, <4>6, <4>7
        <4>9. i \notin ToArchive(h)
          BY <4>8 DEF ToArchive
        <4>10. QED
          BY <1>4, <4>9
      <3>5. QED
        BY <3>3, <3>4
    <2>5. QED
      BY <2>3, <2>4
  <1>15. CalledInv'
    <2>1. Started(trace)' = Started(trace)
      BY <1>1, StartedKept
    <2>2. \A i \in DOMAIN g : g[i].calls = h[i].calls
      BY <1>4, <1>5
    <2>3. ASSUME wire = "anthropic", NEW i \in DOMAIN g, NEW k \in DOMAIN g[i].calls
          PROVE  g[i].calls[k][1] < turn + 1 /\ g[i].calls[k][1] <= turn + 1
      <3>1. i \in DOMAIN h /\ k \in DOMAIN h[i].calls /\ g[i].calls[k] = h[i].calls[k]
        BY <1>5, <2>2, <2>3
      <3>2. h[i].calls[k][1] <= turn
        BY <2>3, <3>1 DEF LoopInv, CalledInv
      <3>3. h[i].calls[k] \in Ids
        <4>1. h[i] \in Fields
          BY <1>3, <3>1
        <4>2. h[i].calls \in Seq(Ids)
          BY <4>1 DEF Fields
        <4>3. QED
          BY <3>1, <4>2
      <3>4. h[i].calls[k][1] \in Nat
        BY <3>3, LoopAssumption DEF Ids
      <3>5. QED
        BY <1>2, <3>1, <3>2, <3>4
    <2>4. {c \in Started(trace) : c[1] = turn + 1} = {}
      <3>1. \A i \in DOMAIN trace : trace[i] \in EventT
        BY <1>2, SeqElements
      <3>2. \A i \in DOMAIN trace : trace[i].id[1] \in Nat /\ trace[i].id[1] <= turn
        BY <3>1, LoopAssumption DEF LoopInv, TraceInv, EventT, Ids
      <3>3. \A i \in DOMAIN trace : trace[i].id[1] # turn + 1
        BY <1>2, <3>2
      <3>4. QED
        BY <3>3 DEF Started
    <2>5. {finished'[j].id : j \in DOMAIN finished'} = {}
      BY <1>1
    <2>6. wire # "anthropic" => \A i \in DOMAIN g : \A k \in DOMAIN g[i].calls : g[i].calls[k] \in Started(trace)
      BY <1>5, <2>2 DEF LoopInv, CalledInv
    <2>7. QED
      BY <1>1, <2>1, <2>3, <2>4, <2>5, <2>6 DEF CalledInv
  <1>16. QED
    BY <1>8, <1>9, <1>10, <1>11, <1>12, <1>13, <1>14, <1>15 DEF LoopInv

\* A turn ends: every call of it is answered right behind it.
LEMMA EndTurnStep ==
    ASSUME LoopInv, EndTurn
    PROVE  LoopInv'
  <1> DEFINE h == history
             ids == [i \in DOMAIN finished |-> finished[i].id]
             kill == shortCircuit /\ SandboxKill
  <1>1. /\ loop = "dispatch" /\ Len(results) = Len(finished)
        /\ UNCHANGED <<wire, shortCircuit, turn, blocks, finished, results, trace, versions>>
        /\ IF kill THEN loop' = "returned" /\ UNCHANGED history
                   ELSE loop' = "request" /\ history' = history \o TurnMessages
        /\ returned' = [returned EXCEPT
              !.calls = @ + Len(results),
              !.errors = @ + Cardinality({i \in DOMAIN results : results[i].outcome # "ok"}),
              !.stop = IF kill THEN "sandbox_error_propagated" ELSE @]
    BY DEF EndTurn
  <1>2. LoopTypeOK /\ h \in Seq(Fields) /\ blocks \in Seq(BlockT) /\ finished \in Seq(CallT) /\ results \in Seq(ResultT)
        /\ wire \in Wires /\ turn \in Nat
    BY LoopTypes DEF LoopInv
  <1>st. Started(trace)' = Started(trace)
    BY <1>1, StartedKept
  <1>n. PICK n \in Nat : n = Len(h)
    BY <1>2
  <1>r. PICK r \in Nat : r = Len(results)
    BY <1>2
  <1>3. /\ DOMAIN results = 1..r /\ DOMAIN finished = 1..r /\ Len(finished) = r
        /\ (\A k \in 1..r : results[k].id \in Ids /\ finished[k].id \in Ids /\ results[k].id = finished[k].id) /\ r # 0
    <2>1. (\A k \in 1..r : results[k] \in ResultT /\ finished[k] \in CallT) /\ DOMAIN results = 1..r /\ DOMAIN finished = 1..r
      BY <1>1, <1>2, <1>r, SeqElements
    <2>2. \A k \in 1..r : results[k].id = finished[k].id
      BY <2>1 DEF LoopInv, TurnInv
    <2>3. finished # <<>>
      BY <1>1 DEF LoopInv, TurnInv
    <2>4. r # 0
      BY <1>1, <1>2, <1>r, <2>3
    <2>5. QED
      BY <1>1, <1>r, <2>1, <2>2, <2>4 DEF ResultT, CallT
  <1>4. DOMAIN h = 1..n /\ n >= 1 /\ \A x \in 1..n : h[x] \in Fields
    BY <1>2, <1>n, SeqElements DEF LoopInv, RolesInv
  <1>5. returned' \in [stop : Stops \cup {"none", "max_iterations", "sandbox_error_propagated"},
                       calls : Nat, errors : Nat, candidate : Ids \cup {NoCall}]
    <2>1. Cardinality({i \in DOMAIN results : results[i].outcome # "ok"}) \in Nat
      <3>1. {i \in 1..r : results[i].outcome # "ok"} \subseteq 1..r /\ IsFiniteSet(1..r)
        BY FS_Interval
      <3>2. IsFiniteSet({i \in 1..r : results[i].outcome # "ok"})
        BY <3>1, FS_Subset
      <3>3. Cardinality({i \in 1..r : results[i].outcome # "ok"}) \in Nat
        BY <3>2, FS_CardinalityType
      <3>4. QED
        BY <1>3, <3>3
    <2> DEFINE c == Cardinality({i \in DOMAIN results : results[i].outcome # "ok"})
    <2>2. c \in Nat
      BY <2>1
    <2> HIDE DEF c
    <2>3. returned' = [returned EXCEPT !.calls = @ + Len(results), !.errors = @ + c,
                                       !.stop = IF kill THEN "sandbox_error_propagated" ELSE @]
      BY <1>1 DEF c
    <2>4. returned \in [stop : Stops \cup {"none", "max_iterations", "sandbox_error_propagated"},
                        calls : Nat, errors : Nat, candidate : Ids \cup {NoCall}]
      BY <1>2 DEF LoopTypeOK
    <2> HIDE DEF kill
    <2>5. PICK s \in Stops \cup {"none", "max_iterations", "sandbox_error_propagated"} :
             returned' = [returned EXCEPT !.calls = @ + Len(results), !.errors = @ + c, !.stop = s]
      <3>1. CASE kill
        BY <2>3, <3>1
      <3>2. CASE ~kill
        <4>1. returned' = [returned EXCEPT !.calls = @ + Len(results), !.errors = @ + c, !.stop = returned.stop]
          BY <2>3, <3>2
        <4>2. returned.stop \in Stops \cup {"none", "max_iterations", "sandbox_error_propagated"}
          BY <2>4
        <4>3. QED
          BY <4>1, <4>2
      <3>3. QED
        BY <3>1, <3>2
    <2>6. returned.calls \in Nat /\ returned.errors \in Nat /\ returned.candidate \in Ids \cup {NoCall}
          /\ DOMAIN returned = {"stop", "calls", "errors", "candidate"}
      BY <2>4
    <2>7. returned' = [stop |-> s, calls |-> returned.calls + r, errors |-> returned.errors + c, candidate |-> returned.candidate]
      BY <1>r, <2>4, <2>5
    <2>8. returned.calls + r \in Nat /\ returned.errors + c \in Nat
      BY <1>r, <2>2, <2>6
    <2>9. QED
      BY <2>5, <2>6, <2>7, <2>8
  <1>6. kill => returned'.stop = "sandbox_error_propagated"
    <2>1. "stop" \in DOMAIN returned
      BY <1>2 DEF LoopTypeOK
    <2>2. QED
      BY <1>1, <2>1
  <1> HIDE DEF kill
  <1>7. loop' \in {"request", "returned"}
    BY <1>1
  <1>8. TurnInv' /\ TraceInv' /\ VersionsInv'
    BY <1>1, <1>7, TurnKept, TraceKept, VersionsKept DEF LoopInv
  <1>9. KillInv'
    <2>1. shortCircuit /\ (\E i \in DOMAIN trace : trace[i].event = "kill") => kill
      BY <1>1 DEF LoopInv, KillInv, kill
    <2>2. QED
      BY <1>1, <1>6, <2>1 DEF KillInv
  <1>10. CandidateIsLastGoodWrite'
    BY <1>7 DEF CandidateIsLastGoodWrite
  <1>11. CASE kill
    <2>1. CalledInv'
      BY <1>1, <1>11, <1>st, CalledKept DEF LoopInv
    <2>a. RolesInv' /\ HistoryInv' /\ FreshInv'
      BY <1>1, <1>11, <1>st DEF LoopInv, RolesInv, HistoryInv, Alternates, FreshInv
    <2>2. LoopTypeOK'
      BY <1>1, <1>2, <1>5, <1>11, LoopTypes, LoopTypesNext DEF LoopTypeOK
    <2>3. QED
      BY <1>8, <1>9, <1>10, <2>1, <2>a, <2>2 DEF LoopInv
  <1>12. CASE ~kill /\ wire = "anthropic"
    <2> DEFINE reps == [i \in DOMAIN results |-> ReplyOf(results[i])]
               all == [i \in DOMAIN blocks |-> blocks[i].id]
               a == Message("assistant", all, <<>>)
               u == Message("user", <<>>, reps)
    <2>1. history' = h \o <<a, u>> /\ loop' = "request"
      BY <1>1, <1>12 DEF TurnMessages
    <2>2. reps \in Seq([id : Ids, archived : BOOLEAN]) /\ Len(reps) = r /\ DOMAIN reps = 1..r
          /\ \A k \in 1..r : reps[k].id = finished[k].id /\ reps[k].archived = FALSE
      <3>1. \A k \in 1..r : reps[k] \in [id : Ids, archived : BOOLEAN] /\ reps[k].id = finished[k].id /\ reps[k].archived = FALSE
        BY <1>3 DEF ReplyOf
      <3>2. reps \in [1..r -> [id : Ids, archived : BOOLEAN]]
        BY <1>3, <3>1
      <3>3. reps \in Seq([id : Ids, archived : BOOLEAN]) /\ Len(reps) = r /\ DOMAIN reps = 1..r
        BY <3>2
      <3>4. QED
        BY <3>1, <3>3
    <2>3. all \in Seq(Ids) /\ DOMAIN all = DOMAIN blocks /\ (\A k \in DOMAIN blocks : all[k] = <<turn, k>>)
          /\ DOMAIN blocks = 1..Len(blocks) /\ all # <<>>
      <3>1. DOMAIN blocks = 1..Len(blocks) /\ Len(blocks) \in Nat /\ \A k \in 1..Len(blocks) : blocks[k] \in BlockT
        BY <1>2, SeqElements
      <3>2. \A k \in 1..Len(blocks) : blocks[k].id \in Ids /\ blocks[k].id = <<turn, k>>
        BY <3>1 DEF BlockT, LoopInv, TurnInv
      <3>3. all \in [1..Len(blocks) -> Ids]
        BY <3>1, <3>2
      <3>4. all \in Seq(Ids) /\ DOMAIN all = 1..Len(blocks)
        BY <3>1, <3>3
      <3>5. PICK k \in 1..Len(blocks) : finished[1].id = <<turn, k>>
        BY <1>3 DEF LoopInv, TurnInv
      <3>6. DOMAIN all # {}
        BY <3>4, <3>5
      <3>7. all # <<>>
        BY <3>6
      <3>8. QED
        BY <3>1, <3>2, <3>4, <3>7
    <2>c. Answered(all, reps, Started(trace))
      <3>1. {x \in Started(trace) : x[1] = turn} = {finished[j].id : j \in 1..r}
        BY <1>1, <1>3, <1>12 DEF LoopInv, CalledInv
      <3>2. {reps[j].id : j \in DOMAIN reps} = {finished[j].id : j \in 1..r}
        BY <2>2
      <3>3. \A j \in 1..r : finished[j].id \in {<<turn, k>> : k \in 1..Len(blocks)}
        BY <1>3 DEF LoopInv, TurnInv
      <3>4. {all[k] : k \in DOMAIN all} = {<<turn, k>> : k \in 1..Len(blocks)}
        BY <2>3
      <3>5. \A x \in {<<turn, k>> : k \in 1..Len(blocks)} : x[1] = turn
        OBVIOUS
      <3>6. {reps[j].id : j \in DOMAIN reps} = {all[k] : k \in DOMAIN all} \cap Started(trace)
        <4> HIDE DEF all, reps
        <4> QED BY <3>1, <3>2, <3>3, <3>4, <3>5
      <3>7. \A j, k \in 1..r : j < k => finished[j].id[2] < finished[k].id[2]
        BY <1>3, <1>12 DEF LoopInv, TurnInv
      <3>8. \A j, k \in DOMAIN reps : j < k => reps[j].id[2] < reps[k].id[2]
        BY <2>2, <3>7
      <3>9. QED
        BY <3>6, <3>8 DEF Answered
    <2> HIDE DEF reps, all
    <2>4. /\ a \in Fields /\ u \in Fields /\ a.role = "assistant" /\ u.role = "user"
          /\ a.calls = all /\ u.calls = <<>> /\ a.replies = <<>> /\ u.replies = reps
      BY <2>2, <2>3 DEF Message, Fields
    <2> HIDE DEF a, u
    <2>5. /\ history' \in Seq(Fields) /\ Len(history') = n + 2 /\ history'[n + 1] = a /\ history'[n + 2] = u
          /\ \A i \in 1..n : history'[i] = history[i]
      <3>1. <<a, u>> \in Seq(Fields) /\ Len(<<a, u>>) = 2 /\ <<a, u>>[1] = a /\ <<a, u>>[2] = u
        BY <2>4
      <3>2. QED
        BY <1>2, <1>n, <2>1, <3>1
    <2>6. DOMAIN history' = 1..n + 2 /\ \A i \in 1..n + 2 : i \in 1..n \/ i = n + 1 \/ i = n + 2
      BY <2>5
    <2>7. LoopTypeOK'
      BY <1>1, <1>2, <1>5, <2>1, <2>5, LoopTypes, LoopTypesNext DEF LoopTypeOK
    <2>8. RolesInv'
      BY <1>4, <2>4, <2>5, <2>6 DEF LoopInv, RolesInv
    <2>9. Alternates(h, Started(trace))
      BY <1>12 DEF LoopInv, HistoryInv
    <2>10. Alternates(history', Started(trace))
      <3> HIDE DEF h
      <3> QED BY <1>2, <2>1, <2>4, <2>9, <2>c, AlternatesExtended
    <2>11. HistoryInv'
      BY <1>1, <1>12, <1>st, <2>10 DEF HistoryInv
    <2>12. CalledInv'
      <3>1. \A i \in 1..n : \A k \in DOMAIN history[i].calls : history[i].calls[k][1] <= turn
        BY <1>4, <1>12 DEF LoopInv, CalledInv
      <3>2. \A k \in DOMAIN a.calls : a.calls[k][1] <= turn
        BY <1>2, <2>3, <2>4
      <3>3. \A i \in DOMAIN history' : \A k \in DOMAIN history'[i].calls : history'[i].calls[k][1] <= turn
        <4>1. DOMAIN u.calls = {}
          BY <2>4
        <4>2. QED
          BY <2>5, <2>6, <3>1, <3>2, <4>1
      <3>4. QED
        BY <1>1, <1>12, <2>1, <3>3 DEF CalledInv
    <2>13. FreshAfter(history)'
      <3>1. n + 1 \in Asked(history')
        <4>1. n + 1 \in DOMAIN history'
          BY <2>6
        <4>2. QED
          BY <2>3, <2>4, <2>5, <4>1 DEF Asked
      <3>2. SUFFICES ASSUME NEW c \in Asked(history'), \A i \in Asked(history') : i <= c,
                            NEW i \in DOMAIN history', i > c, NEW k \in DOMAIN history'[i].replies
                     PROVE  ~history'[i].replies[k].archived
        BY DEF FreshAfter
      <3>3. n + 1 <= c /\ c \in 1..n + 2
        BY <2>6, <3>1, <3>2 DEF Asked
      <3>4. i = n + 2
        BY <2>6, <3>2, <3>3
      <3>5. QED
        BY <2>2, <2>4, <2>5, <3>2, <3>4
    <2>14. FreshInv'
      BY <2>13 DEF FreshInv
    <2>15. QED
      BY <1>8, <1>9, <1>10, <2>7, <2>8, <2>11, <2>12, <2>14 DEF LoopInv
  <1>13. CASE ~kill /\ wire # "anthropic"
    <2> DEFINE ms == [i \in DOMAIN results |-> Message("tool", <<>>, <<ReplyOf(results[i])>>)]
    <2>1. history' = h \o ms /\ loop' = "request"
      BY <1>1, <1>13 DEF TurnMessages
    <2>2. \A k \in 1..r : LET m == Message("tool", <<>>, <<ReplyOf(results[k])>>) IN
              /\ m \in Fields /\ m.role = "tool" /\ m.calls = <<>> /\ Len(m.replies) = 1 /\ m.replies # <<>> /\ DOMAIN m.replies = {1}
              /\ m.replies[1].id = finished[k].id /\ m.replies[1].archived = FALSE
      <3>1. SUFFICES ASSUME NEW k \in 1..r
                     PROVE  LET m == Message("tool", <<>>, <<ReplyOf(results[k])>>) IN
                            /\ m \in Fields /\ m.role = "tool" /\ m.calls = <<>> /\ Len(m.replies) = 1 /\ m.replies # <<>>
                            /\ DOMAIN m.replies = {1} /\ m.replies[1].id = finished[k].id /\ m.replies[1].archived = FALSE
        OBVIOUS
      <3> DEFINE x == ReplyOf(results[k])
      <3>2. x \in [id : Ids, archived : BOOLEAN] /\ x.id = finished[k].id /\ x.archived = FALSE
        BY <1>3 DEF ReplyOf
      <3> HIDE DEF x
      <3>3. <<x>> \in Seq([id : Ids, archived : BOOLEAN]) /\ Len(<<x>>) = 1 /\ <<x>>[1] = x /\ DOMAIN <<x>> = {1} /\ <<x>> # <<>>
        BY <3>2
      <3> DEFINE m == Message("tool", <<>>, <<x>>)
      <3>4. m \in Fields /\ m.role = "tool" /\ m.calls = <<>> /\ m.replies = <<x>>
        BY <3>3 DEF Message, Fields
      <3> HIDE DEF m
      <3>5. m \in Fields /\ m.role = "tool" /\ m.calls = <<>> /\ Len(m.replies) = 1 /\ m.replies # <<>>
            /\ DOMAIN m.replies = {1} /\ m.replies[1].id = finished[k].id /\ m.replies[1].archived = FALSE
        BY <3>2, <3>3, <3>4
      <3>6. QED
        BY <3>5 DEF m, x
    <2>3. \A k \in 1..r : ms[k] = Message("tool", <<>>, <<ReplyOf(results[k])>>)
      BY <1>3
    <2>4. \A k \in 1..r : /\ ms[k] \in Fields /\ ms[k].role = "tool" /\ ms[k].calls = <<>> /\ Len(ms[k].replies) = 1
                          /\ ms[k].replies # <<>> /\ DOMAIN ms[k].replies = {1}
                          /\ ms[k].replies[1].id = finished[k].id /\ ms[k].replies[1].archived = FALSE
      BY <2>2, <2>3
    <2>5. ms \in Seq(Fields) /\ Len(ms) = r
      <3>1. DOMAIN ms = 1..r
        BY <1>3
      <3>2. ms \in [1..r -> Fields]
        BY <1>3, <2>4
      <3>3. QED
        BY <3>1, <3>2
    <2> HIDE DEF ms
    <2>6. /\ history' \in Seq(Fields) /\ Len(history') = n + r /\ (\A k \in 1..r : history'[n + k] = ms[k])
          /\ (\A i \in 1..n : history'[i] = history[i]) /\ DOMAIN history' = 1..n + r
      <3>1. h \in Seq(Fields) /\ Len(h) = n /\ ms \in Seq(Fields) /\ Len(ms) = r /\ history' = h \o ms
        BY <1>2, <1>n, <2>1, <2>5
      <3> HIDE DEF h
      <3>2. h \o ms \in Seq(Fields) /\ Len(h \o ms) = n + r
        BY <3>1
      <3>3. \A i \in 1..n : (h \o ms)[i] = h[i]
        BY <3>1
      <3>4. \A k \in 1..r : (h \o ms)[n + k] = ms[k]
        BY <3>1
      <3>5. QED
        BY <3>1, <3>2, <3>3, <3>4 DEF h
    <2>7. \A i \in 1..n + r : i \in 1..n \/ \E k \in 1..r : i = n + k
      <3>1. \A i \in 1..n + r : i \notin 1..n => i - n \in 1..r /\ i = n + (i - n)
        OBVIOUS
      <3>2. QED
        BY <3>1
    <2>8. LoopTypeOK'
      BY <1>1, <1>2, <1>5, <2>1, <2>6, LoopTypes, LoopTypesNext DEF LoopTypeOK
    <2>9. RolesInv'
      <3>1. 1 \in 1..n /\ h[1] = Kickoff /\ Len(history') >= 1
        BY <1>4, <2>6 DEF LoopInv, RolesInv
      <3>2. ASSUME NEW i \in 1..n + r
            PROVE  /\ history'[i].calls # <<>> => history'[i].role = "assistant"
                   /\ history'[i].replies # <<>> => history'[i].role # "assistant"
        <4>1. CASE i \in 1..n
          BY <1>4, <2>6, <4>1 DEF LoopInv, RolesInv
        <4>2. ASSUME NEW k \in 1..r, i = n + k
              PROVE  history'[i].calls = <<>> /\ history'[i].role # "assistant"
          BY <2>4, <2>6, <4>2
        <4>3. QED
          BY <2>7, <3>2, <4>1, <4>2
      <3>3. QED
        BY <2>6, <3>1, <3>2 DEF RolesInv
    <2>10. Answers(h, n - 1) /\ h[n] = Message("assistant", ids, <<>>)
      BY <1>1, <1>13, <1>n DEF LoopInv, HistoryInv
    <2>11. h[n].calls = ids /\ h[n].replies = <<>> /\ DOMAIN ids = 1..r /\ Len(ids) = r /\ \A k \in 1..r : ids[k] = finished[k].id
      <3>1. ids \in [1..r -> Ids]
        BY <1>3
      <3>2. ids \in Seq(Ids) /\ Len(ids) = r /\ DOMAIN ids = 1..r
        BY <3>1
      <3>3. QED
        BY <1>3, <2>10, <3>2 DEF Message
    <2> HIDE DEF ids
    <2>12. ASSUME NEW i \in 1..n + r
           PROVE  /\ \A k \in DOMAIN history'[i].calls :
                        /\ i + k <= n + r /\ history'[i + k].role = "tool" /\ Len(history'[i + k].replies) = 1
                        /\ history'[i + k].replies[1].id = history'[i].calls[k]
                  /\ history'[i].replies # <<>> => \E c \in 1..i - 1 : i <= c + Len(history'[c].calls)
      <3>1. CASE i \in 1..n - 1
        <4>1. history'[i] = history[i] /\ h[i] \in Fields
          BY <1>4, <2>6, <3>1
        <4>2. h[i].calls \in Seq(Ids)
          BY <4>1 DEF Fields
        <4>3. \A k \in DOMAIN h[i].calls : /\ i + k <= n - 1 /\ h[i + k].role = "tool" /\ Len(h[i + k].replies) = 1
                                           /\ h[i + k].replies[1].id = h[i].calls[k]
          BY <2>10, <3>1 DEF Answers
        <4>4. \A k \in DOMAIN h[i].calls : k \in Nat /\ i + k \in 1..n
          BY <3>1, <4>2, <4>3, SeqElements
        <4>5. \A k \in DOMAIN h[i].calls : history'[i + k] = history[i + k] /\ i + k <= n + r
          BY <2>6, <4>4
        <4>6. h[i].replies # <<>> => \E c \in 1..i - 1 : i <= c + Len(h[c].calls)
          BY <2>10, <3>1 DEF Answers
        <4>7. \A c \in 1..i - 1 : history'[c] = history[c]
          BY <2>6, <3>1
        <4>8. QED
          BY <4>1, <4>3, <4>5, <4>6, <4>7
      <3>2. CASE i = n
        <4>1. history'[n] = h[n]
          BY <1>4, <2>6
        <4>2. \A k \in 1..r : n + k <= n + r
          OBVIOUS
        <4>3. \A k \in 1..r : /\ history'[n + k].role = "tool" /\ Len(history'[n + k].replies) = 1
                              /\ history'[n + k].replies[1].id = finished[k].id
          <5>1. \A k \in 1..r : history'[n + k] = ms[k]
            BY <2>6
          <5>2. QED
            BY <2>4, <5>1
        <4>4. \A k \in DOMAIN history'[n].calls : k \in 1..r /\ history'[n].calls[k] = finished[k].id
          BY <2>11, <4>1
        <4>5. history'[n].replies = <<>>
          BY <2>11, <4>1
        <4>6. QED
          BY <3>2, <4>2, <4>3, <4>4, <4>5
      <3>3. ASSUME NEW k \in 1..r, i = n + k
            PROVE  DOMAIN history'[i].calls = {} /\ \E c \in 1..i - 1 : i <= c + Len(history'[c].calls)
        <4>0. history'[i] = ms[k] /\ ms[k].calls = <<>>
          BY <2>4, <2>6, <3>3
        <4>1. DOMAIN history'[i].calls = {}
          BY <4>0
        <4>2. n \in 1..i - 1 /\ history'[n] = h[n] /\ i <= n + r
          BY <1>4, <2>6, <3>3
        <4>3. QED
          BY <2>11, <4>1, <4>2
      <3>4. i \in 1..n - 1 \/ i = n \/ \E k \in 1..r : i = n + k
        BY <1>4, <2>7, <2>12
      <3>5. QED
        BY <3>1, <3>2, <3>3, <3>4
    <2>13. Answers(history', n + r)
      BY <2>12 DEF Answers
    <2>14. HistoryInv'
      BY <1>1, <1>13, <2>1, <2>6, <2>13 DEF HistoryInv
    <2>15. FreshAfter(history)'
      <3>1. n \in Asked(history')
        <4>1. ids # <<>>
          BY <1>3, <2>11
        <4>2. n \in DOMAIN history' /\ history'[n] = h[n]
          BY <1>4, <2>6
        <4>3. QED
          BY <2>11, <4>1, <4>2 DEF Asked
      <3>2. SUFFICES ASSUME NEW c \in Asked(history'), \A i \in Asked(history') : i <= c,
                            NEW i \in DOMAIN history', i > c, NEW k \in DOMAIN history'[i].replies
                     PROVE  ~history'[i].replies[k].archived
        BY DEF FreshAfter
      <3>3. n <= c /\ c \in 1..n + r /\ i \in 1..n + r
        BY <2>6, <3>1, <3>2 DEF Asked
      <3>4. PICK j \in 1..r : i = n + j
        BY <2>7, <3>2, <3>3
      <3>5. history'[i] = ms[j] /\ DOMAIN ms[j].replies = {1} /\ ms[j].replies[1].archived = FALSE
        BY <2>4, <2>6, <3>4
      <3>6. QED
        BY <3>2, <3>5
    <2>16. FreshInv'
      BY <2>15 DEF FreshInv
    <2>17. CalledInv'
      <3>1. \A i \in 1..n : \A k \in DOMAIN history[i].calls : history[i].calls[k] \in Started(trace)
        BY <1>4, <1>13 DEF LoopInv, CalledInv
      <3>2. \A k \in 1..r : DOMAIN history'[n + k].calls = {}
        BY <2>4, <2>6
      <3>3. \A i \in DOMAIN history' : \A k \in DOMAIN history'[i].calls : history'[i].calls[k] \in Started(trace)
        BY <2>6, <2>7, <3>1, <3>2
      <3>4. QED
        BY <1>1, <1>13, <1>st, <3>3 DEF CalledInv
    <2>18. QED
      BY <1>8, <1>9, <1>10, <2>8, <2>9, <2>14, <2>16, <2>17 DEF LoopInv
  <1>14. QED
    BY <1>11, <1>12, <1>13

\* Every step preserves the invariant.
LEMMA LoopInvStep == LoopInv /\ [LoopNext]_loopVars => LoopInv'
  <1>1. SUFFICES ASSUME LoopInv, [LoopNext]_loopVars PROVE LoopInv'
    OBVIOUS
  <1>2. CASE LoopNext
    BY <1>1, <1>2, RequestStep, StopSteps, CloseStep, RecoverStep, EndTurnStep, ConcludeStep, OpenStep, EndStep, DispatchStep
       DEF LoopNext
  <1>3. CASE UNCHANGED loopVars
    <2>1. UNCHANGED <<wire, shortCircuit, loop, turn, history, blocks, finished, results, trace, versions, returned>>
      BY <1>3 DEF loopVars
    <2>2. LoopTypeOK'
      BY <1>1, <2>1, LoopTypes, LoopTypesNext DEF LoopInv, LoopTypeOK
    <2>3. TurnInv'
      BY <1>1, <2>1 DEF LoopInv, TurnInv
    <2>4. TraceInv' /\ VersionsInv'
      BY <1>1, <2>1, VersionsKept DEF LoopInv, TraceInv, Results
    <2>5. KillInv' /\ CandidateIsLastGoodWrite'
      BY <1>1, <2>1 DEF LoopInv, KillInv, SandboxKill, CandidateIsLastGoodWrite
    <2>6. RolesInv' /\ FreshInv'
      BY <1>1, <2>1, FreshKept DEF LoopInv, RolesInv, FreshInv
    <2>7. CalledInv' /\ Started(trace)' = Started(trace)
      BY <1>1, <2>1, CalledKept, StartedKept DEF LoopInv
    <2>8. HistoryInv'
      BY <1>1, <2>1, <2>7 DEF LoopInv, HistoryInv, Alternates, Answers
    <2>9. QED
      BY <2>2, <2>3, <2>4, <2>5, <2>6, <2>7, <2>8 DEF LoopInv
  <1>4. QED
    BY <1>1, <1>2, <1>3

\* LoopInv is an invariant of the agent's loop.
THEOREM LoopInvariance == LoopSpec => []LoopInv
  BY LoopInvInit, LoopInvStep, PTL DEF LoopSpec

-----------------------------------------------------------------------------
\* The loop's variables keep their types.
THEOREM LoopTypeCorrect == LoopSpec => []LoopTypeOK
  <1>1. LoopInv => LoopTypeOK
    BY DEF LoopInv
  <1>2. QED
    BY <1>1, LoopInvariance, PTL

\* In every request the loop sends the roles take turns where the wire asks for it,
\* each call that started has its one result, in its order, right behind it, and no
\* result is without its call (claude_sdk/runner.py, conversation_compaction.py).
THEOREM RequestsAnswerable == LoopSpec => []RequestIsAnswerable
  <1>1. LoopInv => RequestIsAnswerable
    <2> SUFFICES ASSUME LoopInv, loop = "stream" PROVE RequestIsAnswerable
      BY DEF RequestIsAnswerable
    <2>1. history \in Seq(Fields) /\ history[1] = Kickoff
      BY LoopTypes DEF LoopInv, LoopTypeOK, RolesInv
    <2>2. DOMAIN history = 1..Len(history) /\ \A i \in DOMAIN history : history[i] \in Fields
      BY <2>1, SeqElements
    <2>3. \A i \in DOMAIN history :
             /\ history[i].calls \in Seq(Ids) /\ DOMAIN history[i].calls = 1..Len(history[i].calls)
             /\ history[i].replies \in Seq([id : Ids, archived : BOOLEAN])
             /\ DOMAIN history[i].replies = 1..Len(history[i].replies)
      <3>1. \A i \in DOMAIN history : history[i].calls \in Seq(Ids) /\ history[i].replies \in Seq([id : Ids, archived : BOOLEAN])
        BY <2>2 DEF Fields
      <3>2. QED
        BY <3>1, SeqElements
    <2>4. CASE wire = "anthropic"
      <3>1. Alternates(history, Started(trace))
        BY <2>4 DEF LoopInv, HistoryInv
      <3>2. QED
        BY <2>1, <2>4, <3>1 DEF RequestIsAnswerable, Alternates
    <2>5. CASE wire # "anthropic"
      <3>1. Answers(history, Len(history))
        BY <2>5 DEF LoopInv, HistoryInv
      <3>2. ASSUME NEW i \in DOMAIN history, NEW k \in DOMAIN history[i].calls
            PROVE  /\ i + k \in DOMAIN history /\ history[i + k].role = "tool"
                   /\ [j \in DOMAIN history[i + k].replies |-> history[i + k].replies[j].id] = <<history[i].calls[k]>>
        <4>1. /\ i + k <= Len(history) /\ history[i + k].role = "tool" /\ Len(history[i + k].replies) = 1
              /\ history[i + k].replies[1].id = history[i].calls[k]
          BY <2>2, <3>1 DEF Answers
        <4>2. i + k \in DOMAIN history
          BY <2>1, <2>2, <2>3, <4>1
        <4>3. DOMAIN history[i + k].replies = {1}
          BY <2>3, <4>1, <4>2
        <4>4. QED
          BY <4>1, <4>2, <4>3
      <3>3. \A i \in ResultPositions(history) : \E a \in 1..i - 1 : i <= a + Len(history[a].calls)
        BY <2>2, <3>1 DEF Answers, ResultPositions
      <3>4. \A i \in DOMAIN history : IsPrefixAt(history, i, history[i].calls)
        BY <3>2 DEF IsPrefixAt
      <3>5. \A i \in DOMAIN history : Range(history[i].calls) \subseteq Started(trace)
        BY <2>5 DEF LoopInv, CalledInv, Range
      <3>6. QED
        BY <2>1, <2>5, <3>3, <3>4, <3>5 DEF RequestIsAnswerable
    <2>6. QED
      BY <2>4, <2>5
  <1>2. QED
    BY <1>1, LoopInvariance, PTL

\* The request that first carries the results of the model's latest calls carries
\* all of them in full.
THEOREM FreshResultsArrive == LoopSpec => []FreshResultsReachTheModel
  <1>1. LoopInv => FreshResultsReachTheModel
    BY DEF LoopInv, FreshInv, FreshAfter, Asked, FreshResultsReachTheModel, FullReplies
  <1>2. QED
    BY <1>1, LoopInvariance, PTL

\* What the loop sends to the gate is the last version it knows to be good.
THEOREM CandidatesGood == LoopSpec => []CandidateIsLastGoodWrite
  <1>1. LoopInv => CandidateIsLastGoodWrite
    BY DEF LoopInv
  <1>2. QED
    BY <1>1, LoopInvariance, PTL
=============================================================================
