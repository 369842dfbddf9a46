--------------------------- MODULE WorkspaceProofs ---------------------------
(*****************************************************************************)
(* Proofs about Tenancy, for any numbers of people, logins, workspaces,      *)
(* invites and requests, about Workbench, for any rows and requests, and     *)
(* about DesignSession, for any pages, dimensions, template, quota and       *)
(* number of failures.                                                       *)
(*****************************************************************************)
EXTENDS Tenancy, Workbench, DesignSession, FiniteSetTheorems, WellFoundedInduction, TLAPS

-----------------------------------------------------------------------------
(*****************************************************************************)
(* People, workspaces, members and invites.                                  *)
(*****************************************************************************)

Row == [minted : BOOLEAN, ws : Workspace \cup {"none"}, to : Address \cup {NoUser},
        as : {"none", "member", "admin"}, by : Address \cup {NoUser},
        redeemed : BOOLEAN, revoked : BOOLEAN, expired : BOOLEAN]

SyncRequest == [kind : {"sync"}, at : {"find", "link"}, login : Login, address : Address]
CreateRequest == [kind : {"create"}, user : Address]
MintRequest == [kind : {"mint"}, by : Address, ws : Workspace, to : Address, as : {"admin", "member"}]
InviteRequest == [kind : {"redeem", "revoke"}, invite : Invite, user : Address, row : Row]
EnterRequest == [kind : {"enter"}, at : {"member", "bind", "bound"}, user : Address \cup {NoUser}, ws : Workspace]
Request == [kind : {"free"}] \cup SyncRequest \cup CreateRequest \cup MintRequest \cup InviteRequest \cup EnterRequest

TypeInv ==
    /\ TenancyTypeOK
    /\ invites \in [Invite -> Row]
    /\ session \in [Login -> [user : Address \cup {NoUser}, in : SUBSET Workspace]]
    /\ slot \in [Slot -> Request]

\* A minted invite names an existing workspace; only a minted one is redeemed or
\* revoked, and not both.
InviteInv ==
    \A i \in Invite :
        /\ invites[i].minted => /\ invites[i].ws \in Workspace /\ spaces[invites[i].ws] # "none"
                                /\ invites[i].to \in Address
        /\ ~invites[i].minted => ~invites[i].redeemed /\ ~invites[i].revoked
        /\ ~(invites[i].redeemed /\ invites[i].revoked)
MintInv == \A s \in Slot : slot[s].kind = "mint" => spaces[slot[s].ws] # "none"

\* The row read under its lock is the row, but for its expiry; one request has it.
Deals(s) == slot[s].kind \in {"redeem", "revoke"}
Same(v, w) == /\ v.minted /\ w.minted /\ v.ws = w.ws /\ v.to = w.to /\ v.as = w.as
              /\ v.redeemed = w.redeemed /\ v.revoked = w.revoked
HeldInv ==
    /\ \A s \in Slot : Deals(s) => Same(slot[s].row, invites[slot[s].invite])
    /\ \A s, t \in Slot : Deals(s) /\ Deals(t) /\ slot[s].invite = slot[t].invite => s = t

\* Members, and requests that have passed the membership check.
MemberInv ==
    \A w \in Workspace, u \in Address :
        Member(u, w) => Founder(u, w) \/ \E i \in Invite : Accepted(i, u) /\ invites[i].ws = w /\ invites[i].as = role[w][u]
Earned(u, w) == Founder(u, w) \/ \E i \in Invite : Accepted(i, u) /\ invites[i].ws = w
Enters(s) == slot[s].kind = "enter" /\ slot[s].at \in {"bind", "bound"} /\ slot[s].user # NoUser
EnteredInv == \A s \in Slot : Enters(s) => Earned(slot[s].user, slot[s].ws)

\* Creations that have been counted and are not done count against the cap.
Pending(u) == {s \in Slot : slot[s].kind = "create" /\ slot[s].user = u}
Taken(u) == {i \in Invite : Accepted(i, u)}
Capped(u) == Cardinality(Joined(u)) + Cardinality(Pending(u)) <= MaxWorkspaces + (Cardinality(Slot) - 1) + Cardinality(Taken(u))
CapInv == \A u \in Address : Capped(u)

SessionInv == \A l \in Login \ crossed : session[l].user \in {NoUser, identities[l]}

TenancyInv == TypeInv /\ InviteInv /\ MintInv /\ HeldInv /\ MemberInv /\ EnteredInv /\ CapInv /\ SessionInv

-----------------------------------------------------------------------------
\* The fields of a request follow from its kind.
LEMMA RequestParts ==
    ASSUME NEW r \in Request
    PROVE  /\ r.kind = "sync" => r \in SyncRequest
           /\ r.kind = "create" => r \in CreateRequest
           /\ r.kind = "mint" => r \in MintRequest
           /\ r.kind \in {"redeem", "revoke"} => r \in InviteRequest
           /\ r.kind = "enter" => r \in EnterRequest
  BY DEF Request, SyncRequest, CreateRequest, MintRequest, InviteRequest, EnterRequest

\* What the sets that are counted have to do with each other.
LEMMA CountTypes ==
    ASSUME NEW u
    PROVE  /\ IsFiniteSet(Joined(u)) /\ Cardinality(Joined(u)) \in Nat
           /\ IsFiniteSet(Pending(u)) /\ Cardinality(Pending(u)) \in Nat
           /\ IsFiniteSet(Taken(u)) /\ Cardinality(Taken(u)) \in Nat
           /\ Cardinality(Slot) \in Nat \ {0} /\ Cardinality(Pending(u)) <= Cardinality(Slot)
  <1>1. Joined(u) \in SUBSET Workspace /\ Pending(u) \in SUBSET Slot /\ Taken(u) \in SUBSET Invite
    BY DEF Joined, Pending, Taken
  <1>2. IsFiniteSet(Joined(u)) /\ IsFiniteSet(Pending(u)) /\ IsFiniteSet(Taken(u)) /\ Cardinality(Pending(u)) <= Cardinality(Slot)
    BY <1>1, FS_Subset, TenancyCount
  <1>3. Cardinality(Slot) # 0
    BY FS_EmptySet, TenancyCount
  <1>4. QED
    BY <1>2, <1>3, FS_CardinalityType, TenancyCount

\* Nobody joins, nothing is counted and nothing is handed back.
LEMMA CapKept ==
    ASSUME CapInv, \A u \in Address : Joined(u)' \subseteq Joined(u) /\ Pending(u)' \subseteq Pending(u) /\ Taken(u)' = Taken(u)
    PROVE  CapInv'
  <1> SUFFICES ASSUME NEW u \in Address PROVE Capped(u)'
    BY DEF CapInv
  <1>1. Cardinality(Joined(u)') <= Cardinality(Joined(u)) /\ Cardinality(Joined(u)') \in Nat
    BY CountTypes, FS_Subset, FS_CardinalityType
  <1>2. Cardinality(Pending(u)') <= Cardinality(Pending(u)) /\ Cardinality(Pending(u)') \in Nat
    BY CountTypes, FS_Subset, FS_CardinalityType
  <1>3. Capped(u)
    BY DEF CapInv
  <1>4. QED
    BY <1>1, <1>2, <1>3, CountTypes, TenancyAssumption DEF Capped

\* Requests come and go without creating anything.
LEMMA PendingKept ==
    ASSUME TypeInv, NEW s \in Slot, NEW r, r.kind # "create", slot' = [slot EXCEPT ![s] = r], NEW u
    PROVE  Pending(u)' \subseteq Pending(u)
  BY DEF Pending, TypeInv

\* A step that leaves workspaces, members and invites alone.
LEMMA QuietKept ==
    ASSUME TenancyInv, UNCHANGED <<spaces, role, invites>>, NEW s \in Slot, NEW r \in Request,
           slot' = [slot EXCEPT ![s] = r], r.kind # "create",
           r.kind = "mint" => spaces[r.ws] # "none",
           r.kind \in {"redeem", "revoke"} => /\ Same(r.row, invites[r.invite])
                                              /\ \A t \in Slot : Deals(t) => slot[t].invite # r.invite,
           r.kind = "enter" /\ r.at \in {"bind", "bound"} /\ r.user # NoUser => Earned(r.user, r.ws)
    PROVE  InviteInv' /\ MintInv' /\ HeldInv' /\ MemberInv' /\ EnteredInv' /\ CapInv'
  <1>1. \A t \in Slot : slot'[t] = IF t = s THEN r ELSE slot[t]
    BY DEF TenancyInv, TypeInv
  <1>2. InviteInv'
    BY DEF TenancyInv, InviteInv
  <1>3. MintInv'
    BY <1>1 DEF TenancyInv, MintInv
  <1>4. HeldInv'
    BY <1>1 DEF TenancyInv, HeldInv, Deals, Same
  <1>5. MemberInv'
    BY DEF TenancyInv, MemberInv, Member, Founder, Accepted
  <1>6. EnteredInv'
    BY <1>1 DEF TenancyInv, EnteredInv, Enters, Earned, Founder, Accepted
  <1>7. CapInv'
    <2>1. \A u \in Address : Joined(u)' = Joined(u) /\ Taken(u)' = Taken(u)
      BY DEF Joined, Member, Taken, Accepted
    <2>2. \A u \in Address : Pending(u)' \subseteq Pending(u)
      BY PendingKept DEF TenancyInv
    <2>3. QED
      BY <2>1, <2>2, CapKept DEF TenancyInv
  <1>8. QED
    BY <1>2, <1>3, <1>4, <1>5, <1>6, <1>7

-----------------------------------------------------------------------------
\* Sign-in: nothing but users, identities and what the web was told.
LEMMA SyncType ==
    ASSUME TenancyInv, NEW s \in Slot, slot[s].kind = "sync"
    PROVE  slot[s] \in SyncRequest
  BY RequestParts DEF TenancyInv, TypeInv

\* A person signs in.
LEMMA SignInStep ==
    ASSUME TenancyInv, NEW s \in Slot, SignIn(s)
    PROVE  TenancyInv'
  <1>1. PICK r : Take(s, r) /\ r \in SyncRequest
    BY TenancyAssumption DEF SignIn, SyncRequest
  <1>3. r \in Request /\ r.kind = "sync"
    BY <1>1 DEF Request, SyncRequest
  <1>4. slot' = [slot EXCEPT ![s] = r] /\ served' \in 0..MaxRequests
    BY <1>1, TenancyAssumption DEF Take, TenancyInv, TypeInv, TenancyTypeOK
  <1>5. TypeInv'
    BY <1>3, <1>4 DEF SignIn, TenancyInv, TypeInv, TenancyTypeOK
  <1>6. SessionInv'
    BY DEF SignIn, TenancyInv, SessionInv
  <1>7. QED
    BY <1>3, <1>4, <1>5, <1>6, QuietKept DEF SignIn, TenancyInv

\* A free slot is a request of its own kind.
LEMMA FreeRequest == Free \in Request /\ Free.kind = "free"
  BY DEF Free, Request

\* A sign-in finds its identity, or the user of its address.
LEMMA FindStep ==
    ASSUME TenancyInv, NEW s \in Slot, FindIdentity(s)
    PROVE  TenancyInv'
  <1>1. slot[s] \in SyncRequest
    BY SyncType DEF FindIdentity
  <1> DEFINE l == slot[s].login
  <1>2. l \in Login /\ identities[l] \in Address \cup {NoUser}
    BY <1>1 DEF SyncRequest, TenancyInv, TypeInv, TenancyTypeOK
  <1>3. CASE identities[l] # NoUser
    <2>1. Tell(s, l, identities[l]) /\ UNCHANGED <<users, identities, spaces, role, invites, crossed>>
      BY <1>3 DEF FindIdentity
    <2>2. slot' = [slot EXCEPT ![s] = Free] /\ UNCHANGED served
      BY <2>1 DEF Tell, EndRequest, Go
    <2>3. session' = [session EXCEPT ![l] = [user |-> identities[l], in |-> {w \in Workspace : LiveMember(identities[l], w)}]]
      BY <2>1 DEF Tell
    <2>4. TypeInv'
      BY <1>2, <2>1, <2>2, <2>3, FreeRequest DEF TenancyInv, TypeInv, TenancyTypeOK
    <2>5. SessionInv'
      BY <1>2, <2>1, <2>3 DEF TenancyInv, TypeInv, SessionInv
    <2>6. QED
      BY <2>1, <2>2, <2>4, <2>5, FreeRequest, QuietKept DEF TenancyInv
  <1>4. CASE identities[l] = NoUser
    <2> DEFINE r == [slot[s] EXCEPT !.at = "link"]
    <2>1. slot' = [slot EXCEPT ![s] = r] /\ UNCHANGED served /\ UNCHANGED session
          /\ UNCHANGED <<users, identities, spaces, role, invites, crossed>>
      BY <1>4 DEF FindIdentity, Go
    <2>2. r \in Request /\ r.kind = "sync"
      BY <1>1 DEF SyncRequest, Request
    <2>3. TypeInv' /\ SessionInv'
      BY <2>1, <2>2 DEF TenancyInv, TypeInv, TenancyTypeOK, SessionInv
    <2> HIDE DEF r
    <2>4. QED
      BY <2>1, <2>2, <2>3, QuietKept DEF TenancyInv
  <1>5. QED
    BY <1>3, <1>4

\* A sign-in links its identity.
LEMMA LinkStep ==
    ASSUME TenancyInv, NEW s \in Slot, LinkIdentity(s)
    PROVE  TenancyInv'
  <1>1. slot[s] \in SyncRequest
    BY SyncType DEF LinkIdentity
  <1> DEFINE l == slot[s].login
             a == slot[s].address
  <1>2. l \in Login /\ a \in Address /\ identities[l] \in Address \cup {NoUser}
    BY <1>1 DEF SyncRequest, TenancyInv, TypeInv, TenancyTypeOK
  <1>3. slot' = [slot EXCEPT ![s] = Free] /\ UNCHANGED served
    BY DEF LinkIdentity, Tell, EndRequest, Go
  <1>4. session' = [session EXCEPT ![l] = [user |-> a, in |-> {w \in Workspace : LiveMember(a, w)}]]
    BY DEF LinkIdentity, Tell
  <1>5. UNCHANGED <<spaces, role, invites>> /\ users' = users \cup {a}
    BY DEF LinkIdentity
  <1>6. \/ identities[l] = NoUser /\ identities' = [identities EXCEPT ![l] = a] /\ UNCHANGED crossed
        \/ identities[l] = a /\ UNCHANGED <<identities, crossed>>
        \/ identities[l] # a /\ UNCHANGED identities /\ crossed' = crossed \cup {l}
    BY DEF LinkIdentity
  <1> HIDE DEF l, a
  <1>7. TypeInv'
    BY <1>2, <1>3, <1>4, <1>5, <1>6, FreeRequest DEF TenancyInv, TypeInv, TenancyTypeOK
  <1>8. SessionInv'
    BY <1>2, <1>4, <1>6 DEF TenancyInv, TypeInv, TenancyTypeOK, SessionInv
  <1>9. QED
    BY <1>3, <1>5, <1>7, <1>8, FreeRequest, QuietKept DEF TenancyInv

-----------------------------------------------------------------------------
\* Connections.
LEMMA PresentStep ==
    ASSUME TenancyInv, NEW s \in Slot, Present(s)
    PROVE  TenancyInv'
  <1>1. PICK r : /\ Take(s, r) /\ r \in EnterRequest
                 /\ r.at = "member" \/ r.user = NoUser
    <2>1. CASE \E l \in Login : \E w \in session[l].in :
                  Take(s, [kind |-> "enter", at |-> "member", user |-> session[l].user, ws |-> w])
      BY <2>1 DEF TenancyInv, TypeInv, EnterRequest
    <2>2. CASE \E w \in Workspace : spaces[w] # "none" /\ Take(s, [kind |-> "enter", at |-> "bind", user |-> NoUser, ws |-> w])
      BY <2>2 DEF EnterRequest
    <2>3. QED
      BY <2>1, <2>2 DEF Present
  <1>2. r \in Request /\ r.kind = "enter"
    BY <1>1 DEF Request, EnterRequest
  <1>3. slot' = [slot EXCEPT ![s] = r] /\ served' \in 0..MaxRequests
    BY <1>1, TenancyAssumption DEF Take, TenancyInv, TypeInv, TenancyTypeOK
  <1>4. TypeInv' /\ SessionInv'
    BY <1>2, <1>3 DEF Present, directory, TenancyInv, TypeInv, TenancyTypeOK, SessionInv
  <1>5. QED
    BY <1>1, <1>2, <1>3, <1>4, QuietKept DEF Present, directory, TenancyInv

\* A request to enter a workspace has the fields of one.
LEMMA EnterType ==
    ASSUME TenancyInv, NEW s \in Slot, slot[s].kind = "enter"
    PROVE  slot[s] \in EnterRequest
  BY RequestParts DEF TenancyInv, TypeInv

\* A request ends and leaves the tables alone.
LEMMA EndStep ==
    ASSUME TenancyInv, NEW s \in Slot, EndRequest(s), UNCHANGED <<directory, spaces, role, invites>>
    PROVE  TenancyInv'
  <1>1. slot' = [slot EXCEPT ![s] = Free] /\ UNCHANGED served
    BY DEF EndRequest, Go
  <1>2. TypeInv' /\ SessionInv'
    BY <1>1, FreeRequest DEF directory, TenancyInv, TypeInv, TenancyTypeOK, SessionInv
  <1>3. QED
    BY <1>1, <1>2, FreeRequest, QuietKept DEF TenancyInv

\* A request is checked, bound to its workspace, or gives its connection back.
LEMMA ConnectionStep ==
    ASSUME TenancyInv, NEW s \in Slot, CheckMember(s) \/ SetWorkspace(s) \/ ReleaseConn(s)
    PROVE  TenancyInv'
  <1>1. slot[s] \in EnterRequest /\ UNCHANGED <<directory, spaces, role, invites>>
    BY EnterType DEF CheckMember, SetWorkspace, ReleaseConn
  <1>2. CASE EndRequest(s)
    BY <1>1, <1>2, EndStep
  <1>3. ASSUME NEW place \in {"bind", "bound"}, Go(s, [slot[s] EXCEPT !.at = place]),
               slot[s].user # NoUser => Earned(slot[s].user, slot[s].ws)
        PROVE  TenancyInv'
    <2> DEFINE r == [slot[s] EXCEPT !.at = place]
    <2>1. r \in Request /\ r.kind = "enter" /\ r.user = slot[s].user /\ r.ws = slot[s].ws
      BY <1>1 DEF EnterRequest, Request
    <2>2. slot' = [slot EXCEPT ![s] = r] /\ UNCHANGED served
      BY <1>3 DEF Go
    <2> HIDE DEF r
    <2>3. TypeInv' /\ SessionInv'
      BY <1>1, <2>1, <2>2 DEF directory, TenancyInv, TypeInv, TenancyTypeOK, SessionInv
    <2>4. QED
      BY <1>1, <1>3, <2>1, <2>2, <2>3, QuietKept DEF TenancyInv
  <1>4. CASE CheckMember(s) /\ LiveMember(slot[s].user, slot[s].ws)
    <2>1. slot[s].user # NoUser => Earned(slot[s].user, slot[s].ws)
      BY <1>1, <1>4 DEF EnterRequest, LiveMember, TenancyInv, MemberInv, Earned
    <2>2. QED
      BY <1>3, <1>4, <2>1 DEF CheckMember
  <1>5. CASE SetWorkspace(s) /\ spaces[slot[s].ws] = "live"
    <2>1. slot[s].user # NoUser => Earned(slot[s].user, slot[s].ws)
      BY <1>5 DEF SetWorkspace, TenancyInv, EnteredInv, Enters
    <2>2. QED
      BY <1>3, <1>5, <2>1 DEF SetWorkspace
  <1>6. QED
    BY <1>2, <1>4, <1>5 DEF CheckMember, SetWorkspace, ReleaseConn

-----------------------------------------------------------------------------
\* Workspaces.

\* A count that is let through leaves room for one; what else is pending has been
\* let through before.
LEMMA CountStep ==
    ASSUME TenancyInv, NEW s \in Slot, CountWorkspaces(s)
    PROVE  TenancyInv'
  <1>1. PICK u \in Address : MayCreate(u) /\ Take(s, [kind |-> "create", user |-> u])
    BY DEF CountWorkspaces
  <1>2. slot' = [slot EXCEPT ![s] = [kind |-> "create", user |-> u]] /\ served' \in 0..MaxRequests
    BY <1>1, TenancyAssumption DEF Take, TenancyInv, TypeInv, TenancyTypeOK
  <1>3. UNCHANGED <<users, identities, session, crossed, spaces, role, invites>>
    BY DEF CountWorkspaces, directory
  <1>4. [kind |-> "create", user |-> u] \in Request
    BY DEF Request, CreateRequest
  <1>5. TypeInv' /\ SessionInv'
    BY <1>2, <1>3, <1>4 DEF TenancyInv, TypeInv, TenancyTypeOK, SessionInv
  <1>6. \A t \in Slot : slot'[t] = IF t = s THEN [kind |-> "create", user |-> u] ELSE slot[t]
    BY <1>2 DEF TenancyInv, TypeInv
  <1>7. InviteInv' /\ MintInv' /\ HeldInv'
    BY <1>3, <1>6 DEF TenancyInv, InviteInv, MintInv, HeldInv, Deals, Same
  <1>8. MemberInv' /\ EnteredInv'
    BY <1>3, <1>6 DEF TenancyInv, MemberInv, EnteredInv, Enters, Earned, Member, Founder, Accepted
  <1>9. CapInv'
    <2> SUFFICES ASSUME NEW v \in Address PROVE Capped(v)'
      BY DEF CapInv
    <2>1. Joined(v)' = Joined(v) /\ Taken(v)' = Taken(v)
      BY <1>3 DEF Joined, Member, Taken, Accepted
    <2>2. Cardinality(Pending(v)') \in Nat /\ Cardinality(Pending(v)') <= Cardinality(Slot)
      <3>1. Pending(v)' \in SUBSET Slot
        BY DEF Pending
      <3>2. QED
        BY <3>1, FS_Subset, FS_CardinalityType, TenancyCount
    <2>3. CASE v = u
      <3>1. Cardinality(Joined(v)) < MaxWorkspaces
        BY <1>1, <2>3 DEF MayCreate
      <3>2. QED
        BY <2>1, <2>2, <3>1, CountTypes, TenancyAssumption DEF Capped
    <2>4. CASE v # u
      <3>1. Pending(v)' \subseteq Pending(v)
        BY <1>6, <2>4 DEF Pending
      <3>2. Cardinality(Pending(v)') <= Cardinality(Pending(v))
        BY <3>1, CountTypes, FS_Subset
      <3>3. Capped(v)
        BY DEF TenancyInv, CapInv
      <3>4. QED
        BY <2>1, <2>2, <3>2, <3>3, CountTypes, TenancyAssumption DEF Capped
    <2>5. QED
      BY <2>3, <2>4
  <1>10. QED
    BY <1>5, <1>7, <1>8, <1>9 DEF TenancyInv

\* A workspace more, a pending creation less.
LEMMA CreateStep ==
    ASSUME TenancyInv, NEW s \in Slot, CreateWorkspace(s)
    PROVE  TenancyInv'
  <1>1. slot[s] \in CreateRequest
    BY RequestParts DEF CreateWorkspace, TenancyInv, TypeInv
  <1>2. PICK w \in Workspace : /\ spaces[w] = "none"
                               /\ spaces' = [spaces EXCEPT ![w] = "live"]
                               /\ role' = [role EXCEPT ![w][slot[s].user] = "owner"]
    BY DEF CreateWorkspace, FreshIds
  <1>3. slot' = [slot EXCEPT ![s] = Free] /\ UNCHANGED <<served, users, identities, session, crossed, invites>>
    BY DEF CreateWorkspace, EndRequest, Go, directory
  <1>4. PICK u \in Address : slot[s].user = u /\ slot[s].kind = "create"
    BY <1>1 DEF CreateRequest
  <1>5. \A x \in Workspace, v \in Address : role'[x][v] = IF x = w /\ v = u THEN "owner" ELSE role[x][v]
    BY <1>2, <1>4 DEF TenancyInv, TypeInv, TenancyTypeOK
  <1>6. \A t \in Slot : slot'[t] = IF t = s THEN Free ELSE slot[t]
    BY <1>3 DEF TenancyInv, TypeInv
  <1>7. TypeInv' /\ SessionInv'
    BY <1>2, <1>3, <1>4, FreeRequest DEF TenancyInv, TypeInv, TenancyTypeOK, Roles, SessionInv
  <1>8. \A x \in Workspace : spaces[x] # "none" => spaces'[x] # "none"
    BY <1>2 DEF TenancyInv, TypeInv, TenancyTypeOK
  <1>9. InviteInv'
    BY <1>3, <1>8 DEF TenancyInv, InviteInv
  <1>10. MintInv'
    <2>1. ASSUME NEW t \in Slot, slot[t].kind = "mint" PROVE slot[t].ws \in Workspace
      BY <2>1, RequestParts DEF TenancyInv, TypeInv, MintRequest
    <2>2. QED
      BY <1>6, <1>8, <2>1, FreeRequest DEF TenancyInv, MintInv
  <1>11. HeldInv'
    BY <1>3, <1>6, FreeRequest DEF TenancyInv, HeldInv, Deals, Same
  <1>12. MemberInv'
    BY <1>3, <1>5 DEF TenancyInv, MemberInv, Member, Founder, Accepted
  <1>13. EnteredInv'
    <2> SUFFICES ASSUME NEW t \in Slot, Enters(t)' PROVE Earned(slot[t].user, slot[t].ws)'
      BY DEF EnteredInv
    <2>1. t # s /\ slot'[t] = slot[t] /\ Enters(t)
      BY <1>6, FreeRequest DEF Enters
    <2>2. slot[t].user \in Address /\ slot[t].ws \in Workspace
      BY <2>1, EnterType DEF Enters, EnterRequest
    <2>3. QED
      BY <1>3, <1>5, <2>1, <2>2 DEF TenancyInv, EnteredInv, Earned, Founder, Accepted
  <1>14. CapInv'
    <2> SUFFICES ASSUME NEW v \in Address PROVE Capped(v)'
      BY DEF CapInv
    <2>1. Taken(v)' = Taken(v) /\ Capped(v)
      BY <1>3 DEF Taken, Accepted, TenancyInv, CapInv
    <2>2. CASE v = u
      <3>1. Joined(v)' = Joined(v) \cup {w} /\ Pending(v)' = Pending(v) \ {s} /\ s \in Pending(v)
        BY <1>4, <1>5, <1>6, <2>2, FreeRequest DEF Joined, Member, Pending
      <3>2. /\ IsFiniteSet(Joined(v) \cup {w})
            /\ Cardinality(Joined(v) \cup {w}) = IF w \in Joined(v) THEN Cardinality(Joined(v)) ELSE Cardinality(Joined(v)) + 1
        BY CountTypes, FS_AddElement
      <3>3. Cardinality(Pending(v)') = Cardinality(Pending(v)) - 1
        BY <3>1, CountTypes, FS_RemoveElement, ZenonT(60)
      <3>4. QED
        BY <2>1, <3>1, <3>2, <3>3, CountTypes, TenancyAssumption DEF Capped
    <2>3. CASE v # u
      <3>1. Joined(v)' = Joined(v) /\ Pending(v)' = Pending(v)
        BY <1>4, <1>5, <1>6, <2>3, FreeRequest DEF Joined, Member, Pending
      <3>2. QED
        BY <2>1, <3>1 DEF Capped
    <2>4. QED
      BY <2>2, <2>3
  <1>15. QED
    BY <1>7, <1>9, <1>10, <1>11, <1>12, <1>13, <1>14 DEF TenancyInv

\* A workspace is soft-deleted.
LEMMA SoftDeleteStep ==
    ASSUME TenancyInv, SoftDelete
    PROVE  TenancyInv'
  <1>1. PICK w \in Workspace : spaces' = [spaces EXCEPT ![w] = "deleted"]
    BY DEF SoftDelete
  <1>2. UNCHANGED <<users, identities, session, crossed, role, invites, slot, served>>
    BY DEF SoftDelete, directory
  <1>3. \A x \in Workspace : spaces[x] # "none" => spaces'[x] # "none"
    BY <1>1 DEF TenancyInv, TypeInv, TenancyTypeOK
  <1>4. TypeInv' /\ SessionInv'
    BY <1>1, <1>2 DEF TenancyInv, TypeInv, TenancyTypeOK, SessionInv
  <1>5. InviteInv' /\ HeldInv'
    BY <1>2, <1>3 DEF TenancyInv, InviteInv, HeldInv, Deals, Same
  <1>6. MintInv'
    <2>1. ASSUME NEW t \in Slot, slot[t].kind = "mint" PROVE slot[t].ws \in Workspace
      BY <2>1, RequestParts DEF TenancyInv, TypeInv, MintRequest
    <2>2. QED
      BY <1>2, <1>3, <2>1 DEF TenancyInv, MintInv
  <1>7. MemberInv' /\ EnteredInv'
    BY <1>2 DEF TenancyInv, MemberInv, EnteredInv, Enters, Earned, Member, Founder, Accepted
  <1>8. CapInv'
    BY <1>2 DEF TenancyInv, CapInv, Capped, Joined, Member, Pending, Taken, Accepted
  <1>9. QED
    BY <1>4, <1>5, <1>6, <1>7, <1>8 DEF TenancyInv

\* A member is removed.
LEMMA RemoveStep ==
    ASSUME TenancyInv, RemoveMember
    PROVE  TenancyInv'
  <1>1. PICK w \in Workspace, u \in Address : role[w][u] \in {"member", "admin"} /\ role' = [role EXCEPT ![w][u] = "none"]
    BY DEF RemoveMember
  <1>2. UNCHANGED <<users, identities, session, crossed, spaces, invites, slot, served>>
    BY DEF RemoveMember, directory
  <1>3. \A x \in Workspace, v \in Address : role'[x][v] = IF x = w /\ v = u THEN "none" ELSE role[x][v]
    BY <1>1 DEF TenancyInv, TypeInv, TenancyTypeOK
  <1>4. TypeInv' /\ SessionInv'
    BY <1>1, <1>2 DEF TenancyInv, TypeInv, TenancyTypeOK, Roles, SessionInv
  <1>5. InviteInv' /\ HeldInv' /\ MintInv'
    BY <1>2 DEF TenancyInv, InviteInv, HeldInv, MintInv, Deals, Same
  <1>6. MemberInv'
    BY <1>2, <1>3 DEF TenancyInv, MemberInv, Member, Founder, Accepted
  <1>7. EnteredInv'
    <2> SUFFICES ASSUME NEW t \in Slot, Enters(t) PROVE Earned(slot[t].user, slot[t].ws)'
      BY <1>2 DEF EnteredInv, Enters
    <2>1. slot[t].user \in Address /\ slot[t].ws \in Workspace
      BY EnterType DEF Enters, EnterRequest
    <2>2. QED
      BY <1>1, <1>2, <1>3, <2>1 DEF TenancyInv, EnteredInv, Earned, Founder, Accepted
  <1>8. CapInv'
    <2>1. \A v \in Address : Joined(v)' \subseteq Joined(v) /\ Pending(v)' \subseteq Pending(v) /\ Taken(v)' = Taken(v)
      BY <1>2, <1>3 DEF Joined, Member, Pending, Taken, Accepted
    <2>2. QED
      BY <2>1, CapKept DEF TenancyInv
  <1>9. QED
    BY <1>4, <1>5, <1>6, <1>7, <1>8 DEF TenancyInv

-----------------------------------------------------------------------------
\* Invites.
LEMMA MintStep ==
    ASSUME TenancyInv, NEW s \in Slot, BeginMint(s)
    PROVE  TenancyInv'
  <1>1. PICK u \in Address, w \in Workspace, to \in Address, as \in {"admin", "member"} :
           spaces[w] = "live" /\ Take(s, [kind |-> "mint", by |-> u, ws |-> w, to |-> to, as |-> as])
    BY DEF BeginMint, Admin
  <1> DEFINE r == [kind |-> "mint", by |-> u, ws |-> w, to |-> to, as |-> as]
  <1>2. r \in Request /\ r.kind = "mint" /\ spaces[r.ws] # "none"
    BY <1>1 DEF Request, MintRequest
  <1>3. slot' = [slot EXCEPT ![s] = r] /\ served' \in 0..MaxRequests
    BY <1>1, TenancyAssumption DEF Take, TenancyInv, TypeInv, TenancyTypeOK
  <1> HIDE DEF r
  <1>4. TypeInv' /\ SessionInv'
    BY <1>2, <1>3 DEF BeginMint, directory, TenancyInv, TypeInv, TenancyTypeOK, SessionInv
  <1>5. QED
    BY <1>2, <1>3, <1>4, QuietKept DEF BeginMint, directory, TenancyInv

\* InviteFree keeps everyone else from a row that is read FOR UPDATE.
LEMMA LockStep ==
    ASSUME TenancyInv, NEW s \in Slot, LockInvite(s)
    PROVE  TenancyInv'
  <1>1. PICK r : /\ Take(s, r) /\ r \in InviteRequest
                 /\ invites[r.invite].minted /\ InviteFree(r.invite) /\ r.row = invites[r.invite]
    BY DEF LockInvite, InviteRequest, TenancyInv, TypeInv
  <1>2. r \in Request /\ r.kind \in {"redeem", "revoke"}
    BY <1>1 DEF Request, InviteRequest
  <1>3. slot' = [slot EXCEPT ![s] = r] /\ served' \in 0..MaxRequests
    BY <1>1, TenancyAssumption DEF Take, TenancyInv, TypeInv, TenancyTypeOK
  <1>4. TypeInv' /\ SessionInv'
    BY <1>2, <1>3 DEF LockInvite, directory, TenancyInv, TypeInv, TenancyTypeOK, SessionInv
  <1>5. Same(r.row, invites[r.invite]) /\ \A t \in Slot : Deals(t) => slot[t].invite # r.invite
    BY <1>1 DEF Same, InviteFree, Deals
  <1>6. QED
    BY <1>2, <1>3, <1>4, <1>5, QuietKept DEF LockInvite, directory, TenancyInv

\* A row of invites changes, and nobody is let in by it.
LEMMA InviteKept ==
    ASSUME TenancyInv, UNCHANGED <<directory, spaces, role, served>>,
           NEW i \in Invite, NEW v \in Row, invites' = [invites EXCEPT ![i] = v],
           slot' \in [Slot -> Request], \A t \in Slot : slot'[t] \in {slot[t], Free},
           v.minted /\ v.ws \in Workspace /\ spaces[v.ws] # "none" /\ v.to \in Address,
           ~(v.redeemed /\ v.revoked), v.redeemed = invites[i].redeemed,
           invites[i].minted => v.ws = invites[i].ws /\ v.to = invites[i].to /\ v.as = invites[i].as,
           \A t \in Slot : Deals(t) /\ slot[t].invite = i => slot'[t] = Free \/ Same(slot[t].row, v)
    PROVE  TenancyInv'
  <1>1. \A j \in Invite : invites'[j] = IF j = i THEN v ELSE invites[j]
    BY DEF TenancyInv, TypeInv
  <1>2. TypeInv' /\ SessionInv'
    BY DEF directory, TenancyInv, TypeInv, TenancyTypeOK, SessionInv
  <1>3. InviteInv'
    BY <1>1 DEF TenancyInv, InviteInv
  <1>4. MintInv'
    BY FreeRequest DEF TenancyInv, MintInv
  <1>5. HeldInv'
    <2>1. \A t \in Slot : Deals(t)' => Deals(t) /\ slot'[t] = slot[t]
      BY FreeRequest DEF Deals
    <2>2. \A t \in Slot : Deals(t)' => Same(slot[t].row, invites[slot[t].invite])' 
      <3> SUFFICES ASSUME NEW t \in Slot, Deals(t)' PROVE Same(slot'[t].row, invites'[slot'[t].invite])
        OBVIOUS
      <3>1. Deals(t) /\ slot'[t] = slot[t] /\ slot'[t] # Free
        BY <2>1, FreeRequest DEF Deals
      <3>2. slot[t].invite \in Invite
        BY <3>1, RequestParts DEF Deals, TenancyInv, TypeInv, InviteRequest
      <3>3. QED
        BY <1>1, <3>1, <3>2 DEF TenancyInv, HeldInv
    <2>3. QED
      BY <2>1, <2>2 DEF TenancyInv, HeldInv
  <1>6. \A j \in Invite, u \in Address :
           /\ Accepted(j, u) => Accepted(j, u)' /\ invites'[j].ws = invites[j].ws /\ invites'[j].as = invites[j].as
           /\ Accepted(j, u)' => Accepted(j, u)
    BY <1>1 DEF TenancyInv, InviteInv, Accepted
  <1>7. MemberInv'
    BY <1>6 DEF TenancyInv, MemberInv, Member, Founder
  <1>8. EnteredInv'
    <2> SUFFICES ASSUME NEW t \in Slot, Enters(t)' PROVE Earned(slot[t].user, slot[t].ws)'
      BY DEF EnteredInv
    <2>1. Enters(t) /\ slot'[t] = slot[t]
      BY FreeRequest DEF Enters
    <2>2. slot[t].user \in Address /\ slot[t].ws \in Workspace
      BY <2>1, EnterType DEF Enters, EnterRequest
    <2>3. QED
      BY <1>6, <2>1, <2>2 DEF TenancyInv, EnteredInv, Earned, Founder
  <1>9. CapInv'
    <2>1. \A u \in Address : Joined(u)' \subseteq Joined(u) /\ Pending(u)' \subseteq Pending(u) /\ Taken(u)' = Taken(u)
      BY <1>6, FreeRequest DEF Joined, Member, Pending, Taken
    <2>2. QED
      BY <2>1, CapKept DEF TenancyInv
  <1>10. QED
    BY <1>2, <1>3, <1>4, <1>5, <1>7, <1>8, <1>9 DEF TenancyInv

\* A request ends and frees its slot.
LEMMA Freed ==
    ASSUME TenancyInv, NEW s \in Slot, EndRequest(s)
    PROVE  /\ slot' \in [Slot -> Request] /\ UNCHANGED served
           /\ \A t \in Slot : slot'[t] = IF t = s THEN Free ELSE slot[t]
  BY FreeRequest DEF EndRequest, Go, TenancyInv, TypeInv

\* An invite is created.
LEMMA CreateInviteStep ==
    ASSUME TenancyInv, NEW s \in Slot, CreateInvite(s)
    PROVE  TenancyInv'
  <1>1. slot[s] \in MintRequest /\ spaces[slot[s].ws] # "none"
    BY RequestParts DEF CreateInvite, TenancyInv, TypeInv, MintInv
  <1> DEFINE v == [NoInvite EXCEPT !.minted = TRUE, !.ws = slot[s].ws, !.to = slot[s].to, !.as = slot[s].as, !.by = slot[s].by]
  <1>2. PICK i \in Invite : ~invites[i].minted /\ invites' = [invites EXCEPT ![i] = v]
    BY DEF CreateInvite
  <1>3. v \in Row /\ v.minted /\ v.ws = slot[s].ws /\ v.to \in Address /\ ~v.redeemed /\ ~v.revoked
    BY <1>1 DEF NoInvite, Row, MintRequest
  <1> HIDE DEF v
  <1>4. ~invites[i].redeemed /\ invites[i] \in Row
    BY <1>2 DEF TenancyInv, InviteInv, TypeInv
  <1>5. \A t \in Slot : Deals(t) => slot[t].invite # i
    BY <1>2 DEF TenancyInv, HeldInv, Same
  <1>6. v.redeemed = invites[i].redeemed
    BY <1>3, <1>4 DEF Row
  <1>7. v.ws \in Workspace /\ spaces[v.ws] # "none"
    BY <1>1, <1>3 DEF MintRequest
  <1>8. UNCHANGED <<directory, spaces, role>> /\ EndRequest(s)
    BY DEF CreateInvite
  <1>9. slot' \in [Slot -> Request] /\ UNCHANGED served /\ \A t \in Slot : slot'[t] \in {slot[t], Free}
    BY <1>8, Freed
  <1>10. QED
    BY <1>2, <1>3, <1>5, <1>6, <1>7, <1>8, <1>9, InviteKept

\* An invite expires.
LEMMA ExpireStep ==
    ASSUME TenancyInv, Expire
    PROVE  TenancyInv'
  <1>1. PICK i \in Invite : invites[i].minted /\ invites' = [invites EXCEPT ![i].expired = TRUE]
    BY DEF Expire
  <1> DEFINE v == [invites[i] EXCEPT !.expired = TRUE]
  <1>2. invites' = [invites EXCEPT ![i] = v]
    BY <1>1
  <1>3. v \in Row /\ v.minted /\ v.ws = invites[i].ws /\ v.to = invites[i].to /\ v.as = invites[i].as
        /\ v.redeemed = invites[i].redeemed /\ v.revoked = invites[i].revoked
    BY <1>1 DEF TenancyInv, TypeInv, Row
  <1> HIDE DEF v
  <1>4. v.ws \in Workspace /\ spaces[v.ws] # "none" /\ v.to \in Address /\ ~(v.redeemed /\ v.revoked)
    BY <1>1, <1>3 DEF TenancyInv, InviteInv
  <1>5. \A t \in Slot : Deals(t) /\ slot[t].invite = i => Same(slot[t].row, v)
    BY <1>3 DEF TenancyInv, HeldInv, Same
  <1>6. slot' \in [Slot -> Request] /\ \A t \in Slot : slot'[t] = slot[t]
    BY DEF Expire, TenancyInv, TypeInv
  <1>7. QED
    BY <1>2, <1>3, <1>4, <1>5, <1>6, InviteKept DEF Expire

\* An invite is revoked.
LEMMA RevokeStep ==
    ASSUME TenancyInv, NEW s \in Slot, RevokeInvite(s)
    PROVE  TenancyInv'
  <1>1. slot[s] \in InviteRequest /\ Deals(s)
    BY RequestParts DEF RevokeInvite, TenancyInv, TypeInv, Deals
  <1> DEFINE i == slot[s].invite
             v == [invites[i] EXCEPT !.revoked = TRUE]
  <1>2. i \in Invite /\ Same(slot[s].row, invites[i])
    BY <1>1 DEF InviteRequest, TenancyInv, HeldInv
  <1>3. CASE UNCHANGED invites
    BY <1>3, EndStep DEF RevokeInvite, directory
  <1>4. CASE ~slot[s].row.redeemed /\ invites' = [invites EXCEPT ![i].revoked = TRUE]
    <2>1. invites' = [invites EXCEPT ![i] = v]
      BY <1>4
    <2>6. invites[i] \in Row /\ invites[i].minted /\ ~invites[i].redeemed
      BY <1>2, <1>4 DEF TenancyInv, TypeInv, Same
    <2>2. v \in Row /\ v.minted /\ v.ws = invites[i].ws /\ v.to = invites[i].to /\ v.as = invites[i].as
          /\ v.redeemed = invites[i].redeemed /\ ~v.redeemed
      BY <2>6 DEF Row
    <2>3. \A t \in Slot : Deals(t) /\ slot[t].invite = i => t = s
      BY <1>1 DEF TenancyInv, HeldInv
    <2> HIDE DEF v
    <2>4. v.ws \in Workspace /\ spaces[v.ws] # "none" /\ v.to \in Address
      BY <1>2, <2>2 DEF TenancyInv, InviteInv, Same
    <2> HIDE DEF i
    <2>5. UNCHANGED <<directory, spaces, role>> /\ EndRequest(s)
      BY DEF RevokeInvite
    <2>7. slot' \in [Slot -> Request] /\ UNCHANGED served /\ slot'[s] = Free /\ \A t \in Slot : slot'[t] \in {slot[t], Free}
      BY <2>5, Freed
    <2>8. QED
      BY <1>2, <2>1, <2>2, <2>3, <2>4, <2>5, <2>7, InviteKept
  <1>5. QED
    BY <1>3, <1>4 DEF RevokeInvite

\* A verdict that was reached under the lock is still right.
LEMMA RedeemStep ==
    ASSUME TenancyInv, NEW s \in Slot, RedeemInvite(s)
    PROVE  TenancyInv'
  <1>1. slot[s] \in InviteRequest /\ Deals(s)
    BY RequestParts DEF RedeemInvite, TenancyInv, TypeInv, Deals
  <1>2. PICK i \in Invite, u \in Address, row \in Row : slot[s].invite = i /\ slot[s].user = u /\ slot[s].row = row
    BY <1>1 DEF InviteRequest
  <1>3. Same(row, invites[i])
    BY <1>1, <1>2 DEF TenancyInv, HeldInv
  <1>4. UNCHANGED <<directory, spaces>> /\ EndRequest(s)
    BY DEF RedeemInvite
  <1>5. CASE UNCHANGED <<role, invites>>
    BY <1>4, <1>5, EndStep
  <1>6. CASE /\ RedeemVerdict([row EXCEPT !.expired = FALSE], u) = "joins"
             /\ role' = IF Member(u, row.ws) THEN role ELSE [role EXCEPT ![row.ws][u] = row.as]
             /\ invites' = [invites EXCEPT ![i].redeemed = TRUE]
    <2> DEFINE w == row.ws
    <2>1. u = row.to /\ ~row.revoked /\ ~row.redeemed
      BY <1>6 DEF RedeemVerdict, Row
    <2>2. invites[i] \in Row /\ invites[i].minted /\ invites[i].ws = w /\ invites[i].to = u /\ invites[i].as = row.as
          /\ ~invites[i].redeemed /\ ~invites[i].revoked
      BY <1>3, <2>1 DEF Same, TenancyInv, TypeInv
    <2>3. w \in Workspace /\ spaces[w] # "none" /\ row.as \in Roles
      BY <2>2 DEF TenancyInv, InviteInv, Row, Roles
    <2>4. \A j \in Invite : j # i => invites'[j] = invites[j]
      BY <1>6 DEF TenancyInv, TypeInv
    <2>5. /\ invites'[i] \in Row /\ invites'[i].minted /\ invites'[i].ws = w /\ invites'[i].to = u
          /\ invites'[i].as = row.as /\ invites'[i].redeemed /\ ~invites'[i].revoked
      BY <1>6, <2>2 DEF Row, TenancyInv, TypeInv
    <2>6. \A x \in Workspace, v \in Address : role'[x][v] = IF x = w /\ v = u /\ ~Member(u, w) THEN row.as ELSE role[x][v]
      BY <1>6, <2>3 DEF TenancyInv, TypeInv, TenancyTypeOK
    <2>7. slot' \in [Slot -> Request] /\ UNCHANGED served /\ \A t \in Slot : slot'[t] = IF t = s THEN Free ELSE slot[t]
      BY <1>4, Freed
    <2>8. TypeInv' /\ SessionInv'
      <3>1. role' \in [Workspace -> [Address -> Roles]]
        BY <1>6, <2>3 DEF TenancyInv, TypeInv, TenancyTypeOK
      <3>2. invites' \in [Invite -> Row]
        BY <1>6, <2>5 DEF TenancyInv, TypeInv
      <3>3. QED
        BY <1>4, <2>7, <3>1, <3>2 DEF directory, TenancyInv, TypeInv, TenancyTypeOK, SessionInv
    <2> HIDE DEF w
    <2>9. InviteInv'
      <3>1. ASSUME NEW j \in Invite, j # i
            PROVE  /\ invites'[j].minted => invites'[j].ws \in Workspace /\ spaces'[invites'[j].ws] # "none" /\ invites'[j].to \in Address
                   /\ ~invites'[j].minted => ~invites'[j].redeemed /\ ~invites'[j].revoked
                   /\ ~(invites'[j].redeemed /\ invites'[j].revoked)
        BY <1>4, <2>4, <3>1 DEF TenancyInv, InviteInv
      <3>2. QED
        BY <1>4, <2>3, <2>5, <3>1 DEF InviteInv
    <2>10. MintInv'
      BY <1>4, <2>7, FreeRequest DEF TenancyInv, MintInv
    <2>11. HeldInv'
      <3>1. \A t \in Slot : Deals(t)' => Deals(t) /\ slot'[t] = slot[t] /\ t # s
        BY <2>7, FreeRequest DEF Deals
      <3>2. ASSUME NEW t \in Slot, Deals(t)' PROVE Same(slot'[t].row, invites'[slot'[t].invite])
        <4>1. slot[t].invite \in Invite \ {i}
          BY <1>1, <1>2, <3>1, <3>2, RequestParts DEF Deals, TenancyInv, TypeInv, InviteRequest, HeldInv
        <4>2. QED
          BY <2>4, <3>1, <3>2, <4>1 DEF TenancyInv, HeldInv
      <3>3. QED
        BY <3>1, <3>2 DEF TenancyInv, HeldInv
    <2>12. \A j \in Invite, v \in Address :
             /\ Accepted(j, v)' <=> Accepted(j, v) \/ (j = i /\ v = u)
             /\ Accepted(j, v) => j # i /\ invites'[j] = invites[j]
      BY <2>2, <2>4, <2>5 DEF Accepted
    <2>13. MemberInv'
      <3> SUFFICES ASSUME NEW x \in Workspace, NEW v \in Address, role'[x][v] # "none", role'[x][v] # "owner"
                   PROVE  \E j \in Invite : Accepted(j, v)' /\ invites'[j].ws = x /\ invites'[j].as = role'[x][v]
        BY DEF MemberInv, Member, Founder
      <3>1. CASE x = w /\ v = u /\ ~Member(u, w)
        BY <2>5, <2>6, <2>12, <3>1
      <3>2. CASE ~(x = w /\ v = u /\ ~Member(u, w))
        <4>1. role'[x][v] = role[x][v]
          BY <2>6, <3>2
        <4>2. PICK j \in Invite : Accepted(j, v) /\ invites[j].ws = x /\ invites[j].as = role[x][v]
          BY <4>1 DEF TenancyInv, MemberInv, Member, Founder
        <4>3. QED
          BY <2>12, <4>1, <4>2
      <3>3. QED
        BY <3>1, <3>2
    <2>14. EnteredInv'
      <3> SUFFICES ASSUME NEW t \in Slot, Enters(t)' PROVE Earned(slot[t].user, slot[t].ws)'
        BY DEF EnteredInv
      <3>1. Enters(t) /\ slot'[t] = slot[t]
        BY <2>7, FreeRequest DEF Enters
      <3>2. slot[t].user \in Address /\ slot[t].ws \in Workspace
        BY <3>1, EnterType DEF Enters, EnterRequest
      <3>3. Earned(slot[t].user, slot[t].ws)
        BY <3>1 DEF TenancyInv, EnteredInv
      <3>4. role[slot[t].ws][slot[t].user] = "owner" => role'[slot[t].ws][slot[t].user] = "owner"
        BY <2>6, <3>2 DEF Member
      <3>5. QED
        BY <2>12, <3>1, <3>2, <3>3, <3>4 DEF Earned, Founder
    <2>15. CapInv'
      <3> SUFFICES ASSUME NEW v \in Address PROVE Capped(v)'
        BY DEF CapInv
      <3>1. Pending(v)' \subseteq Pending(v)
        BY <2>7, FreeRequest DEF Pending
      <3>2. Cardinality(Pending(v)') <= Cardinality(Pending(v)) /\ Cardinality(Pending(v)') \in Nat
        BY <3>1, CountTypes, FS_Subset, FS_CardinalityType
      <3>3. Capped(v)
        BY DEF TenancyInv, CapInv
      <3>4. CASE v = u
        <4>1. Taken(v)' = Taken(v) \cup {i} /\ i \notin Taken(v)
          BY <2>12, <3>4 DEF Taken
        <4>2. Cardinality(Taken(v)') = Cardinality(Taken(v)) + 1
          BY <4>1, CountTypes, FS_AddElement
        <4>3. Joined(v)' \in SUBSET (Joined(v) \cup {w})
          BY <2>6 DEF Joined, Member
        <4>8. /\ IsFiniteSet(Joined(v) \cup {w})
              /\ Cardinality(Joined(v) \cup {w}) = IF w \in Joined(v) THEN Cardinality(Joined(v)) ELSE Cardinality(Joined(v)) + 1
          BY CountTypes, FS_AddElement
        <4>4. /\ IsFiniteSet(Joined(v) \cup {w}) /\ Cardinality(Joined(v) \cup {w}) \in Nat
              /\ Cardinality(Joined(v) \cup {w}) <= Cardinality(Joined(v)) + 1
          BY <4>8, CountTypes
        <4>5. IsFiniteSet(Joined(v)') /\ Cardinality(Joined(v)') <= Cardinality(Joined(v) \cup {w})
          BY <4>3, <4>4, FS_Subset
        <4>6. Cardinality(Joined(v)') \in Nat
          BY <4>5, FS_CardinalityType
        <4>7. QED
          BY <3>2, <3>3, <4>2, <4>4, <4>5, <4>6, CountTypes, TenancyAssumption DEF Capped
      <3>5. CASE v # u
        <4>1. Taken(v)' = Taken(v) /\ Joined(v)' = Joined(v)
          BY <2>6, <2>12, <3>5 DEF Taken, Joined, Member
        <4>2. QED
          BY <3>2, <3>3, <4>1, CountTypes, TenancyAssumption DEF Capped
      <3>6. QED
        BY <3>4, <3>5
    <2>16. QED
      BY <2>8, <2>9, <2>10, <2>11, <2>13, <2>14, <2>15 DEF TenancyInv
  <1>7. QED
    BY <1>2, <1>5, <1>6 DEF RedeemInvite

-----------------------------------------------------------------------------
\* The founders stay within the cap.
LEMMA TenancyInvInit ==
    ASSUME TenancyInit
    PROVE  TenancyInv
  <1>1. NoInvite \in Row /\ ~NoInvite.minted /\ ~NoInvite.redeemed /\ ~NoInvite.revoked
    BY DEF NoInvite, Row
  <1>2. \A s \in Slot : slot[s] = Free
    BY DEF TenancyInit
  <1>3. TypeInv
    BY <1>1, FreeRequest, TenancyAssumption DEF TenancyInit, TypeInv, TenancyTypeOK, Roles, SignedOut
  <1>4. InviteInv /\ MintInv /\ HeldInv
    BY <1>1, <1>2, FreeRequest DEF TenancyInit, InviteInv, MintInv, HeldInv, Deals
  <1>5. MemberInv /\ EnteredInv
    BY <1>2, FreeRequest DEF TenancyInit, MemberInv, Member, Founder, EnteredInv, Enters
  <1>6. SessionInv
    BY DEF TenancyInit, SessionInv, SignedOut
  <1>7. CapInv
    <2> SUFFICES ASSUME NEW u \in Address PROVE Capped(u)
      BY DEF CapInv
    <2>1. Joined(u) = {w \in DOMAIN Founded : Founded[w] = u}
      BY TenancyAssumption DEF TenancyInit, Joined, Member
    <2>2. Pending(u) = {}
      BY <1>2, FreeRequest DEF Pending
    <2>3. Cardinality(Joined(u)) <= MaxWorkspaces
      BY <2>1, TenancyCount
    <2>4. Cardinality(Pending(u)) = 0
      BY <2>2, FS_EmptySet
    <2>5. QED
      BY <2>3, <2>4, CountTypes, TenancyAssumption DEF Capped
  <1>8. QED
    BY <1>3, <1>4, <1>5, <1>6, <1>7 DEF TenancyInv

\* Every step keeps the invariant.
LEMMA TenancyInvStep ==
    ASSUME TenancyInv, TenancyNext \/ UNCHANGED tenantVars
    PROVE  TenancyInv'
  <1>1. CASE \E s \in Slot : SignIn(s) \/ FindIdentity(s) \/ LinkIdentity(s)
    BY <1>1, SignInStep, FindStep, LinkStep
  <1>2. CASE \E s \in Slot : CountWorkspaces(s) \/ CreateWorkspace(s)
    BY <1>2, CountStep, CreateStep
  <1>3. CASE \E s \in Slot : BeginMint(s) \/ CreateInvite(s) \/ LockInvite(s) \/ RedeemInvite(s) \/ RevokeInvite(s)
    BY <1>3, MintStep, CreateInviteStep, LockStep, RedeemStep, RevokeStep
  <1>4. CASE \E s \in Slot : Present(s) \/ CheckMember(s) \/ SetWorkspace(s) \/ ReleaseConn(s)
    BY <1>4, PresentStep, ConnectionStep
  <1>5. CASE SoftDelete \/ RemoveMember \/ Expire
    BY <1>5, SoftDeleteStep, RemoveStep, ExpireStep
  <1>6. CASE UNCHANGED tenantVars
    BY <1>6 DEF tenantVars, TenancyInv, TypeInv, TenancyTypeOK, InviteInv, MintInv, HeldInv, Deals, Same, MemberInv,
                Member, Founder, Accepted, EnteredInv, Enters, Earned, CapInv, Capped, Joined, Pending, Taken, SessionInv
  <1>7. QED
    BY <1>1, <1>2, <1>3, <1>4, <1>5, <1>6 DEF TenancyNext

\* Users, memberships, invites and requests agree.
LEMMA TenancyInvariance == TenancySpec => []TenancyInv
  <1>1. TenancyInit => TenancyInv
    BY TenancyInvInit
  <1>2. TenancyInv /\ [TenancyNext]_tenantVars => TenancyInv'
    BY TenancyInvStep
  <1>3. QED
    BY <1>1, <1>2, PTL DEF TenancySpec

\* The tables of users, identities, workspaces and members keep their types.
THEOREM TenancyTypeCorrect == TenancySpec => []TenancyTypeOK
  <1>1. TenancyInv => TenancyTypeOK
    BY DEF TenancyInv, TypeInv
  <1>2. QED
    BY <1>1, TenancyInvariance, PTL

\* The two readings of an invite agree, whatever its row.
LEMMA PreviewAgrees ==
    ASSUME TenancyInv, NEW i \in Invite, NEW u \in Address, invites[i].minted
    PROVE  /\ (PreviewStatus(invites[i], u) = "pending") <=> (RedeemVerdict(invites[i], u) = "joins")
           /\ RedeemVerdict(invites[i], u) \in {"again", "membership_removed"} =>
                 PreviewStatus(invites[i], u) = "redeemed_by_me" \/ spaces[invites[i].ws] = "deleted"
  <1>1. invites[i].ws \in Workspace /\ spaces[invites[i].ws] # "none"
    BY DEF TenancyInv, InviteInv
  <1>2. spaces[invites[i].ws] \in {"live", "deleted"}
    BY <1>1 DEF TenancyInv, TypeInv, TenancyTypeOK
  <1>3. invites[i] \in Row
    BY DEF TenancyInv, TypeInv
  <1>4. QED
    BY <1>2, <1>3 DEF PreviewStatus, RedeemVerdict, TokenVerifies, Row

\* Members, and whoever a connection is bound for, have founded the workspace or
\* redeemed an invite to themselves that was not revoked; the cap is overshot by
\* what was counted together and by invites only; a login stays with its user; and
\* the preview offers an invite exactly when it can be redeemed (redeem_invite,
\* revoke_invite, preview_invite, create_workspace, sync_principal, get_conn).
THEOREM Earnings == TenancySpec => []MembershipIsEarned
  <1>1. ASSUME TenancyInv PROVE MembershipIsEarned
    <2>1. \A w \in Workspace, u \in Address :
            Member(u, w) => Founder(u, w) \/ \E i \in Invite : Accepted(i, u) /\ invites[i].ws = w /\ invites[i].as = role[w][u]
      BY <1>1 DEF TenancyInv, MemberInv
    <2>2. \A s \in Slot : slot[s].kind = "enter" /\ slot[s].at = "bound" /\ slot[s].user # NoUser =>
            Founder(slot[s].user, slot[s].ws) \/ \E i \in Invite : Accepted(i, slot[s].user) /\ invites[i].ws = slot[s].ws
      BY <1>1 DEF TenancyInv, EnteredInv, Enters, Earned
    <2>3. \A i \in Invite : ~(invites[i].redeemed /\ invites[i].revoked)
      BY <1>1 DEF TenancyInv, InviteInv
    <2>4. \A u \in Address :
            Cardinality(Joined(u)) <= MaxWorkspaces + (Cardinality(Slot) - 1) + Cardinality({i \in Invite : Accepted(i, u)})
      <3> SUFFICES ASSUME NEW u \in Address
                   PROVE  Cardinality(Joined(u)) <= MaxWorkspaces + (Cardinality(Slot) - 1) + Cardinality(Taken(u))
        BY DEF Taken
      <3>1. Capped(u)
        BY <1>1 DEF TenancyInv, CapInv
      <3>2. QED
        BY <3>1, CountTypes, TenancyAssumption DEF Capped
    <2>5. \A l \in Login \ crossed : session[l].user \in {NoUser, identities[l]}
      BY <1>1 DEF TenancyInv, SessionInv
    <2>6. QED
      BY <1>1, <2>1, <2>2, <2>3, <2>4, <2>5, PreviewAgrees DEF MembershipIsEarned
  <1>2. QED
    BY <1>1, TenancyInvariance, PTL

-----------------------------------------------------------------------------
(*****************************************************************************)
(* The rows of a workflow and the requests that write them.                  *)
(*****************************************************************************)

Seen == rows \ gone
Closed(S) == \A r \in S : Refers[r] \subseteq S
NoneOf(table) == \A r \in Seen : TableOf[r] # table

\* The rows there are, and those the open deletion has left, name rows there
\* are.
RowsInv ==
    /\ rows \in SUBSET DbRow /\ gone \subseteq rows /\ headed \subseteq rows \cap OfTable("skills")
    /\ Closed(rows) /\ Closed(Seen)
    /\ TheWorkflow \in rows \/ rows = {}

\* What a deletion beside which nothing was written has done so far.
Emptied ==
    /\ rows \cap OfTable("iterations") \subseteq deletion.iters
    /\ deletion.step > 1 => NoneOf("approvals")
    /\ deletion.step > 2 => NoneOf("proposals")
    /\ deletion.step > 3 => NoneOf("traces")
    /\ deletion.step > 4 => NoneOf("iterations")
    /\ deletion.step > 5 => NoneOf("eval_cases")
    /\ deletion.step > 6 => NoneOf("failure_clusters")
    /\ deletion.step > 7 => rows \cap OfTable("skills") \subseteq deletion.skills
    /\ deletion.step > 8 => NoneOf("skill_versions")
    /\ deletion.step > 9 => NoneOf("skills")
DeletionInv ==
    /\ deletion \in [step : 0..10, iters : SUBSET DbRow, skills : SUBSET DbRow, crossed : BOOLEAN]
    /\ deletion.step = 0 => deletion = NoDeletion /\ gone = {}
    /\ deletion.step > 0 => TheWorkflow \in Seen
    /\ deletion.step > 0 /\ ~deletion.crossed => Emptied
    /\ ~unjust

\* Requests under way: at most one holds the row of the workflow, with its model
\* the one it is to report; who saw a metric sees it still.
Requests ==
    [kind : {"clear"}] \cup [kind : {"generate"}, metric : BOOLEAN]
    \cup [kind : {"patch"}, at : {"append"}, slug : {"a", "b"}] \cup [kind : {"try"}, waits : {FALSE}]
DeskInv ==
    /\ desk \in [Desk -> Requests]
    /\ \A d \in Desk : desk[d].kind = "generate" /\ desk[d].metric => metricDef # "none"
    /\ \A d \in Desk : desk[d].kind = "patch" => desk[d].slug = model
    /\ \A d, e \in Desk : desk[d].kind = "patch" /\ desk[e].kind = "patch" => d = e
    /\ (\A d \in Desk : desk[d].kind # "patch") => told = model
    /\ plan = "generated" => metricDef # "none"

BenchInv == BenchTypeOK /\ RowsInv /\ DeletionInv /\ DeskInv

-----------------------------------------------------------------------------
\* A row is in one of the tables.
LEMMA TableCases ==
    ASSUME NEW r \in DbRow
    PROVE  \/ TableOf[r] = "workflows" \/ TableOf[r] = "agents" \/ TableOf[r] = "skills" \/ TableOf[r] = "skill_versions"
           \/ TableOf[r] = "failure_clusters" \/ TableOf[r] = "eval_cases" \/ TableOf[r] = "iterations"
           \/ TableOf[r] = "traces" \/ TableOf[r] = "iteration_case_outputs" \/ TableOf[r] = "proposals"
           \/ TableOf[r] = "approvals"
  <1>1. TableOf[r] \in TableNames
    BY BenchAssumption
  <1>2. QED
    BY Zenon, <1>1 DEF TableNames

\* What a row of a table names.
LEMMA NamesOf ==
    ASSUME NEW r \in DbRow, NEW table, NEW targets, NEW always, TableOf[r] = table, ForeignKeys(table, targets, always)
    PROVE  /\ \A q \in Refers[r] : TableOf[q] \in targets
           /\ \A to \in always : \E q \in Refers[r] : TableOf[q] = to
  BY DEF ForeignKeys, OfTable

\* Which tables name a table.
LEMMA WhoNames ==
    ASSUME NEW q \in DbRow, NEW p \in Refers[q]
    PROVE  /\ p \in DbRow
           /\ TableOf[p] \notin {"approvals", "traces", "agents"} /\ TableOf[p] # "iteration_case_outputs"
           /\ TableOf[p] = "proposals" => TableOf[q] = "approvals"
           /\ TableOf[p] = "iterations" => TableOf[q] \in {"traces", "proposals", "iteration_case_outputs"}
           /\ TableOf[p] = "eval_cases" => TableOf[q] \in {"approvals", "iteration_case_outputs"}
           /\ TableOf[p] = "failure_clusters" => TableOf[q] \in {"eval_cases", "iterations"}
           /\ TableOf[p] = "skill_versions" => TableOf[q] = "skill_versions" \/ TableOf[q] \in {"iterations", "traces", "proposals"}
           /\ TableOf[p] = "skills" => TableOf[q] \in {"skill_versions", "proposals"}
           /\ TableOf[p] = "workflows" =>
                \/ TableOf[q] \in {"iterations", "traces", "agents"}
                \/ TableOf[q] \in {"skills", "failure_clusters", "eval_cases"}
  <1>1. p \in DbRow
    BY BenchAssumption
  <1>2. TableOf[q] # "workflows"
    BY NamesOf, BenchAssumption DEF Schema
  <1>3. TableOf[q] = "agents" \/ TableOf[q] = "skills" \/ TableOf[q] = "failure_clusters" => TableOf[p] = "workflows"
    BY NamesOf, BenchAssumption DEF Schema
  <1>4. TableOf[q] = "skill_versions" => TableOf[p] \in {"skills", "skill_versions"}
    BY NamesOf, BenchAssumption DEF Schema
  <1>5. TableOf[q] = "eval_cases" => TableOf[p] \in {"workflows", "failure_clusters"}
    BY NamesOf, BenchAssumption DEF Schema
  <1>6. TableOf[q] = "iterations" => TableOf[p] \in {"workflows", "skill_versions", "failure_clusters"}
    BY NamesOf, BenchAssumption DEF Schema
  <1>7. TableOf[q] = "traces" => TableOf[p] \in {"workflows", "iterations", "skill_versions"}
    BY NamesOf, BenchAssumption DEF Schema
  <1>8. TableOf[q] = "iteration_case_outputs" => TableOf[p] \in {"iterations", "eval_cases"}
    BY NamesOf, BenchAssumption DEF Schema
  <1>9. TableOf[q] = "proposals" => TableOf[p] \in {"iterations", "skills", "skill_versions"}
    BY NamesOf, BenchAssumption DEF Schema
  <1>10. TableOf[q] = "approvals" => TableOf[p] \in {"proposals", "eval_cases"}
    BY NamesOf, BenchAssumption DEF Schema
  <1>11. QED
    BY <1>1, <1>2, <1>3, <1>4, <1>5, <1>6, <1>7, <1>8, <1>9, <1>10, TableCases

\* Which rows a row always names.
LEMMA AlwaysNames ==
    ASSUME NEW r \in DbRow
    PROVE  /\ TableOf[r] = "workflows" <=> r = TheWorkflow
           /\ TableOf[r] \in {"agents", "skills", "failure_clusters"} => TheWorkflow \in Refers[r]
           /\ TableOf[r] \in {"eval_cases", "iterations", "traces"} => TheWorkflow \in Refers[r]
           /\ TableOf[r] = "skill_versions" => \E q \in Refers[r] : TableOf[q] = "skills"
           /\ TableOf[r] = "iteration_case_outputs" => \E q \in Refers[r] : TableOf[q] = "iterations"
           /\ TableOf[r] = "proposals" => \E q \in Refers[r] : TableOf[q] = "iterations"
           /\ TableOf[r] = "approvals" => \E q \in Refers[r] : TableOf[q] = "proposals"
  <1>1. \A q \in DbRow : TableOf[q] = "workflows" <=> q = TheWorkflow
    BY BenchAssumption DEF OfTable
  <1>2. \A q \in Refers[r] : q \in DbRow
    BY BenchAssumption
  <1>3. (\E q \in Refers[r] : TableOf[q] = "workflows") => TheWorkflow \in Refers[r]
    BY <1>1, <1>2
  <1>4. TableOf[r] = "agents" \/ TableOf[r] = "skills" \/ TableOf[r] = "failure_clusters" => TheWorkflow \in Refers[r]
    BY <1>3, NamesOf, BenchAssumption DEF Schema
  <1>5. TableOf[r] = "eval_cases" \/ TableOf[r] = "iterations" \/ TableOf[r] = "traces" => TheWorkflow \in Refers[r]
    BY <1>3, NamesOf, BenchAssumption DEF Schema
  <1>6. TableOf[r] = "skill_versions" => \E q \in Refers[r] : TableOf[q] = "skills"
    BY NamesOf, BenchAssumption DEF Schema
  <1>7. TableOf[r] = "iteration_case_outputs" => \E q \in Refers[r] : TableOf[q] = "iterations"
    BY NamesOf, BenchAssumption DEF Schema
  <1>8. TableOf[r] = "proposals" => \E q \in Refers[r] : TableOf[q] = "iterations"
    BY NamesOf, BenchAssumption DEF Schema
  <1>9. TableOf[r] = "approvals" => \E q \in Refers[r] : TableOf[q] = "proposals"
    BY NamesOf, BenchAssumption DEF Schema
  <1>10. QED
    BY <1>1, <1>4, <1>5, <1>6, <1>7, <1>8, <1>9

\* When no row is left that names the workflow, no row is left.
LEMMA NothingLeft ==
    ASSUME NEW S \in SUBSET DbRow, TheWorkflow \notin S, \A r \in S : Refers[r] \subseteq S
    PROVE  S = {}
  <1>1. ASSUME NEW r \in S, TheWorkflow \in Refers[r] PROVE FALSE
    BY <1>1
  <1>2. ASSUME NEW r \in S, TableOf[r] \in {"eval_cases", "iterations", "traces"} PROVE FALSE
    BY <1>1, <1>2, AlwaysNames
  <1>3. ASSUME NEW r \in S, TableOf[r] \in {"agents", "skills", "failure_clusters"} PROVE FALSE
    BY <1>1, <1>3, AlwaysNames
  <1>4. ASSUME NEW r \in S, TableOf[r] = "skill_versions" PROVE FALSE
    <2>1. PICK q \in Refers[r] : TableOf[q] = "skills"
      BY <1>4, AlwaysNames
    <2>2. q \in S
      OBVIOUS
    <2>3. QED
      BY <1>3, <2>1, <2>2
  <1>5. ASSUME NEW r \in S, TableOf[r] = "proposals" \/ TableOf[r] = "iteration_case_outputs" PROVE FALSE
    <2>1. PICK q \in Refers[r] : TableOf[q] = "iterations"
      BY <1>5, AlwaysNames
    <2>2. q \in S
      OBVIOUS
    <2>3. QED
      BY <1>2, <2>1, <2>2
  <1>6. ASSUME NEW r \in S, TableOf[r] = "approvals" PROVE FALSE
    <2>1. PICK q \in Refers[r] : TableOf[q] = "proposals"
      BY <1>6, AlwaysNames
    <2>2. q \in S
      OBVIOUS
    <2>3. QED
      BY <1>5, <2>1, <2>2
  <1>7. \A r \in S : TableOf[r] # "workflows"
    BY AlwaysNames
  <1>8. ASSUME NEW r \in S PROVE FALSE
    <2>1. r \in DbRow
      OBVIOUS
    <2>2. \/ TableOf[r] = "agents" \/ TableOf[r] = "skills" \/ TableOf[r] = "skill_versions"
          \/ TableOf[r] = "failure_clusters" \/ TableOf[r] = "eval_cases" \/ TableOf[r] = "iterations"
          \/ TableOf[r] = "traces" \/ TableOf[r] = "iteration_case_outputs" \/ TableOf[r] = "proposals"
          \/ TableOf[r] = "approvals"
      BY <1>7, <2>1, TableCases
    <2>3. QED
      BY <1>2, <1>3, <1>4, <1>5, <1>6, <2>2
  <1>9. QED
    BY <1>8

-----------------------------------------------------------------------------
\* The types of the deletion's record and of the rows.
LEMMA BenchTypes ==
    ASSUME BenchInv
    PROVE  /\ rows \in SUBSET DbRow /\ gone \subseteq rows /\ headed \subseteq rows /\ Seen \in SUBSET DbRow
           /\ deletion.step \in 0..10 /\ deletion.iters \subseteq DbRow /\ deletion.skills \subseteq DbRow
           /\ deletion.crossed \in BOOLEAN
  BY DEF BenchInv, RowsInv, DeletionInv, Seen

\* What new rows name beside themselves.
LEMMA NamedBy ==
    ASSUME NEW new, NEW r \in new, NEW q \in Refers[r], q \notin new
    PROVE  q \in Named(new)
  <1>1. q \in UNION {Refers[x] : x \in new}
    BY Zenon
  <1>2. QED
    BY <1>1 DEF Named

\* Rows are written beside whatever deletes.
LEMMA Inserts ==
    ASSUME BenchInv, NEW new \in SUBSET DbRow, new \cap rows = {}, TheWorkflow \in rows, Named(new) \subseteq rows \ gone,
           rows' = rows \cup new, headed' = headed \cup (new \cap OfTable("skills")), deletion' = Crossed,
           UNCHANGED <<gone, unjust>>
    PROVE  RowsInv' /\ DeletionInv'
  <1>1. rows' \in SUBSET DbRow /\ gone' \subseteq rows' /\ TheWorkflow \in rows' /\ Seen' = Seen \cup new
        /\ headed' \subseteq rows' \cap OfTable("skills")
    BY DEF BenchInv, RowsInv, Seen
  <1>2. \A r \in new : Refers[r] \subseteq Seen \cup new
    BY NamedBy DEF Seen
  <1>3. Closed(rows') /\ Closed(Seen')
    BY <1>1, <1>2 DEF BenchInv, RowsInv, Closed, Seen
  <1>4. RowsInv'
    BY <1>1, <1>3 DEF RowsInv, Closed, Seen
  <1>5. deletion' = [deletion EXCEPT !.crossed = deletion # NoDeletion]
    BY DEF Crossed
  <1>6. deletion \in [step : 0..10, iters : SUBSET DbRow, skills : SUBSET DbRow, crossed : BOOLEAN]
    BY DEF BenchInv, DeletionInv
  <1>7. CASE deletion.step = 0
    <2>1. deletion = NoDeletion /\ gone = {}
      BY <1>7 DEF BenchInv, DeletionInv
    <2>2. deletion' = NoDeletion
      BY <1>5, <2>1 DEF NoDeletion
    <2>3. DeletionInv'
      BY <1>6, <1>7, <2>1, <2>2 DEF BenchInv, DeletionInv
    <2>4. QED
      BY <1>4, <2>3
  <1>8. CASE deletion.step # 0
    <2>1. deletion # NoDeletion
      BY <1>8 DEF NoDeletion
    <2>2. deletion' = [deletion EXCEPT !.crossed = TRUE]
      BY <1>5, <2>1
    <2>3. deletion' \in [step : 0..10, iters : SUBSET DbRow, skills : SUBSET DbRow, crossed : BOOLEAN]
          /\ deletion'.crossed /\ deletion'.step = deletion.step
      BY <1>6, <2>2
    <2>4. TheWorkflow \in Seen'
      BY <1>1, <1>6, <1>8 DEF BenchInv, DeletionInv
    <2>5. DeletionInv'
      BY <1>8, <2>3, <2>4 DEF BenchInv, DeletionInv
    <2>6. QED
      BY <1>4, <2>5
  <1>9. QED
    BY <1>7, <1>8

\* What the requests and the artifacts keep when nothing of theirs changes.
LEMMA DeskStays ==
    ASSUME BenchInv, UNCHANGED <<artifacts, agentVars, desk>>
    PROVE  DeskInv'
  BY DEF BenchInv, DeskInv, artifacts, agentVars

\* A transaction that only inserts.
LEMMA PostStep ==
    ASSUME BenchInv, NEW new \in SUBSET DbRow, Post(new), TheWorkflow \in rows
    PROVE  BenchInv'
  <1>1. /\ writes < MaxWrites /\ writes' = writes + 1
        /\ new \cap rows = {} /\ Named(new) \subseteq rows \ gone
        /\ rows' = rows \cup new /\ headed' = headed \cup (new \cap OfTable("skills")) /\ deletion' = Crossed
        /\ UNCHANGED <<gone, artifacts, agentVars, desk, orders, unjust>>
    BY DEF Post, deskVars
  <1>2. RowsInv' /\ DeletionInv'
    BY <1>1, Inserts
  <1>3. DeskInv'
    BY <1>1, DeskStays
  <1>4. BenchTypeOK'
    <2>1. writes' \in 0..MaxWrites
      BY <1>1, BenchAssumption DEF BenchInv, BenchTypeOK
    <2>2. gone' \cup headed' \subseteq rows' /\ rows' \subseteq DbRow
      BY <1>2 DEF RowsInv
    <2>3. deletion'.step \in 0..Len(DeleteOrder)
      BY <1>2 DEF DeletionInv, DeleteOrder
    <2>4. QED
      BY <1>1, <2>1, <2>2, <2>3 DEF BenchInv, BenchTypeOK, artifacts
  <1>5. QED
    BY <1>2, <1>3, <1>4 DEF BenchInv

\* Runs, clusterings, registrations, cases and decisions insert rows.
LEMMA InsertStep ==
    ASSUME BenchInv,
           StartIteration \/ FinishIteration \/ ClusterProductionFailures \/ RegisterAgent \/ CreateEvalCase \/ Decide
    PROVE  BenchInv'
  <1>1. ASSUME NEW r \in DbRow, TableOf[r] # "workflows", TheWorkflow \in Refers[r], Post({r}) PROVE BenchInv'
    <2>1. TheWorkflow \in rows
      <3>1. TheWorkflow \notin {r}
        BY <1>1, AlwaysNames
      <3>2. TheWorkflow \in Named({r})
        BY <1>1, <3>1, NamedBy
      <3>3. QED
        BY <1>1, <3>2 DEF Post
    <2>2. QED
      BY <1>1, <2>1, PostStep
  <1>2. CASE StartIteration \/ ClusterProductionFailures \/ RegisterAgent \/ CreateEvalCase
    BY <1>1, <1>2, AlwaysNames DEF StartIteration, ClusterProductionFailures, RegisterAgent, CreateEvalCase, OfTable
  <1>3. CASE FinishIteration
    <2>1. PICK i \in OfTable("iterations") \cap rows : \E new \in SUBSET (Results \ rows) : Post(new)
      BY <1>3 DEF FinishIteration
    <2>2. PICK new \in SUBSET (Results \ rows) : Post(new)
      BY <2>1
    <2>3. new \in SUBSET DbRow
      BY DEF Results, OfTable
    <2>4. TheWorkflow \in rows
      BY <2>1 DEF BenchInv, RowsInv
    <2>5. QED
      BY <2>2, <2>3, <2>4, PostStep
  <1>4. CASE Decide
    <2>1. PICK a \in OfTable("approvals") : Post({a} \cup (Refers[a] \cap Feedback))
      BY <1>4 DEF Decide
    <2> DEFINE new == {a} \cup (Refers[a] \cap Feedback)
    <2>2. a \in DbRow /\ TableOf[a] = "approvals" /\ new \in SUBSET DbRow
      BY DEF OfTable, Feedback
    <2>3. PICK p \in Refers[a] : TableOf[p] = "proposals"
      BY <2>2, AlwaysNames
    <2>4. p \notin new
      BY <2>2, <2>3 DEF Feedback, OfTable
    <2>5. p \in rows
      <3>1. p \in Named(new)
        BY <2>3, <2>4, NamedBy
      <3>2. QED
        BY <2>1, <3>1 DEF Post
    <2>6. TheWorkflow \in rows
      BY <2>5 DEF BenchInv, RowsInv
    <2>7. QED
      BY <2>1, <2>2, <2>6, PostStep
  <1>5. QED
    BY <1>2, <1>3, <1>4

\* A set of rows that nothing else names can go.
LEMMA StaysClosed ==
    ASSUME NEW S \in SUBSET DbRow, Closed(S), NEW W, \A q \in S \ W : Refers[q] \cap W = {}
    PROVE  Closed(S \ W)
  BY DEF Closed

\* A row goes with the case outputs that name it.
LEMMA CascadeIs ==
    ASSUME NEW D, NEW S \in SUBSET DbRow
    PROVE  WithCascade(D, S) = D \cup {q \in S : TableOf[q] = "iteration_case_outputs" /\ Refers[q] \cap D # {}}
  BY DEF WithCascade, Cascading, OfTable

\* An eval case is deleted, also while a deletion of the workflow is open.
LEMMA DeleteCaseStep ==
    ASSUME BenchInv, DeleteEvalCase
    PROVE  BenchInv'
  <1>1. PICK e \in (OfTable("eval_cases") \cap rows) \ gone :
          /\ ~Held(WithCascade({e}, rows), rows, headed)
          /\ rows' = rows \ WithCascade({e}, rows) /\ gone' = gone \ WithCascade({e}, rows)
    BY DEF DeleteEvalCase
  <1>2. UNCHANGED <<headed, deletion, artifacts, agentVars, desk, orders, writes, unjust>>
    BY DEF DeleteEvalCase, deskVars
  <1>3. PICK W : W = WithCascade({e}, rows)
    OBVIOUS
  <1>4. \A q \in W : TableOf[q] = "eval_cases" \/ TableOf[q] = "iteration_case_outputs"
    BY <1>3, CascadeIs, BenchTypes DEF OfTable
  <1>5. TheWorkflow \notin W /\ W \cap OfTable("skills") = {}
    BY <1>4, AlwaysNames, BenchAssumption DEF OfTable
  <1>6. \A q \in rows \ W : Refers[q] \cap W = {}
    BY <1>1, <1>3 DEF Held
  <1>7. rows' = rows \ W /\ gone' = gone \ W /\ Seen' = Seen \ W
    BY <1>1, <1>3 DEF Seen
  <1>8. RowsInv'
    <2>1. rows \in SUBSET DbRow /\ Seen \in SUBSET DbRow /\ Closed(rows) /\ Closed(Seen)
      BY BenchTypes DEF BenchInv, RowsInv
    <2>2. Closed(rows \ W) /\ Closed(Seen \ W)
      BY <1>6, <2>1, StaysClosed DEF Seen
    <2>3. Closed(rows') /\ Closed(Seen')
      BY <1>7, <2>2
    <2>4. headed' \subseteq rows' \cap OfTable("skills") /\ gone' \subseteq rows' /\ rows' \in SUBSET DbRow
      BY <1>2, <1>5, <1>7 DEF BenchInv, RowsInv
    <2>5. TheWorkflow \in rows' \/ rows' = {}
      BY <1>5, <1>7 DEF BenchInv, RowsInv
    <2>6. QED
      BY <2>3, <2>4, <2>5 DEF RowsInv, Closed, Seen
  <1>9. DeletionInv'
    <2>1. Seen' \subseteq Seen /\ rows' \subseteq rows
      BY <1>7
    <2>2. \A table : NoneOf(table) => NoneOf(table)'
      BY <2>1 DEF NoneOf
    <2>3. deletion.step > 0 /\ ~deletion.crossed => Emptied'
      <3>1. deletion.step > 0 /\ ~deletion.crossed => Emptied
        BY DEF BenchInv, DeletionInv
      <3>2. QED
        BY <1>2, <2>1, <2>2, <3>1 DEF Emptied
    <2>4. deletion.step = 0 => gone' = {}
      BY <1>7 DEF BenchInv, DeletionInv
    <2>5. deletion.step > 0 => TheWorkflow \in Seen'
      BY <1>5, <1>7 DEF BenchInv, DeletionInv
    <2>6. QED
      BY <1>2, <2>3, <2>4, <2>5 DEF BenchInv, DeletionInv
  <1>10. DeskInv'
    BY <1>2, DeskStays
  <1>11. BenchTypeOK'
    BY <1>2, <1>8 DEF BenchInv, BenchTypeOK, RowsInv, artifacts
  <1>12. QED
    BY <1>8, <1>9, <1>10, <1>11 DEF BenchInv

\* A deletion of the workflow begins; its skills are looked up.
LEMMA BeginStep ==
    ASSUME BenchInv, BeginDelete \/ ClearPointers
    PROVE  BenchInv'
  <1>1. UNCHANGED <<rows, gone, headed, artifacts, agentVars, desk, writes, unjust>>
    BY DEF BeginDelete, ClearPointers, deskVars
  <1>2. Seen' = Seen /\ rows \in SUBSET DbRow
    BY <1>1 DEF Seen, BenchInv, RowsInv
  <1>3. RowsInv'
    BY <1>1, <1>2 DEF BenchInv, RowsInv, Closed, Seen
  <1>4. DeskInv'
    BY <1>1, DeskStays
  <1>5. deletion \in [step : 0..10, iters : SUBSET DbRow, skills : SUBSET DbRow, crossed : BOOLEAN]
    BY DEF BenchInv, DeletionInv
  <1>6. CASE BeginDelete
    <2>1. /\ deletion = NoDeletion /\ TheWorkflow \in rows /\ orders < MaxOrders /\ orders' = orders + 1
          /\ deletion' = [step |-> 1, iters |-> rows \cap OfTable("iterations"), skills |-> {}, crossed |-> FALSE]
      BY <1>6 DEF BeginDelete, NoDeletion
    <2>2. gone = {}
      BY <2>1 DEF BenchInv, DeletionInv, NoDeletion
    <2>3. /\ deletion'.step = 1 /\ deletion'.iters = rows \cap OfTable("iterations")
          /\ deletion' \in [step : 0..10, iters : SUBSET DbRow, skills : SUBSET DbRow, crossed : BOOLEAN]
      BY <1>2, <2>1
    <2>4. Emptied'
      BY <1>1, <2>3 DEF Emptied
    <2>5. TheWorkflow \in Seen'
      BY <1>2, <2>1, <2>2 DEF Seen
    <2>6. DeletionInv'
      BY <1>1, <2>3, <2>4, <2>5 DEF BenchInv, DeletionInv
    <2>7. orders' \in 0..MaxOrders
      BY <2>1, BenchAssumption DEF BenchInv, BenchTypeOK
    <2>8. BenchTypeOK'
      BY <1>1, <2>3, <2>7 DEF BenchInv, BenchTypeOK, DeleteOrder, artifacts
    <2>9. QED
      BY <1>3, <1>4, <2>6, <2>8 DEF BenchInv
  <1>7. CASE ClearPointers
    <2>1. deletion.step = 7
      <3>1. deletion.step \in 1..10 /\ DeleteOrder[deletion.step] = "pointers"
        BY <1>5, <1>7 DEF ClearPointers
      <3>2. QED
        BY <3>1 DEF DeleteOrder
    <2>2. deletion' = [deletion EXCEPT !.step = 8, !.skills = rows \cap OfTable("skills")] /\ orders' = orders
      BY <1>7, <2>1 DEF ClearPointers, deskVars
    <2>3. /\ deletion'.step = 8 /\ deletion'.iters = deletion.iters /\ deletion'.skills = rows \cap OfTable("skills")
          /\ deletion'.crossed = deletion.crossed
          /\ deletion' \in [step : 0..10, iters : SUBSET DbRow, skills : SUBSET DbRow, crossed : BOOLEAN]
      <3>1. PICK sk \in SUBSET DbRow : sk = rows \cap OfTable("skills")
        BY <1>2
      <3> DEFINE first == [deletion EXCEPT !.step = 8]
      <3>2. /\ first \in [step : 0..10, iters : SUBSET DbRow, skills : SUBSET DbRow, crossed : BOOLEAN]
            /\ first.step = 8 /\ first.iters = deletion.iters /\ first.crossed = deletion.crossed
        BY <1>5
      <3>3. deletion' = [first EXCEPT !.skills = sk]
        BY <1>5, <2>2, <3>1
      <3> HIDE DEF first
      <3>4. QED
        BY <3>1, <3>2, <3>3
    <2>4. ~deletion.crossed => Emptied'
      <3>1. ~deletion.crossed => Emptied
        BY <2>1 DEF BenchInv, DeletionInv
      <3>2. QED
        BY <1>1, <2>1, <2>3, <3>1 DEF Emptied, NoneOf, Seen
    <2>5. TheWorkflow \in Seen'
      BY <1>2, <2>1 DEF BenchInv, DeletionInv
    <2>6. DeletionInv'
      BY <1>1, <2>3, <2>4, <2>5 DEF BenchInv, DeletionInv
    <2>7. BenchTypeOK'
      BY <1>1, <2>2, <2>3 DEF BenchInv, BenchTypeOK, DeleteOrder, artifacts
    <2>8. QED
      BY <1>3, <1>4, <2>6, <2>7 DEF BenchInv
  <1>8. QED
    BY <1>6, <1>7

\* A row that a statement names is of its table, so that the workflow goes last.
LEMMA DoomedRows ==
    ASSUME NEW table, NEW S \in SUBSET DbRow
    PROVE  \A r \in Doomed(table, S) : r \in S /\ TableOf[r] = table
  BY DEF Doomed, OfTable

\* A statement of a deletion beside which nothing was written names every row of
\* its table, and no row left names one of those unless it goes with it.
LEMMA NamesAll ==
    ASSUME BenchInv, deletion.step > 0, ~deletion.crossed, NEW table, table = DeleteOrder[deletion.step], table # "pointers",
           NEW r \in Seen, TableOf[r] = table
    PROVE  r \in Doomed(table, Seen)
  <1>1. Emptied /\ Seen \in SUBSET DbRow /\ Seen \subseteq rows /\ \A q \in Seen : Refers[q] \subseteq Seen
    BY BenchTypes DEF BenchInv, DeletionInv, RowsInv, Closed, Seen
  <1>2. \A q \in Seen : TableOf[q] = "proposals" => Refers[q] \cap deletion.iters # {}
    <2>1. ASSUME NEW q \in Seen, TableOf[q] = "proposals" PROVE Refers[q] \cap deletion.iters # {}
      <3>1. PICK i \in Refers[q] : TableOf[i] = "iterations"
        BY <1>1, <2>1, AlwaysNames
      <3>2. i \in rows \cap OfTable("iterations")
        BY <1>1, <3>1 DEF OfTable
      <3>3. QED
        BY <1>1, <3>2 DEF Emptied
    <2>2. QED
      BY <2>1
  <1>3. CASE table = "approvals"
    <2>1. PICK p \in Refers[r] : TableOf[p] = "proposals"
      BY <1>1, <1>3, AlwaysNames
    <2>2. p \in Seen \cap OfTable("proposals")
      BY <1>1, <2>1 DEF OfTable
    <2>3. QED
      BY <1>1, <1>2, <1>3, <2>1, <2>2 DEF Doomed, OfTable
  <1>4. CASE table = "proposals"
    BY <1>1, <1>2, <1>4 DEF Doomed, OfTable
  <1>5. CASE table = "skill_versions"
    <2>1. PICK k \in Refers[r] : TableOf[k] = "skills"
      BY <1>1, <1>5, AlwaysNames
    <2>2. k \in rows \cap OfTable("skills")
      BY <1>1, <2>1 DEF OfTable
    <2>3. deletion.step > 7
      BY <1>5, BenchTypes DEF DeleteOrder
    <2>4. QED
      BY <1>1, <1>5, <2>2, <2>3 DEF Doomed, OfTable, Emptied
  <1>6. CASE table = "skills"
    <2>1. deletion.step > 7
      BY <1>6, BenchTypes DEF DeleteOrder
    <2>2. QED
      BY <1>1, <1>6, <2>1 DEF Doomed, OfTable, Emptied
  <1>7. CASE table = "workflows"
    BY <1>1, <1>7, AlwaysNames DEF Doomed, OfTable
  <1>8. CASE table \in {"traces", "iterations"}
    BY <1>1, <1>8, AlwaysNames DEF Doomed, OfTable
  <1>9. CASE table \in {"eval_cases", "failure_clusters"}
    BY <1>1, <1>9, AlwaysNames DEF Doomed, OfTable
  <1>10. QED
    <2>1. deletion.step \in 1..10
      BY BenchTypes
    <2>2. \/ table = "approvals" \/ table = "proposals" \/ table = "traces" \/ table = "iterations" \/ table = "eval_cases"
          \/ table = "failure_clusters" \/ table = "pointers" \/ table = "skill_versions" \/ table = "skills"
          \/ table = "workflows"
      BY <2>1 DEF DeleteOrder
    <2>3. QED
      BY <1>3, <1>4, <1>5, <1>6, <1>7, <1>8, <1>9, <2>2

\* Nothing stands in the way of a deletion beside which nothing was written and
\* that finds no agent.
LEMMA NothingHolds ==
    ASSUME BenchInv, deletion.step > 0, ~deletion.crossed, rows \cap OfTable("agents") = {},
           NEW table, table = DeleteOrder[deletion.step], table # "pointers",
           NEW D, D = WithCascade(Doomed(table, Seen), Seen)
    PROVE  ~Held(D, Seen, headed \ deletion.skills)
  <1>1. Emptied /\ Seen \in SUBSET DbRow /\ Seen \subseteq rows /\ headed \subseteq rows \cap OfTable("skills")
    BY BenchTypes DEF BenchInv, DeletionInv, RowsInv, Seen
  <1>2. \A p \in D : p \in DbRow /\ (TableOf[p] = table \/ TableOf[p] = "iteration_case_outputs")
    BY <1>1, CascadeIs, DoomedRows
  <1>3. deletion.step \in 1..10
    BY BenchTypes
  <1>4. ASSUME NEW q \in Seen \ D, NEW p \in Refers[q], p \in D PROVE FALSE
    <2>1. TableOf[p] = table /\ q \in DbRow /\ p \in DbRow
      BY <1>1, <1>2, <1>4, WhoNames
    <2>2. p \in Doomed(table, Seen)
      BY <1>1, <1>4, <2>1, CascadeIs, WhoNames
    <2>3. TableOf[q] # "iteration_case_outputs"
      BY <1>1, <1>4, <2>2, CascadeIs
    <2>4. TableOf[q] # table
      BY <1>1, <1>4, CascadeIs, NamesAll
    <2>5. TableOf[q] # "agents"
      BY <1>1 DEF OfTable
    <2>6. table # "approvals" /\ table # "traces"
      BY <2>1, WhoNames
    <2>20. /\ table = "proposals" => TableOf[q] = "approvals"
           /\ table = "iterations" => TableOf[q] = "traces" \/ TableOf[q] = "proposals"
           /\ table = "eval_cases" => TableOf[q] = "approvals"
           /\ table = "failure_clusters" => TableOf[q] = "eval_cases" \/ TableOf[q] = "iterations"
      BY <2>1, <2>3, WhoNames
    <2>21. /\ table = "skill_versions" => TableOf[q] = "iterations" \/ TableOf[q] = "traces" \/ TableOf[q] = "proposals"
           /\ table = "skills" => TableOf[q] = "skill_versions" \/ TableOf[q] = "proposals"
      BY <2>1, <2>4, WhoNames
    <2>22. table = "workflows" =>
             \/ TableOf[q] = "iterations" \/ TableOf[q] = "traces" \/ TableOf[q] = "skills"
             \/ TableOf[q] = "failure_clusters" \/ TableOf[q] = "eval_cases"
      BY <2>1, <2>5, WhoNames
    <2>23. /\ deletion.step > 1 => TableOf[q] # "approvals"
           /\ deletion.step > 2 => TableOf[q] # "proposals"
           /\ deletion.step > 3 => TableOf[q] # "traces"
           /\ deletion.step > 4 => TableOf[q] # "iterations"
           /\ deletion.step > 5 => TableOf[q] # "eval_cases"
           /\ deletion.step > 6 => TableOf[q] # "failure_clusters"
           /\ deletion.step > 8 => TableOf[q] # "skill_versions"
           /\ deletion.step > 9 => TableOf[q] # "skills"
      BY <1>1 DEF Emptied, NoneOf
    <2>7. CASE table = "proposals"
      <3>1. deletion.step > 1
        BY <1>3, <2>7 DEF DeleteOrder
      <3>2. QED
        BY <1>3, <2>20, <2>21, <2>22, <2>23, <2>7, <3>1
    <2>8. CASE table = "iterations"
      <3>1. deletion.step > 3
        BY <1>3, <2>8 DEF DeleteOrder
      <3>2. QED
        BY <1>3, <2>20, <2>21, <2>22, <2>23, <2>8, <3>1
    <2>9. CASE table = "eval_cases"
      <3>1. deletion.step > 4
        BY <1>3, <2>9 DEF DeleteOrder
      <3>2. QED
        BY <1>3, <2>20, <2>21, <2>22, <2>23, <2>9, <3>1
    <2>10. CASE table = "failure_clusters"
      <3>1. deletion.step > 5
        BY <1>3, <2>10 DEF DeleteOrder
      <3>2. QED
        BY <1>3, <2>20, <2>21, <2>22, <2>23, <2>10, <3>1
    <2>11. CASE table = "skill_versions"
      <3>1. deletion.step > 6
        BY <1>3, <2>11 DEF DeleteOrder
      <3>2. QED
        BY <1>3, <2>20, <2>21, <2>22, <2>23, <2>11, <3>1
    <2>12. CASE table = "skills"
      <3>1. deletion.step > 8
        BY <1>3, <2>12 DEF DeleteOrder
      <3>2. QED
        BY <1>3, <2>20, <2>21, <2>22, <2>23, <2>12, <3>1
    <2>13. CASE table = "workflows"
      <3>1. deletion.step > 9
        BY <1>3, <2>13 DEF DeleteOrder
      <3>2. QED
        BY <1>3, <2>20, <2>21, <2>22, <2>23, <2>13, <3>1
    <2>14. \/ table = "approvals" \/ table = "proposals" \/ table = "traces" \/ table = "iterations" \/ table = "eval_cases"
           \/ table = "failure_clusters" \/ table = "pointers" \/ table = "skill_versions" \/ table = "skills"
           \/ table = "workflows"
      BY <1>3 DEF DeleteOrder
    <2>15. QED
      BY <2>6, <2>7, <2>8, <2>9, <2>10, <2>11, <2>12, <2>13, <2>14
  <1>5. ASSUME NEW k \in headed \ deletion.skills, NEW v \in D, TableOf[v] = "skill_versions" PROVE FALSE
    <2>1. table = "skill_versions"
      BY <1>2, <1>5
    <2>2. deletion.step > 7
      BY <1>3, <2>1 DEF DeleteOrder
    <2>3. QED
      BY <1>1, <1>5, <2>2 DEF Emptied
  <1>6. QED
    BY <1>4, <1>5 DEF Held

\* After a statement that found all of its table, none of it is left.
LEMMA EmptiedNext ==
    ASSUME BenchInv, NEW n \in 1..9, n = deletion.step, n # 7, ~deletion.crossed,
           NEW D, D = WithCascade(Doomed(DeleteOrder[n], Seen), Seen),
           UNCHANGED rows, gone' = gone \cup D, deletion' = [deletion EXCEPT !.step = n + 1]
    PROVE  Emptied'
  <1>1. Emptied /\ Seen \in SUBSET DbRow
    BY BenchTypes DEF BenchInv, DeletionInv
  <1>2. PICK table : table = DeleteOrder[n]
    OBVIOUS
  <1>3. Seen' = Seen \ D
    BY DEF Seen
  <1>4. ASSUME NEW t, NoneOf(t) PROVE NoneOf(t)'
    BY <1>3, <1>4 DEF NoneOf
  <1>5. table # "pointers"
    BY <1>2 DEF DeleteOrder
  <1>6. NoneOf(table)'
    <2>1. \A r \in Seen : TableOf[r] = table => r \in D
      BY <1>1, <1>2, <1>5, NamesAll, CascadeIs
    <2>2. QED
      BY <1>3, <2>1 DEF NoneOf
  <1>7. deletion'.step = n + 1 /\ deletion'.iters = deletion.iters /\ deletion'.skills = deletion.skills
    BY DEF BenchInv, DeletionInv
  <1>8. /\ rows \cap OfTable("iterations") \subseteq deletion'.iters
        /\ deletion'.step > 7 => rows \cap OfTable("skills") \subseteq deletion'.skills
    BY <1>1, <1>7 DEF Emptied
  <1>9. NoneOf("approvals")'
    <2>1. CASE n = 1
      BY <1>2, <1>6, <2>1 DEF DeleteOrder
    <2>2. CASE n > 1
      BY <1>1, <1>4, <2>2 DEF Emptied
    <2>3. QED
      BY <2>1, <2>2
  <1>10. n > 1 => NoneOf("proposals")'
    <2>1. CASE n = 2
      BY <1>2, <1>6, <2>1 DEF DeleteOrder
    <2>2. CASE n > 2
      BY <1>1, <1>4, <2>2 DEF Emptied
    <2>3. QED
      BY <2>1, <2>2
  <1>11. n > 2 => NoneOf("traces")'
    <2>1. CASE n = 3
      BY <1>2, <1>6, <2>1 DEF DeleteOrder
    <2>2. CASE n > 3
      BY <1>1, <1>4, <2>2 DEF Emptied
    <2>3. QED
      BY <2>1, <2>2
  <1>12. n > 3 => NoneOf("iterations")'
    <2>1. CASE n = 4
      BY <1>2, <1>6, <2>1 DEF DeleteOrder
    <2>2. CASE n > 4
      BY <1>1, <1>4, <2>2 DEF Emptied
    <2>3. QED
      BY <2>1, <2>2
  <1>13. n > 4 => NoneOf("eval_cases")'
    <2>1. CASE n = 5
      BY <1>2, <1>6, <2>1 DEF DeleteOrder
    <2>2. CASE n > 5
      BY <1>1, <1>4, <2>2 DEF Emptied
    <2>3. QED
      BY <2>1, <2>2
  <1>14. n > 5 => NoneOf("failure_clusters")'
    <2>1. CASE n = 6
      BY <1>2, <1>6, <2>1 DEF DeleteOrder
    <2>2. CASE n > 6
      BY <1>1, <1>4, <2>2 DEF Emptied
    <2>3. QED
      BY <2>1, <2>2
  <1>15. n > 7 => NoneOf("skill_versions")'
    <2>1. CASE n = 8
      BY <1>2, <1>6, <2>1 DEF DeleteOrder
    <2>2. CASE n > 8
      BY <1>1, <1>4, <2>2 DEF Emptied
    <2>3. QED
      BY <2>1, <2>2
  <1>16. n > 8 => NoneOf("skills")'
    BY <1>2, <1>6 DEF DeleteOrder
  <1>17. QED
    BY <1>7, <1>8, <1>9, <1>10, <1>11, <1>12, <1>13, <1>14, <1>15, <1>16 DEF Emptied

\* One statement of the deletion of the workflow.
LEMMA DeleteRowsStep ==
    ASSUME BenchInv, DeleteRows
    PROVE  BenchInv'
  <1>1. PICK n \in 1..10 : n = deletion.step
    BY BenchTypes DEF DeleteRows
  <1>2. PICK D : D = WithCascade(Doomed(DeleteOrder[n], Seen), Seen)
    OBVIOUS
  <1>3. n # 7 /\ DeleteOrder[n] # "pointers" /\ (n = 10 <=> DeleteOrder[n] = "workflows") /\ Len(DeleteOrder) = 10
    BY <1>1 DEF DeleteRows, DeleteOrder
  <1>4. UNCHANGED <<artifacts, agentVars, desk, orders, writes>>
    BY DEF DeleteRows, deskVars
  <1>5. /\ rows \in SUBSET DbRow /\ Seen \in SUBSET DbRow /\ Seen \subseteq rows /\ Closed(rows) /\ Closed(Seen)
        /\ gone \subseteq rows /\ headed \subseteq rows \cap OfTable("skills") /\ TheWorkflow \in Seen
        /\ deletion \in [step : 0..10, iters : SUBSET DbRow, skills : SUBSET DbRow, crossed : BOOLEAN]
    BY <1>1, BenchTypes DEF BenchInv, RowsInv, DeletionInv, Seen
  <1>6. D \subseteq Seen /\ \A p \in D : TableOf[p] = DeleteOrder[n] \/ TableOf[p] = "iteration_case_outputs"
    BY <1>2, <1>5, CascadeIs, DoomedRows
  <1>7. DeskInv'
    BY <1>4, DeskStays
  <1>8. NoDeletion \in [step : 0..10, iters : SUBSET DbRow, skills : SUBSET DbRow, crossed : BOOLEAN] /\ NoDeletion.step = 0
    BY DEF NoDeletion
  <1>9. CASE Held(D, Seen, headed \ deletion.skills)
    <2>1. /\ deletion' = NoDeletion /\ gone' = {} /\ UNCHANGED <<rows, headed>>
          /\ unjust' = (unjust \/ ~(deletion.crossed \/ rows \cap OfTable("agents") # {}))
      BY <1>1, <1>2, <1>9 DEF DeleteRows, Seen
    <2>2. ~unjust'
      <3>1. deletion.crossed \/ rows \cap OfTable("agents") # {}
        BY <1>1, <1>2, <1>3, <1>5, <1>9, NothingHolds
      <3>2. QED
        BY <2>1, <3>1 DEF BenchInv, DeletionInv
    <2>3. Seen' = rows
      BY <2>1 DEF Seen
    <2>4. RowsInv'
      BY <1>5, <2>1, <2>3 DEF BenchInv, RowsInv, Closed
    <2>5. DeletionInv'
      BY <1>8, <2>1, <2>2 DEF DeletionInv
    <2>6. BenchTypeOK'
      BY <1>4, <1>8, <2>1, <2>4 DEF BenchInv, BenchTypeOK, RowsInv, DeleteOrder, artifacts
    <2>7. QED
      BY <1>7, <2>4, <2>5, <2>6 DEF BenchInv
  <1>10. CASE ~Held(D, Seen, headed \ deletion.skills)
    <2>1. Closed(Seen \ D)
      <3>1. \A q \in Seen \ D : Refers[q] \cap D = {}
        BY <1>10 DEF Held
      <3>2. QED
        BY <1>5, <3>1, StaysClosed
    <2>2. CASE n < 10
      <3>1. gone' = gone \cup D /\ deletion' = [deletion EXCEPT !.step = n + 1] /\ UNCHANGED <<rows, headed, unjust>>
        BY <1>1, <1>2, <1>3, <1>10, <2>2 DEF DeleteRows, Seen
      <3>2. Seen' = Seen \ D
        BY <3>1 DEF Seen
      <3>3. TheWorkflow \in Seen'
        <4>1. TableOf[TheWorkflow] = "workflows"
          BY AlwaysNames, BenchAssumption
        <4>2. TheWorkflow \notin D
          BY <1>3, <1>6, <2>2, <4>1
        <4>3. QED
          BY <1>5, <3>2, <4>2
      <3>4. /\ deletion' \in [step : 0..10, iters : SUBSET DbRow, skills : SUBSET DbRow, crossed : BOOLEAN]
            /\ deletion'.step = n + 1 /\ deletion'.crossed = deletion.crossed
        BY <1>5, <2>2, <3>1
      <3>5. RowsInv'
        BY <1>5, <1>6, <2>1, <3>1, <3>2 DEF BenchInv, RowsInv, Closed
      <3>6. ~deletion.crossed => Emptied'
        BY <1>1, <1>2, <1>3, <2>2, <3>1, EmptiedNext
      <3>7. DeletionInv'
        BY <3>1, <3>3, <3>4, <3>6 DEF BenchInv, DeletionInv
      <3>8. BenchTypeOK'
        BY <1>4, <3>1, <3>4, <3>5 DEF BenchInv, BenchTypeOK, RowsInv, DeleteOrder, artifacts
      <3>9. QED
        BY <1>7, <3>5, <3>7, <3>8 DEF BenchInv
    <2>3. CASE n = 10
      <3>1. /\ rows' = Seen \ D /\ headed' = headed \cap (Seen \ D) /\ deletion' = NoDeletion /\ gone' = {} /\ UNCHANGED unjust
        BY <1>1, <1>2, <1>3, <1>10, <2>3, SMTT(60) DEF DeleteRows, Seen
      <3>2. TheWorkflow \in D
        <4>1. TheWorkflow \in Doomed("workflows", Seen)
          BY <1>5, BenchAssumption DEF Doomed
        <4>2. QED
          BY <1>2, <1>3, <1>5, <2>3, <4>1, CascadeIs
      <3>3. rows' = {}
        <4>1. \A r \in Seen \ D : Refers[r] \subseteq Seen \ D
          BY <2>1 DEF Closed
        <4>2. QED
          BY <1>5, <3>1, <3>2, <4>1, NothingLeft
      <3>4. RowsInv'
        BY <1>5, <3>1, <3>3 DEF RowsInv, Closed, Seen
      <3>5. DeletionInv'
        BY <1>8, <3>1 DEF BenchInv, DeletionInv
      <3>6. BenchTypeOK'
        BY <1>4, <1>8, <3>1, <3>4 DEF BenchInv, BenchTypeOK, RowsInv, DeleteOrder, artifacts
      <3>7. QED
        BY <1>7, <3>4, <3>5, <3>6 DEF BenchInv
    <2>4. QED
      BY <2>2, <2>3
  <1>11. QED
    BY <1>9, <1>10

\* The forms of a request.
LEMMA Forms ==
    ASSUME NEW r
    PROVE  r \in Requests <=> \/ r = Clear
                              \/ r.kind = "generate" /\ r \in [kind : {"generate"}, metric : BOOLEAN]
                              \/ r.kind = "patch" /\ r \in [kind : {"patch"}, at : {"append"}, slug : {"a", "b"}]
                              \/ r.kind = "try" /\ r \in [kind : {"try"}, waits : {FALSE}]
  <1>1. r \in [kind : {"clear"}] <=> r = Clear
    BY DEF Clear
  <1>2. QED
    BY <1>1 DEF Requests

\* A step of a request that writes no row.
LEMMA Keeps ==
    ASSUME BenchInv, UNCHANGED <<rows, gone, headed, deletion, writes, unjust>>, orders' \in 0..MaxOrders, DeskInv',
           plan' \in {"none", "first", "generated"}, metricDef' \in {"none", "first", "generated"}
    PROVE  BenchInv'
  <1>1. Seen' = Seen
    BY DEF Seen
  <1>2. RowsInv' /\ DeletionInv'
    BY <1>1 DEF BenchInv, RowsInv, DeletionInv, Emptied, NoneOf, Closed, Seen
  <1>3. BenchTypeOK'
    BY DEF BenchInv, BenchTypeOK
  <1>4. QED
    BY <1>2, <1>3 DEF BenchInv

\* A request starts.
LEMMA Starting ==
    ASSUME BenchInv, NEW d \in Desk, NEW r \in Requests, Order(d, r)
    PROVE  /\ orders' \in 0..MaxOrders /\ desk' \in [Desk -> Requests] /\ desk'[d] = r /\ desk[d].kind = "clear"
           /\ \A e \in Desk : e # d => desk'[e] = desk[e]
  <1>1. orders \in 0..MaxOrders /\ MaxOrders \in Nat /\ desk \in [Desk -> Requests]
    BY BenchAssumption DEF BenchInv, BenchTypeOK, DeskInv
  <1>2. desk[d] = Clear /\ orders < MaxOrders /\ desk' = [desk EXCEPT ![d] = r] /\ orders' = orders + 1
    BY DEF Order
  <1>3. orders' \in 0..MaxOrders
    BY <1>1, <1>2
  <1>4. desk[d].kind = "clear"
    BY <1>2 DEF Clear
  <1>5. QED
    BY <1>1, <1>2, <1>3, <1>4

\* A request ends.
LEMMA Ending ==
    ASSUME BenchInv, NEW d \in Desk, Turn(d, Clear)
    PROVE  /\ orders' \in 0..MaxOrders /\ desk' \in [Desk -> Requests] /\ desk'[d].kind = "clear"
           /\ \A e \in Desk : e # d => desk'[e] = desk[e]
  <1>1. desk \in [Desk -> Requests] /\ desk' = [desk EXCEPT ![d] = Clear] /\ orders' = orders
    BY DEF BenchInv, DeskInv, Turn
  <1>2. Clear \in Requests /\ Clear.kind = "clear"
    BY Forms DEF Clear
  <1>3. QED
    BY <1>1, <1>2 DEF BenchInv, BenchTypeOK

\* The generation of cases begins and is written.
LEMMA GenerateStep ==
    ASSUME BenchInv, NEW d \in Desk, BeginGenerate(d) \/ PersistGenerated(d)
    PROVE  BenchInv'
  <1>1. plan \in {"none", "first", "generated"} /\ metricDef \in {"none", "first", "generated"}
    BY DEF BenchInv, BenchTypeOK
  <1>2. CASE BeginGenerate(d)
    <2>1. PICK m \in BOOLEAN : m = (metricDef # "none")
      OBVIOUS
    <2>2. PICK r : r = [kind |-> "generate", metric |-> m]
      OBVIOUS
    <2>3. Order(d, r) /\ UNCHANGED <<rows, gone, headed, deletion, writes, unjust, plan, metricDef, model, told>>
      BY <1>2, <2>1, <2>2 DEF BeginGenerate, bench, artifacts, agentVars
    <2>4. r \in Requests /\ r.kind = "generate" /\ r.metric = m
      BY <2>2, Forms
    <2>5. /\ orders' \in 0..MaxOrders /\ desk' \in [Desk -> Requests] /\ desk'[d] = r /\ desk[d].kind = "clear"
          /\ \A e \in Desk : e # d => desk'[e] = desk[e]
      BY <2>3, <2>4, Starting
    <2>6. DeskInv'
      BY <2>1, <2>3, <2>4, <2>5 DEF BenchInv, DeskInv
    <2>7. QED
      BY <1>1, <2>3, <2>5, <2>6, Keeps
  <1>3. CASE PersistGenerated(d)
    <2>1. /\ desk[d].kind = "generate" /\ Turn(d, Clear)
          /\ UNCHANGED <<gone, headed, writes, unjust, model, told>>
      BY <1>3 DEF PersistGenerated, agentVars
    <2>2. /\ orders' \in 0..MaxOrders /\ desk' \in [Desk -> Requests] /\ desk'[d].kind = "clear"
          /\ \A e \in Desk : e # d => desk'[e] = desk[e]
      BY <2>1, Ending
    <2>3. CASE UNCHANGED <<rows, deletion, artifacts>>
      <3>1. DeskInv'
        BY <2>1, <2>2, <2>3 DEF BenchInv, DeskInv, artifacts
      <3>2. QED
        BY <1>1, <2>1, <2>2, <2>3, <3>1, Keeps DEF artifacts
    <2>4. CASE ~UNCHANGED <<rows, deletion, artifacts>>
      <3>1. PICK e \in OfTable("eval_cases") \ (Feedback \cup rows) : Named({e}) \subseteq rows \ gone /\ rows' = rows \cup {e}
        BY <1>3, <2>4 DEF PersistGenerated
      <3>2. TheWorkflow \in rows /\ deletion' = Crossed /\ plan' = "generated" /\ metricDef' = NewMetric(d)
        BY <1>3, <2>4 DEF PersistGenerated
      <3>3. RowsInv' /\ DeletionInv'
        <4>1. {e} \in SUBSET DbRow /\ {e} \cap rows = {} /\ {e} \cap OfTable("skills") = {}
          BY <3>1 DEF OfTable
        <4>2. headed' = headed \cup ({e} \cap OfTable("skills"))
          BY <2>1, <4>1
        <4>3. QED
          BY <2>1, <3>1, <3>2, <4>1, <4>2, Inserts
      <3>4. metricDef' # "none" /\ metricDef' \in {"none", "first", "generated"}
        <4>1. CASE desk[d].metric
          BY <1>1, <2>1, <3>2, <4>1 DEF NewMetric, BenchInv, DeskInv
        <4>2. CASE ~desk[d].metric
          BY <3>2, <4>2 DEF NewMetric
        <4>3. QED
          BY <4>1, <4>2
      <3>5. DeskInv'
        BY <2>1, <2>2, <3>4 DEF BenchInv, DeskInv
      <3>6. BenchTypeOK'
        BY <2>1, <2>2, <3>2, <3>3, <3>4 DEF BenchInv, BenchTypeOK, RowsInv, DeletionInv, DeleteOrder
      <3>7. QED
        BY <3>3, <3>5, <3>6 DEF BenchInv
    <2>5. QED
      BY <2>3, <2>4
  <1>4. QED
    BY <1>2, <1>3

\* The model changes and the change is told.
LEMMA ModelStep ==
    ASSUME BenchInv, NEW d \in Desk, UpdateModel(d) \/ AppendModelChange(d)
    PROVE  BenchInv'
  <1>1. plan \in {"none", "first", "generated"} /\ metricDef \in {"none", "first", "generated"}
    BY DEF BenchInv, BenchTypeOK
  <1>2. CASE UpdateModel(d)
    <2>1. PICK slug \in {"a", "b"} : Order(d, [kind |-> "patch", at |-> "append", slug |-> slug]) /\ model' = slug
      BY <1>2 DEF UpdateModel
    <2>2. WorkflowFree(d) /\ UNCHANGED <<rows, gone, headed, deletion, writes, unjust, plan, metricDef, told>>
      BY <1>2 DEF UpdateModel, bench, artifacts
    <2>3. PICK r : r = [kind |-> "patch", at |-> "append", slug |-> slug]
      OBVIOUS
    <2>4. r \in Requests /\ r.kind = "patch" /\ r.slug = slug
      BY <2>3, Forms
    <2>5. /\ orders' \in 0..MaxOrders /\ desk' \in [Desk -> Requests] /\ desk'[d] = r /\ desk[d].kind = "clear"
          /\ \A e \in Desk : e # d => desk'[e] = desk[e]
      BY <2>1, <2>3, <2>4, Starting
    <2>6. \A e \in Desk : e # d => desk[e].kind # "patch"
      <3>1. ASSUME NEW e \in Desk, e # d, desk[e].kind = "patch" PROVE FALSE
        <4>1. desk[e].at = "append"
          <5>1. PICK q \in Requests : q = desk[e] /\ q.kind = "patch"
            BY <3>1 DEF BenchInv, DeskInv
          <5>2. q # Clear /\ q.kind # "generate" /\ q.kind # "try"
            BY <5>1 DEF Clear
          <5>3. q \in [kind : {"patch"}, at : {"append"}, slug : {"a", "b"}]
            BY <5>2, Forms
          <5>4. QED
            BY <5>1, <5>3
        <4>2. QED
          BY <2>2, <3>1, <4>1 DEF WorkflowFree
      <3>2. QED
        BY <3>1
    <2>7. DeskInv'
      BY <2>1, <2>2, <2>4, <2>5, <2>6 DEF BenchInv, DeskInv
    <2>8. QED
      BY <1>1, <2>2, <2>5, <2>7, Keeps
  <1>3. CASE AppendModelChange(d)
    <2>1. /\ desk[d].kind = "patch" /\ told' = desk[d].slug /\ Turn(d, Clear)
          /\ UNCHANGED <<rows, gone, headed, deletion, writes, unjust, plan, metricDef, model>>
      BY <1>3 DEF AppendModelChange, bench, artifacts
    <2>2. /\ orders' \in 0..MaxOrders /\ desk' \in [Desk -> Requests] /\ desk'[d].kind = "clear"
          /\ \A e \in Desk : e # d => desk'[e] = desk[e]
      BY <2>1, Ending
    <2>3. DeskInv'
      BY <2>1, <2>2 DEF BenchInv, DeskInv
    <2>4. QED
      BY <1>1, <2>1, <2>2, <2>3, Keeps
  <1>4. QED
    BY <1>2, <1>3

\* A case is tried.
LEMMA TryStep ==
    ASSUME BenchInv, NEW d \in Desk, TryCase(d) \/ TryEnds(d)
    PROVE  BenchInv'
  <1>1. plan \in {"none", "first", "generated"} /\ metricDef \in {"none", "first", "generated"}
    BY DEF BenchInv, BenchTypeOK
  <1>2. UNCHANGED <<rows, gone, headed, deletion, writes, unjust, plan, metricDef, model, told>>
    BY DEF TryCase, TryEnds, bench, artifacts, agentVars
  <1>3. CASE TryCase(d)
    <2>1. ~Trying /\ Order(d, [kind |-> "try", waits |-> Trying])
      BY <1>3 DEF TryCase
    <2>2. PICK r : r = [kind |-> "try", waits |-> FALSE]
      OBVIOUS
    <2>3. Order(d, r)
      <3>1. Trying = FALSE
        BY <2>1 DEF Trying
      <3>2. QED
        BY <2>1, <2>2, <3>1
    <2>4. r \in Requests /\ r.kind = "try"
      BY <2>2, Forms
    <2>5. /\ orders' \in 0..MaxOrders /\ desk' \in [Desk -> Requests] /\ desk'[d] = r /\ desk[d].kind = "clear"
          /\ \A e \in Desk : e # d => desk'[e] = desk[e]
      BY <2>3, <2>4, Starting
    <2>6. DeskInv'
      BY <1>2, <2>4, <2>5 DEF BenchInv, DeskInv
    <2>7. QED
      BY <1>1, <1>2, <2>5, <2>6, Keeps
  <1>4. CASE TryEnds(d)
    <2>1. desk[d].kind = "try" /\ Turn(d, Clear)
      BY <1>4 DEF TryEnds
    <2>2. /\ orders' \in 0..MaxOrders /\ desk' \in [Desk -> Requests] /\ desk'[d].kind = "clear"
          /\ \A e \in Desk : e # d => desk'[e] = desk[e]
      BY <2>1, Ending
    <2>3. DeskInv'
      BY <1>2, <2>1, <2>2 DEF BenchInv, DeskInv
    <2>4. QED
      BY <1>1, <1>2, <2>2, <2>3, Keeps
  <1>5. QED
    BY <1>3, <1>4

-----------------------------------------------------------------------------
\* The invariant holds at the start.
LEMMA BenchInvInit == BenchInit => BenchInv
  <1> SUFFICES ASSUME BenchInit PROVE BenchInv
    OBVIOUS
  <1>1. /\ rows \in Stocks /\ headed = rows \cap OfTable("skills") /\ gone = {} /\ deletion = NoDeletion
        /\ plan \in {"none", "first"} /\ metricDef \in {plan, "first"}
        /\ model = "default" /\ told = "default"
        /\ desk = [d \in Desk |-> Clear] /\ writes = 0 /\ orders = 0 /\ unjust = FALSE
    BY Zenon DEF BenchInit
  <1>2. rows \in SUBSET DbRow /\ TheWorkflow \in rows /\ Closed(rows) /\ Seen = rows
    BY <1>1, BenchAssumption DEF Closed, Seen
  <1>3. RowsInv
    BY <1>1, <1>2 DEF RowsInv
  <1>4. NoDeletion \in [step : 0..10, iters : SUBSET DbRow, skills : SUBSET DbRow, crossed : BOOLEAN] /\ NoDeletion.step = 0
    BY DEF NoDeletion
  <1>5. DeletionInv
    BY <1>1, <1>4 DEF DeletionInv
  <1>6. desk \in [Desk -> Requests] /\ \A d \in Desk : desk[d].kind = "clear"
    <2>1. Clear \in Requests /\ Clear.kind = "clear"
      BY Forms DEF Clear
    <2>2. QED
      BY <1>1, <2>1
  <1>7. DeskInv
    BY <1>1, <1>6 DEF DeskInv
  <1>8. BenchTypeOK
    BY <1>1, <1>2, <1>4, BenchAssumption DEF BenchTypeOK, DeleteOrder
  <1>9. QED
    BY <1>3, <1>5, <1>7, <1>8 DEF BenchInv

\* Every step keeps the invariant.
LEMMA BenchInvStep == BenchInv /\ [BenchNext]_benchVars => BenchInv'
  <1> SUFFICES ASSUME BenchInv, [BenchNext]_benchVars PROVE BenchInv'
    OBVIOUS
  <1>1. CASE StartIteration \/ FinishIteration \/ ClusterProductionFailures \/ RegisterAgent \/ CreateEvalCase \/ Decide
    BY <1>1, InsertStep
  <1>2. CASE DeleteEvalCase \/ BeginDelete \/ ClearPointers \/ DeleteRows
    BY <1>2, DeleteCaseStep, BeginStep, DeleteRowsStep
  <1>3. ASSUME NEW d \in Desk,
               \/ BeginGenerate(d) \/ PersistGenerated(d) \/ UpdateModel(d) \/ AppendModelChange(d)
               \/ TryCase(d) \/ TryEnds(d)
        PROVE  BenchInv'
    BY <1>3, GenerateStep, ModelStep, TryStep
  <1>4. CASE UNCHANGED benchVars
    <2>1. UNCHANGED <<rows, gone, headed, deletion, writes, unjust, plan, metricDef, model, told, desk, orders>>
      BY <1>4 DEF benchVars
    <2>2. DeskInv'
      BY <2>1, DeskStays DEF artifacts, agentVars
    <2>3. QED
      BY <2>1, <2>2, Keeps DEF BenchInv, BenchTypeOK
  <1>5. QED
    BY <1>1, <1>2, <1>3, <1>4 DEF BenchNext

\* The inductive invariant holds throughout.
THEOREM BenchInvariance == BenchSpec => []BenchInv
  <1>1. QED
    BY BenchInvInit, BenchInvStep, PTL DEF BenchSpec

\* The variables of the workbench keep their types.
THEOREM BenchTypeCorrect == BenchSpec => []BenchTypeOK
  <1>1. BenchInv => BenchTypeOK
    BY DEF BenchInv
  <1>2. QED
    BY <1>1, BenchInvariance, PTL

\* A workflow goes whole or stays whole, for any rows that keep the foreign keys
\* and any number of requests: no statement of its deletion is refused unless
\* rows were written beside it or an agent is registered, nothing of it is left
\* behind, a generated plan has a metric, and the audit's last word on the model
\* is the model.
THEOREM StaysWhole == BenchSpec => []WorkflowStaysWhole
  <1>1. ASSUME BenchInv, NEW d \in Desk, desk[d].kind = "try" PROVE ~desk[d].waits
    <2>1. PICK r \in Requests : r = desk[d] /\ r.kind = "try"
      BY <1>1 DEF BenchInv, DeskInv
    <2>2. r # Clear /\ r.kind # "generate" /\ r.kind # "patch"
      BY <2>1 DEF Clear
    <2>3. r \in [kind : {"try"}, waits : {FALSE}]
      BY <2>2, Forms
    <2>4. QED
      BY <2>1, <2>3
  <1>2. BenchInv => WorkflowStaysWhole
    BY <1>1 DEF BenchInv, RowsInv, DeletionInv, DeskInv, WorkflowStaysWhole
  <1>3. QED
    BY <1>2, BenchInvariance, PTL
-----------------------------------------------------------------------------
(*****************************************************************************)
(* The discovery interview and the generation of a workflow.                 *)
(*****************************************************************************)

\* The questions of the kernel, and those of the scan.
LLMQuestions == {[by |-> "llm", dim |-> d, index |-> 0] : d \in Dimension}
TemplateQuestions == {[by |-> "template", dim |-> Template[n + 1], index |-> n] : n \in 0..Len(Template) - 1}
KernelQuestions == LLMQuestions \cup TemplateQuestions
FindingAt(i) == [by |-> "scan", dim |-> "goal", index |-> i]
Finding == {FindingAt(i) : i \in Nat}
Question == KernelQuestions \cup Finding

PageT == [next : KernelQuestions \cup {NoQuestion}, done : BOOLEAN, loaded : BOOLEAN, total : Nat, log : Seq(Question),
          retried : BOOLEAN, scanned : BOOLEAN, found : {0, NumFindings}, settled : 0..NumFindings, waits : Nat,
          sent : Nat, over : BOOLEAN]
RequestT == [page : Page, n : Nat, kind : {"question", "generate"}, entries : SUBSET Question, stage : 1..4,
             attempt : Nat, tokens : Nat]
DesignTypes ==
    /\ page \in [Page -> PageT]
    /\ requests \in SUBSET RequestT /\ IsFiniteSet(requests)
    /\ \A w \in built : w.of \in Page

\* The entries cover the dimensions or the template.
CoveredBy(entries) == OpenDims(entries) = {} \/ Unseen(entries) = {}

\* A log is questions of the kernel, then the findings in their order.
LogInv(s) ==
    /\ s.settled <= Len(s.log) /\ s.settled <= s.found
    /\ \A i \in 1..Len(s.log) - s.settled : s.log[i] \in KernelQuestions
    /\ \A i \in 1..s.settled : s.log[Len(s.log) - s.settled + i] = FindingAt(s.total + i - 1)
    /\ s.loaded => s.total \in {Cardinality(Dimension), Len(Template)}
    /\ ~s.loaded => s.next = NoQuestion /\ ~s.done
    /\ s.next # NoQuestion => s.next.index < s.total /\ (s.total # Cardinality(Dimension) => s.next \in TemplateQuestions)
    /\ s.done => s.next = NoQuestion /\ CoveredBy(Entries(s.log))
    /\ ~s.done => s.settled = 0 /\ ~s.scanned
    /\ ~s.scanned => s.found = 0

\* Whether a question is not in a log.
NotAsked(q, log) == \A i \in DOMAIN log : ~SameQuestion(log[i], q)
MayRepeat(s) == s.retried /\ Repeats(s.log) = {}
RepeatsInv(s) ==
    /\ ~s.retried => Repeats(s.log) = {}
    /\ \A x, y \in Repeats(s.log) : x = y
NextInv(s) ==
    /\ s.waits = 0 /\ s.next # NoQuestion => NotAsked(s.next, s.log) \/ MayRepeat(s)

PagesInv ==
    \A p \in Page :
        /\ LogInv(page[p]) /\ RepeatsInv(page[p]) /\ NextInv(page[p])
        /\ page[p].waits \in {0, page[p].sent}
        /\ page[p].sent = 0 => page[p] = Blank
        /\ p \notin Interviewed => page[p].log = <<>> /\ page[p].next = NoQuestion /\ ~page[p].done

\* What a request was sent with.
RequestInv(c) ==
    /\ c.n >= 1 /\ c.n <= page[c.page].sent
    /\ c.kind = "generate" /\ c.page \in Interviewed => CoveredBy(c.entries)
    /\ c.kind = "generate" /\ page[c.page].waits = c.n => page[c.page].next = NoQuestion
    /\ c.kind = "question" => c.page \in Interviewed /\ c.stage = 1 /\ c.attempt = 1 /\ c.tokens = 0
    /\ c.attempt >= 1 /\ c.attempt <= MaxRetries + 1
    /\ c.stage < 4 => c.tokens <= (c.stage - 1) * (MaxRetries + 1) + c.attempt - 1
    /\ (c.kind = "question" /\ page[c.page].waits = c.n) =>
          /\ ~page[c.page].done
          /\ c.entries \subseteq Entries(page[c.page].log)
          /\ Entries(page[c.page].log) \subseteq c.entries \/ MayRepeat(page[c.page])
RequestsInv ==
    /\ \A c \in requests : RequestInv(c)
    /\ \A c, d \in requests : c.page = d.page /\ c.n = d.n => c = d

BuiltInv == \A w \in built : w.of \in Interviewed => CoveredBy(w.log)

\* The requests whose page waits no longer, and those that still cost.
Stray  == {c \in requests : page[c.page].waits # c.n}
Costly == {c \in requests : c.stage < 4}
UsageInv ==
    /\ Cardinality(Stray) <= breaks
    /\ used >= TokenLimit =>
          used + Cardinality(Costly) * CostOfOne <= TokenLimit - 1 + (Cardinality(Page) + breaks) * CostOfOne

DesignInv == DesignTypes /\ DesignTypeOK /\ PagesInv /\ RequestsInv /\ BuiltInv /\ UsageInv

-----------------------------------------------------------------------------
\* A sequence and its elements.
LEMMA Elements ==
    ASSUME NEW S, NEW q \in Seq(S)
    PROVE  Len(q) \in Nat /\ DOMAIN q = 1..Len(q) /\ \A i \in 1..Len(q) : q[i] \in S
  OBVIOUS

\* A sequence with one more element.
LEMMA OneMore ==
    ASSUME NEW S, NEW q \in Seq(S), NEW e \in S
    PROVE  /\ Append(q, e) \in Seq(S) /\ Len(Append(q, e)) = Len(q) + 1
           /\ Append(q, e)[Len(q) + 1] = e /\ \A i \in 1..Len(q) : Append(q, e)[i] = q[i]
           /\ Entries(Append(q, e)) = Entries(q) \cup {e}
  <1>1. /\ Append(q, e) \in Seq(S) /\ Len(Append(q, e)) = Len(q) + 1 /\ Len(q) \in Nat
        /\ Append(q, e)[Len(q) + 1] = e /\ \A i \in 1..Len(q) : Append(q, e)[i] = q[i]
    OBVIOUS
  <1>2. DOMAIN q = 1..Len(q) /\ DOMAIN Append(q, e) = 1..Len(q) + 1
    BY <1>1
  <1>3. Entries(Append(q, e)) = Entries(q) \cup {e}
    <2> DEFINE r == Append(q, e)
    <2> HIDE DEF r
    <2>1. Entries(r) = {r[i] : i \in 1..Len(q) + 1} /\ Entries(q) = {q[i] : i \in 1..Len(q)}
      BY <1>2 DEF Entries, r
    <2>2. 1..Len(q) + 1 = 1..Len(q) \cup {Len(q) + 1}
      BY <1>1
    <2>3. r[Len(q) + 1] = e /\ \A i \in 1..Len(q) : r[i] = q[i]
      BY <1>1 DEF r
    <2>4. QED
      BY <2>1, <2>2, <2>3 DEF r
  <1>4. QED
    BY <1>1, <1>3

\* Two of the same question are the same as each other.
LEMMA SameAs ==
    ASSUME NEW a, NEW b, NEW c, SameQuestion(a, c), SameQuestion(b, c)
    PROVE  SameQuestion(a, b)
  BY DEF SameQuestion

\* A new question repeats none.
LEMMA NewRepeats ==
    ASSUME NEW log \in Seq(Question), NEW q \in Question, NotAsked(q, log)
    PROVE  Repeats(Append(log, q)) = Repeats(log)
  <1> DEFINE r == Append(log, q)
  <1>1. PICK n \in Nat : n = Len(log)
    OBVIOUS
  <1>2. DOMAIN log = 1..n /\ DOMAIN r = 1..n + 1 /\ r[n + 1] = q /\ \A i \in 1..n : r[i] = log[i]
    BY <1>1, OneMore, Elements
  <1> HIDE DEF r
  <1>3. ASSUME NEW i \in 1..n + 1, NEW j \in 1..n + 1, i < j, SameQuestion(r[i], r[j])
        PROVE  i \in 1..n /\ j \in 1..n
    BY <1>1, <1>2, <1>3 DEF NotAsked
  <1>4. \A i \in 1..n : i \in 1..n + 1
    BY <1>1
  <1>5. QED
    BY <1>2, <1>3, <1>4 DEF Repeats, r

\* Any other question is the one repeat of a log without one.
LEMMA OneRepeat ==
    ASSUME NEW log \in Seq(Question), NEW q \in Question, Repeats(log) = {}
    PROVE  \A x, y \in Repeats(Append(log, q)) : x = y
  <1> DEFINE r == Append(log, q)
  <1>1. PICK n \in Nat : n = Len(log)
    OBVIOUS
  <1>2. DOMAIN log = 1..n /\ DOMAIN r = 1..n + 1 /\ r[n + 1] = q /\ \A i \in 1..n : r[i] = log[i]
    BY <1>1, OneMore, Elements
  <1> HIDE DEF r
  <1>3. ASSUME NEW i \in 1..n, NEW j \in 1..n, i < j PROVE ~SameQuestion(log[i], log[j])
    <2>1. <<i, j>> \in (DOMAIN log) \X (DOMAIN log) /\ <<i, j>>[1] = i /\ <<i, j>>[2] = j
      BY <1>2
    <2>2. QED
      BY <1>3, <2>1 DEF Repeats
  <1>4. ASSUME NEW i \in 1..n + 1, NEW j \in 1..n + 1, i < j, SameQuestion(r[i], r[j])
        PROVE  j = n + 1 /\ i \in 1..n /\ SameQuestion(log[i], q)
    BY <1>1, <1>2, <1>3, <1>4
  <1>5. ASSUME NEW i \in 1..n, NEW k \in 1..n, SameQuestion(log[i], q), SameQuestion(log[k], q)
        PROVE  i = k
    BY <1>3, <1>5, SameAs
  <1>6. ASSUME NEW x \in Repeats(r) PROVE x = <<x[1], n + 1>> /\ x[1] \in 1..n /\ SameQuestion(log[x[1]], q)
    BY <1>2, <1>4, <1>6 DEF Repeats
  <1>7. QED
    BY <1>5, <1>6 DEF r

\* A set of numbers has a least one.
LEMMA LeastExists ==
    ASSUME NEW S \in SUBSET Nat, S # {}
    PROVE  \E n \in S : \A m \in S : n <= m
  <1>1. PICK n \in S : \A m \in S : ~(<<m, n>> \in OpToRel(<, Nat))
    BY NatLessThanWellFounded, WFMin
  <1>2. ASSUME NEW m \in S PROVE n <= m
    <2>1. m \in Nat /\ n \in Nat
      OBVIOUS
    <2>2. m < n => <<m, n>> \in OpToRel(<, Nat)
      BY <2>1 DEF OpToRel
    <2>3. ~(m < n)
      BY <1>1, <2>2
    <2>4. QED
      BY <2>1, <2>3
  <1>3. QED
    BY <1>2

\* What the kernel asks.
LEMMA QuestionFacts ==
    /\ \A q \in KernelQuestions : /\ q \in Question /\ q # NoQuestion /\ q.index \in Nat /\ q.by # "scan"
                                  /\ q.index < Cardinality(Dimension)
                                  /\ q \in TemplateQuestions => q.index < Len(Template)
                                  /\ q \in LLMQuestions => q.index = 0
    /\ \A i \in Nat : FindingAt(i) \in Question /\ FindingAt(i) # NoQuestion /\ FindingAt(i).index = i
                      /\ FindingAt(i).by = "scan" /\ FindingAt(i) \notin KernelQuestions
    /\ Cardinality(Dimension) \in Nat /\ Len(Template) \in Nat /\ Len(Template) <= Cardinality(Dimension)
  <1>1. Cardinality(Dimension) \in Nat /\ Len(Template) \in Nat /\ Len(Template) <= Cardinality(Dimension)
    BY FS_CardinalityType, DesignAssumption
  <1>2. \A q \in TemplateQuestions : q.by = "template" /\ q.index \in Nat /\ q.index < Len(Template)
    BY <1>1 DEF TemplateQuestions
  <1>3. \A q \in LLMQuestions : q.by = "llm" /\ q.index = 0 /\ Cardinality(Dimension) > 0
    <2>1. ASSUME NEW d \in Dimension PROVE Cardinality(Dimension) > 0
      BY <1>1, FS_EmptySet, DesignAssumption
    <2>2. QED
      BY <2>1 DEF LLMQuestions
  <1>4. \A q \in KernelQuestions : q.by # "scan" /\ q.by # "nobody" /\ q.index \in Nat /\ q.index < Cardinality(Dimension)
    BY <1>1, <1>2, <1>3 DEF KernelQuestions
  <1>5. \A i \in Nat : FindingAt(i).index = i /\ FindingAt(i).by = "scan" /\ FindingAt(i) \in Finding
    BY DEF FindingAt, Finding
  <1>6. NoQuestion.by = "nobody"
    BY DEF NoQuestion
  <1>7. QED
    BY <1>1, <1>2, <1>3, <1>4, <1>5, <1>6 DEF Question

\* The kernel's next question is none of those it was sent.
LEMMA NextIsNew ==
    ASSUME NEW entries \in SUBSET Question
    PROVE  /\ \A q \in PickNext(OpenDims(entries)) : q \in LLMQuestions /\ \A e \in entries : ~SameQuestion(e, q)
           /\ Unseen(entries) # {} => /\ Fallback(entries) \in TemplateQuestions
                                      /\ \A e \in entries : ~SameQuestion(e, Fallback(entries))
           /\ Unseen(entries) = {} => Fallback(entries) = NoQuestion
  <1>1. ASSUME NEW q \in PickNext(OpenDims(entries))
        PROVE  q \in LLMQuestions /\ \A e \in entries : ~SameQuestion(e, q)
    BY DEF PickNext, OpenDims, Covered, LLMQuestions, SameQuestion
  <1>2. ASSUME Unseen(entries) # {}
        PROVE  Fallback(entries) \in TemplateQuestions /\ \A e \in entries : ~SameQuestion(e, Fallback(entries))
    <2> DEFINE U == Unseen(entries)
    <2>1. U \subseteq Nat /\ U # {} /\ \A n \in U : n \in 0..Len(Template) - 1 /\ \A e \in entries : e.index # n
      BY <1>2 DEF Unseen
    <2> HIDE DEF U
    <2>2. PICK n \in U : \A m \in U : n <= m
      <3>1. \E n \in U : \A m \in U : n <= m
        BY <2>1, LeastExists
      <3>2. QED
        BY <3>1
    <2>3. (CHOOSE i \in U : \A m \in U : i <= m) \in U
      BY <2>2
    <2>4. PICK k \in U : k = CHOOSE i \in U : \A m \in U : i <= m
      BY <2>3
    <2>5. Fallback(entries) = [by |-> "template", dim |-> Template[k + 1], index |-> k]
      BY <1>2, <2>4 DEF Fallback, U
    <2>6. k \in 0..Len(Template) - 1 /\ \A e \in entries : e.index # k
      BY <2>1
    <2>7. QED
      BY <2>5, <2>6, SMTT(60) DEF TemplateQuestions, SameQuestion
  <1>3. Unseen(entries) = {} => Fallback(entries) = NoQuestion
    BY DEF Fallback
  <1>4. QED
    BY <1>1, <1>2, <1>3

-----------------------------------------------------------------------------
\* What a page may become: it waits for nothing, or for a request it has just
\* sent.
PageMoves(p, t) ==
    /\ t \in PageT /\ LogInv(t) /\ RepeatsInv(t) /\ NextInv(t)
    /\ t.waits = 0 \/ (t.waits = t.sent /\ t.sent > page[p].sent)
    /\ t.sent >= page[p].sent /\ t.sent <= MaxSent[p] /\ t.sent >= 1
    /\ p \notin Interviewed => t.log = <<>> /\ t.next = NoQuestion /\ ~t.done

\* The other pages and what was sent before are as they were, but that the
\* page no longer waits for them.
LEMMA PageStep ==
    ASSUME DesignInv, NEW p \in Page, NEW t, PageMoves(p, t), page' = [page EXCEPT ![p] = t]
    PROVE  /\ page' \in [Page -> PageT] /\ PagesInv'
           /\ \A q \in Page : page'[q].waits <= page'[q].sent /\ page'[q].sent <= MaxSent[q]
           /\ \A c \in requests : RequestInv(c)'
           /\ \A c \in requests : page'[c.page].waits # c.n <=> c \in Stray \/ c.page = p
  <1>1. /\ page \in [Page -> PageT] /\ page'[p] = t /\ \A q \in Page \ {p} : page'[q] = page[q]
        /\ t \in PageT /\ t.waits \in Nat /\ t.sent \in Nat /\ page[p].sent \in Nat
    BY DEF DesignInv, DesignTypes, PageMoves, PageT
  <1>2. page' \in [Page -> PageT]
    BY <1>1
  <1>3. PagesInv'
    <2>1. t.sent # 0
      BY <1>1 DEF PageMoves
    <2>2. QED
      BY <1>1, <2>1 DEF PagesInv, PageMoves, DesignInv
  <1>4. \A q \in Page : page'[q].waits <= page'[q].sent /\ page'[q].sent <= MaxSent[q]
    BY <1>1 DEF PageMoves, DesignInv, DesignTypeOK
  <1>5. ASSUME NEW c \in requests
        PROVE  RequestInv(c)' /\ (page'[c.page].waits # c.n <=> c \in Stray \/ c.page = p)
    <2>1. c.page \in Page /\ c.n \in Nat /\ c.n >= 1 /\ c.n <= page[c.page].sent /\ RequestInv(c)
      BY DEF DesignInv, DesignTypes, RequestT, RequestsInv, RequestInv
    <2>2. CASE c.page # p
      BY <1>1, <2>1, <2>2 DEF RequestInv, Stray
    <2>3. CASE c.page = p
      <3>1. page'[c.page] = t /\ t.waits # c.n /\ c.n <= t.sent
        BY <1>1, <2>1, <2>3 DEF PageMoves
      <3>2. QED
        BY <2>1, <2>3, <3>1 DEF RequestInv
    <2>4. QED
      BY <2>2, <2>3
  <1>6. QED
    BY <1>2, <1>3, <1>4, <1>5

\* As many requests as there are pages and connections that broke.
LEMMA RequestCount ==
    ASSUME DesignInv
    PROVE  /\ Cardinality(requests) \in Nat /\ Cardinality(Costly) \in Nat /\ Cardinality(Page) \in Nat
           /\ IsFiniteSet(Costly) /\ IsFiniteSet(Stray) /\ Cardinality(Stray) \in Nat
           /\ Cardinality(Costly) <= Cardinality(Page) + breaks
  <1>1. IsFiniteSet(requests) /\ IsFiniteSet(Page) /\ Costly \subseteq requests /\ Stray \subseteq requests
    BY DesignAssumption DEF DesignInv, DesignTypes, Costly, Stray
  <1>2. /\ IsFiniteSet(Costly) /\ IsFiniteSet(Stray) /\ Cardinality(Costly) <= Cardinality(requests)
        /\ Cardinality(requests) \in Nat /\ Cardinality(Costly) \in Nat /\ Cardinality(Page) \in Nat
        /\ Cardinality(Stray) \in Nat
    BY <1>1, FS_Subset, FS_CardinalityType
  <1> DEFINE W == requests \ Stray
  <1>3. IsFiniteSet(W) /\ Cardinality(W) \in Nat /\ Cardinality(requests) <= Cardinality(W) + Cardinality(Stray)
    <2>1. IsFiniteSet(W) /\ requests = W \cup Stray
      BY <1>1, FS_Subset
    <2>2. Cardinality(W \cup Stray) = Cardinality(W) + Cardinality(Stray) - Cardinality(W \cap Stray)
      BY <1>2, <2>1, FS_Union
    <2>3. W \cap Stray = {}
      OBVIOUS
    <2>4. Cardinality(W) \in Nat /\ Cardinality(W \cap Stray) = 0
      BY <2>1, <2>3, FS_EmptySet, FS_CardinalityType
    <2>5. Cardinality(requests) = Cardinality(W \cup Stray)
      BY <2>1
    <2> HIDE DEF W
    <2>6. QED
      BY <1>2, <2>1, <2>2, <2>4, <2>5
  <1>4. Cardinality(W) <= Cardinality(Page)
    <2> DEFINE f == [c \in W |-> c.page]
    <2>1. f \in Injection(W, Page)
      <3>1. f \in [W -> Page]
        BY DEF DesignInv, DesignTypes, RequestT
      <3>2. ASSUME NEW c \in W, NEW d \in W, f[c] = f[d] PROVE c = d
        <4>1. c \in requests /\ d \in requests /\ c.page = d.page /\ c.n = page[c.page].waits /\ d.n = page[d.page].waits
          BY <3>2 DEF Stray
        <4>2. QED
          BY <4>1 DEF DesignInv, RequestsInv
      <3>3. QED
        BY <3>1, <3>2 DEF Injection, IsInjective
    <2> HIDE DEF f
    <2>2. QED
      BY <1>1, <2>1, FS_Injection
  <1>5. Cardinality(Stray) <= breaks /\ breaks \in Nat
    BY DesignAssumption DEF DesignInv, UsageInv, DesignTypeOK
  <1> HIDE DEF W
  <1>6. QED
    BY <1>2, <1>3, <1>4, <1>5

\* What one more call costs is within what the limit leaves for those under way.
LEMMA Spending ==
    ASSUME NEW u \in Nat, NEW u2 \in Nat, NEW k \in Nat, NEW k2 \in Nat, NEW b \in Nat, NEW b2 \in Nat,
           NEW P \in Nat, NEW C \in Nat, NEW L \in Nat,
           u >= L => u + k * C <= L - 1 + (P + b) * C,
           k <= P + b, b <= b2, (u2 <= u + C /\ k2 + 1 <= k) \/ (u2 = u /\ k2 <= k)
    PROVE  u2 >= L => u2 + k2 * C <= L - 1 + (P + b2) * C
  <1>1. (P + b) * C <= (P + b2) * C /\ k * C <= (P + b) * C
    <2>1. \A x, y \in Nat : x <= y => x * C <= y * C
      OBVIOUS
    <2>2. P + b \in Nat /\ P + b2 \in Nat /\ P + b <= P + b2
      OBVIOUS
    <2>3. QED
      BY <2>1, <2>2
  <1>2. PICK kc \in Nat, kc2 \in Nat, pc \in Nat, pc2 \in Nat :
            kc = k * C /\ kc2 = k2 * C /\ pc = (P + b) * C /\ pc2 = (P + b2) * C
    OBVIOUS
  <1>3. CASE u2 <= u + C /\ k2 + 1 <= k
    <2>1. kc2 + C <= kc
      <3>1. \A x, y \in Nat : x + 1 <= y => x * C + C <= y * C
        OBVIOUS
      <3>2. QED
        BY <1>2, <1>3, <3>1
    <2>2. QED
      BY <1>1, <1>2, <1>3, <2>1
  <1>4. CASE u2 = u /\ k2 <= k
    <2>1. kc2 <= kc
      <3>1. \A x, y \in Nat : x <= y => x * C <= y * C
        OBVIOUS
      <3>2. QED
        BY <1>2, <1>4, <3>1
    <2>2. QED
      BY <1>1, <1>2, <1>4, <2>1
  <1>5. QED
    BY <1>3, <1>4

\* What is used and under way after a step that sends nothing.
LEMMA UsageStep ==
    ASSUME DesignInv, NEW n \in Nat, NEW b \in Nat, used' \in Nat, breaks' = breaks + b,
           Cardinality(Costly') \in Nat, n = Cardinality(Costly'), Cardinality(Stray') <= breaks + b,
           (used' <= used + CostOfOne /\ n + 1 <= Cardinality(Costly)) \/ (used' = used /\ n <= Cardinality(Costly))
    PROVE  UsageInv'
  <1> DEFINE k == Cardinality(Costly)
             P == Cardinality(Page)
  <1>1. k \in Nat /\ P \in Nat /\ k <= P + breaks
    BY RequestCount
  <1>2. used \in Nat /\ breaks \in Nat /\ TokenLimit \in Nat /\ CostOfOne \in Nat
    BY DesignAssumption DEF DesignInv, DesignTypeOK, CostOfOne
  <1>3. used >= TokenLimit => used + k * CostOfOne <= TokenLimit - 1 + (P + breaks) * CostOfOne
    BY DEF DesignInv, UsageInv
  <1>4. PICK b2 \in Nat : b2 = breaks'
    BY <1>2
  <1>5. PICK u2 \in Nat : u2 = used'
    OBVIOUS
  <1> HIDE DEF k, P
  <1>6. (u2 <= used + CostOfOne /\ n + 1 <= k) \/ (u2 = used /\ n <= k)
    BY <1>5 DEF k
  <1>7. breaks <= b2
    BY <1>2, <1>4
  <1>8. u2 >= TokenLimit => u2 + n * CostOfOne <= TokenLimit - 1 + (P + b2) * CostOfOne
    BY <1>1, <1>2, <1>3, <1>6, <1>7, Spending
  <1>9. QED
    BY <1>4, <1>5, <1>8 DEF UsageInv, P, CostOfOne

-----------------------------------------------------------------------------
\* A page that has counted a request, waiting for it or for nothing.
Sent(s, w) == [[s EXCEPT !.sent = @ + 1] EXCEPT !.waits = w]

\* It keeps what it knows.
LEMMA SentPage ==
    ASSUME NEW s \in PageT, NEW w \in Nat
    PROVE  /\ Sent(s, w) \in PageT /\ Sent(s, w).sent = s.sent + 1 /\ Sent(s, w).waits = w
           /\ Sent(s, w).next = s.next /\ Sent(s, w).done = s.done /\ Sent(s, w).log = s.log
           /\ Sent(s, w).retried = s.retried
           /\ LogInv(s) => LogInv(Sent(s, w))
           /\ RepeatsInv(s) => RepeatsInv(Sent(s, w))
  <1> DEFINE u == [s EXCEPT !.sent = @ + 1]
             t == [u EXCEPT !.waits = w]
  <1>0. /\ u \in PageT /\ u.sent = s.sent + 1
        /\ u.next = s.next /\ u.done = s.done /\ u.loaded = s.loaded /\ u.total = s.total /\ u.log = s.log
        /\ u.retried = s.retried /\ u.scanned = s.scanned /\ u.found = s.found /\ u.settled = s.settled
    BY DEF PageT
  <1>t. t = Sent(s, w)
    BY DEF Sent
  <1> HIDE DEF u
  <1>1. /\ t \in PageT /\ t.sent = s.sent + 1 /\ t.waits = w
        /\ t.next = s.next /\ t.done = s.done /\ t.loaded = s.loaded /\ t.total = s.total /\ t.log = s.log
        /\ t.retried = s.retried /\ t.scanned = s.scanned /\ t.found = s.found /\ t.settled = s.settled
    BY <1>0 DEF PageT
  <1> HIDE DEF t
  <1>2. LogInv(s) => LogInv(t)
    BY <1>1 DEF LogInv
  <1>3. RepeatsInv(s) => RepeatsInv(t)
    BY <1>1 DEF RepeatsInv
  <1>4. QED
    BY <1>t, <1>1, <1>2, <1>3

\* A page that could not load a question, before its interview is done.
LEMMA FailedPage ==
    ASSUME NEW s \in PageT, LogInv(s), RepeatsInv(s), ~s.done
    PROVE  /\ LoadFails(s) \in PageT /\ LoadFails(s).sent = s.sent /\ LoadFails(s).waits = 0 /\ LoadFails(s).log = s.log
           /\ LoadFails(s).next = NoQuestion /\ ~LoadFails(s).done
           /\ LogInv(LoadFails(s)) /\ RepeatsInv(LoadFails(s)) /\ NextInv(LoadFails(s))
  <1> DEFINE t == LoadFails(s)
  <1>1. /\ t \in PageT /\ t.sent = s.sent /\ t.waits = 0 /\ t.next = NoQuestion /\ t.done = FALSE /\ t.loaded = FALSE
        /\ t.log = s.log /\ t.retried = s.retried /\ t.scanned = s.scanned /\ t.found = s.found /\ t.settled = s.settled
    BY DEF PageT, LoadFails
  <1> HIDE DEF t
  <1>2. s.settled = 0 /\ ~s.scanned
    BY DEF LogInv
  <1>3. LogInv(t)
    BY <1>1, <1>2 DEF LogInv
  <1>4. RepeatsInv(t) /\ NextInv(t)
    BY <1>1 DEF RepeatsInv, NextInv
  <1>5. QED
    BY <1>1, <1>3, <1>4 DEF t

\* An idle page waits for none of its requests.
LEMMA IdleStray ==
    ASSUME DesignInv, NEW p \in Page, page[p].waits = 0, NEW c \in requests, c.page = p
    PROVE  c \in Stray
  BY DEF DesignInv, RequestsInv, RequestInv, Stray

\* A page changes between its requests.
LEMMA LocalStep ==
    ASSUME DesignInv, NEW p \in Page, page[p].waits = 0, NEW t, PageMoves(p, t), page' = [page EXCEPT ![p] = t],
           UNCHANGED <<requests, built, used, breaks>>
    PROVE  DesignInv'
  <1>1. /\ page' \in [Page -> PageT] /\ PagesInv'
        /\ \A q \in Page : page'[q].waits <= page'[q].sent /\ page'[q].sent <= MaxSent[q]
        /\ \A c \in requests : RequestInv(c)'
        /\ \A c \in requests : page'[c.page].waits # c.n <=> c \in Stray \/ c.page = p
    BY PageStep
  <1>2. Stray' = Stray /\ Costly' = Costly
    BY <1>1, IdleStray DEF Stray, Costly
  <1>3. DesignTypes' /\ DesignTypeOK'
    BY <1>1 DEF DesignInv, DesignTypes, DesignTypeOK
  <1>4. RequestsInv' /\ BuiltInv'
    BY <1>1 DEF DesignInv, RequestsInv, BuiltInv
  <1>5. UsageInv'
    BY <1>2 DEF DesignInv, UsageInv
  <1>6. QED
    BY <1>1, <1>3, <1>4, <1>5 DEF DesignInv

\* A page sends a request, or fails to.
LEMMA SendStep ==
    ASSUME DesignInv, NEW p \in Page, page[p].waits = 0, NEW s \in PageT, s.waits = 0, s.sent = page[p].sent,
           NEW kind \in {"question", "generate"}, NEW sends \in SUBSET Question, Send(p, s, kind, sends),
           LogInv(s), RepeatsInv(s), p \notin Interviewed => s.log = <<>> /\ s.next = NoQuestion /\ ~s.done,
           kind = "question" => /\ p \in Interviewed /\ ~s.done /\ sends \subseteq Entries(s.log)
                                /\ Entries(s.log) \subseteq sends \/ MayRepeat(s),
           kind = "generate" => s.next = NoQuestion /\ (p \in Interviewed => CoveredBy(sends))
    PROVE  DesignInv'
  <1> DEFINE sent == [s EXCEPT !.sent = @ + 1]
             m == s.sent + 1
  <1>1. /\ m \in Nat /\ m >= 1 /\ m > page[p].sent /\ m <= MaxSent[p] /\ s.sent \in Nat
        /\ UNCHANGED <<built, used, breaks>>
    BY DesignAssumption DEF Send, PageT
  <1>2. sent.sent = m
    BY DEF PageT
  <1>3. CASE page' = [page EXCEPT ![p] = Fails(kind, sent)] /\ UNCHANGED requests
    <2>1. CASE kind = "question"
      <3>1. sent \in PageT /\ sent.done = s.done /\ sent.waits = s.waits /\ LogInv(sent) /\ RepeatsInv(sent)
        <4>1. sent = Sent(s, 0)
          BY DEF PageT, Sent
        <4>2. QED
          BY <4>1, SentPage
      <3>2. Fails(kind, sent) = LoadFails(sent)
        BY <2>1 DEF Fails
      <3> HIDE DEF sent
      <3>3. PageMoves(p, LoadFails(sent))
        BY <1>1, <1>2, <2>1, <3>1, FailedPage DEF PageMoves
      <3>4. QED
        BY <1>1, <1>3, <3>2, <3>3, LocalStep
    <2>2. CASE kind = "generate"
      <3> DEFINE t == Sent(s, 0)
      <3>1. /\ t \in PageT /\ t.sent = m /\ t.waits = 0 /\ t.next = s.next /\ t.log = s.log /\ t.done = s.done
            /\ LogInv(t) /\ RepeatsInv(t)
        BY SentPage
      <3>2. Fails(kind, sent) = t
        BY <2>2 DEF Fails, Sent
      <3> HIDE DEF t, sent
      <3>3. PageMoves(p, t)
        BY <1>1, <2>2, <3>1 DEF PageMoves, NextInv
      <3>4. QED
        BY <1>1, <1>3, <3>2, <3>3, LocalStep
    <2>3. QED
      BY <2>1, <2>2
  <1> DEFINE r == [page |-> p, n |-> m, kind |-> kind, entries |-> sends, stage |-> 1, attempt |-> 1, tokens |-> 0]
             t == Sent(s, m)
  <1>4. CASE used < TokenLimit /\ requests' = requests \cup {r} /\ page' = [page EXCEPT ![p] = t]
    <2>1. /\ t \in PageT /\ t.sent = m /\ t.waits = m /\ t.next = s.next /\ t.log = s.log /\ t.done = s.done
          /\ t.retried = s.retried /\ LogInv(t) /\ RepeatsInv(t)
      BY <1>1, SentPage
    <2> HIDE DEF t
    <2>2. PageMoves(p, t)
      BY <1>1, <2>1 DEF PageMoves, NextInv
    <2>3. /\ page' \in [Page -> PageT] /\ PagesInv'
          /\ \A q \in Page : page'[q].waits <= page'[q].sent /\ page'[q].sent <= MaxSent[q]
          /\ \A c \in requests : RequestInv(c)'
          /\ \A c \in requests : page'[c.page].waits # c.n <=> c \in Stray \/ c.page = p
      BY <1>4, <2>2, PageStep
    <2>4. /\ r \in RequestT /\ r.page = p /\ r.n = m /\ r.kind = kind /\ r.entries = sends /\ r.stage = 1
          /\ r.attempt = 1 /\ r.tokens = 0
      BY <1>1 DEF RequestT
    <2>5. page'[p] = t
      BY <1>4 DEF DesignInv, DesignTypes
    <2> HIDE DEF r
    <2>6. RequestInv(r)'
      <3>1. MaxRetries \in Nat
        BY DesignAssumption
      <3>2. MayRepeat(s) => MayRepeat(t)
        BY <2>1 DEF MayRepeat
      <3>3. r.tokens <= (r.stage - 1) * (MaxRetries + 1) + r.attempt - 1
        BY <2>4, <3>1
      <3>4. QED
        BY <1>1, <2>1, <2>4, <2>5, <3>1, <3>2, <3>3 DEF RequestInv
    <2>7. \A c \in requests : c.page = p => c.n < m
      BY <1>1 DEF DesignInv, RequestsInv, RequestInv, DesignTypes, RequestT
    <2>8. RequestsInv'
      <3>1. ASSUME NEW c \in requests', NEW d \in requests', c.page = d.page, c.n = d.n PROVE c = d
        <4>1. c \in requests /\ d \in requests => c = d
          BY <3>1 DEF DesignInv, RequestsInv
        <4>2. \A e \in requests : ~(e.page = p /\ e.n = m)
          BY <1>1, <2>7
        <4>3. QED
          BY <1>4, <2>4, <3>1, <4>1, <4>2
      <3>2. QED
        BY <1>4, <2>3, <2>6, <3>1 DEF RequestsInv
    <2>9. Stray' = Stray
      BY <1>1, <1>4, <2>1, <2>3, <2>4, <2>5, IdleStray DEF Stray
    <2>10. UsageInv'
      <3>1. used \in Nat /\ TokenLimit \in Nat
        BY DesignAssumption DEF DesignInv, DesignTypeOK
      <3>2. QED
        BY <1>1, <1>4, <2>9, <3>1 DEF DesignInv, UsageInv
    <2>11. DesignTypes' /\ DesignTypeOK'
      <3>1. IsFiniteSet(requests')
        BY <1>4, FS_AddElement DEF DesignInv, DesignTypes
      <3>2. requests' \in SUBSET RequestT
        BY <1>4, <2>4 DEF DesignInv, DesignTypes
      <3>3. QED
        BY <1>1, <2>3, <3>1, <3>2 DEF DesignInv, DesignTypes, DesignTypeOK
    <2>12. QED
      BY <1>1, <2>3, <2>8, <2>10, <2>11 DEF DesignInv, BuiltInv
  <1>5. QED
    BY <1>3, <1>4 DEF Send, Sent

-----------------------------------------------------------------------------
\* What a page keeps.
LEMMA PageFacts ==
    ASSUME DesignInv, NEW p \in Page
    PROVE  /\ page[p] \in PageT /\ LogInv(page[p]) /\ RepeatsInv(page[p]) /\ NextInv(page[p])
           /\ page[p].log \in Seq(Question) /\ Entries(page[p].log) \in SUBSET Question
           /\ page[p].sent = 0 => page[p] = Blank
           /\ page[p].sent <= MaxSent[p] /\ page[p].sent \in Nat
           /\ p \notin Interviewed => page[p].log = <<>> /\ page[p].next = NoQuestion /\ ~page[p].done
  <1>1. page[p] \in PageT
    BY DEF DesignInv, DesignTypes
  <1>2. page[p].log \in Seq(Question) /\ page[p].sent \in Nat
    BY <1>1 DEF PageT
  <1>3. Entries(page[p].log) \in SUBSET Question
    BY <1>2, Elements DEF Entries
  <1>4. QED
    BY <1>1, <1>2, <1>3 DEF DesignInv, PagesInv, DesignTypeOK

\* The first question.
LEMMA FirstQuestionStep ==
    ASSUME DesignInv, NEW p \in Page, Open(p)
    PROVE  DesignInv'
  <1>1. p \in Interviewed /\ page[p].waits = 0 /\ page[p].sent = 0 /\ Send(p, page[p], "question", {})
    BY DEF Open, Idle
  <1>2. page[p] = Blank
    BY <1>1, PageFacts
  <1>3. ~page[p].done /\ page[p].log = <<>>
    BY <1>2 DEF Blank
  <1>4. Entries(page[p].log) = {}
    BY <1>3 DEF Entries
  <1>5. {} \in SUBSET Question /\ "question" \in {"question", "generate"}
    OBVIOUS
  <1>6. QED
    BY <1>1, <1>3, <1>4, <1>5, PageFacts, SendStep

\* The one retry of an interview.
LEMMA RetryStep ==
    ASSUME DesignInv, NEW p \in Page, RetryFirst(p)
    PROVE  DesignInv'
  <1> DEFINE s == [page[p] EXCEPT !.retried = TRUE]
  <1>1. /\ p \in Interviewed /\ page[p].waits = 0 /\ ~page[p].retried /\ Send(p, s, "question", {})
        /\ ~(page[p].loaded /\ (page[p].next # NoQuestion \/ page[p].done))
    BY DEF RetryFirst, Idle, MayRetry
  <1>2. /\ s \in PageT /\ s.waits = 0 /\ s.sent = page[p].sent /\ s.next = page[p].next /\ s.log = page[p].log
        /\ s.done = page[p].done /\ s.loaded = page[p].loaded /\ s.total = page[p].total /\ s.retried
        /\ s.scanned = page[p].scanned /\ s.found = page[p].found /\ s.settled = page[p].settled
    BY <1>1, PageFacts DEF PageT
  <1> HIDE DEF s
  <1>3. LogInv(s) /\ RepeatsInv(s)
    <2>1. LogInv(page[p]) /\ RepeatsInv(page[p])
      BY PageFacts
    <2>2. LogInv(s)
      BY <1>2, <2>1 DEF LogInv
    <2>3. RepeatsInv(s)
      BY <1>2, <2>1 DEF RepeatsInv
    <2>4. QED
      BY <2>2, <2>3
  <1>4. ~s.done
    BY <1>1, <1>2, PageFacts DEF LogInv
  <1>5. MayRepeat(s)
    BY <1>1, <1>2, PageFacts DEF RepeatsInv, MayRepeat
  <1>6. {} \in SUBSET Question /\ {} \subseteq Entries(s.log) /\ "question" \in {"question", "generate"}
    OBVIOUS
  <1>7. QED
    BY <1>1, <1>2, <1>3, <1>4, <1>5, <1>6, SendStep

\* The description and the log are sent off.
LEMMA GenerationStep ==
    ASSUME DesignInv, NEW p \in Page, Generate(p)
    PROVE  DesignInv'
  <1>1. /\ page[p].waits = 0 /\ (p \in Interviewed => page[p].done)
        /\ Send(p, page[p], "generate", Entries(page[p].log))
    BY DEF Generate, Idle, Ready
  <1>2. page[p].next = NoQuestion /\ (p \in Interviewed => CoveredBy(Entries(page[p].log)))
    BY <1>1, PageFacts DEF LogInv
  <1>3. "generate" \in {"question", "generate"} /\ "generate" # "question"
    OBVIOUS
  <1>4. QED
    BY <1>1, <1>2, <1>3, PageFacts, SendStep

\* The scan for conflicts ends.
LEMMA ScanStep ==
    ASSUME DesignInv, NEW p \in Page, Scan(p)
    PROVE  DesignInv'
  <1>1. PICK n \in {0, NumFindings} : page' = [page EXCEPT ![p].scanned = TRUE, ![p].found = n]
    BY DEF Scan
  <1>2. page[p].waits = 0 /\ page[p].done /\ ~page[p].scanned /\ UNCHANGED <<requests, built, used, breaks>>
    BY DEF Scan, Idle
  <1> DEFINE s == [page[p] EXCEPT !.scanned = TRUE]
             t == [s EXCEPT !.found = n]
  <1>3. /\ s \in PageT /\ s.waits = page[p].waits /\ s.sent = page[p].sent /\ s.next = page[p].next /\ s.log = page[p].log
        /\ s.done = page[p].done /\ s.loaded = page[p].loaded /\ s.total = page[p].total /\ s.retried = page[p].retried
        /\ s.scanned /\ s.settled = page[p].settled
    BY PageFacts DEF PageT
  <1>4. page' = [page EXCEPT ![p] = t]
    BY <1>1 DEF DesignInv, DesignTypes
  <1> HIDE DEF s
  <1>5. /\ t \in PageT /\ t.waits = s.waits /\ t.sent = s.sent /\ t.next = s.next /\ t.log = s.log
        /\ t.done = s.done /\ t.loaded = s.loaded /\ t.total = s.total /\ t.retried = s.retried
        /\ t.scanned /\ t.found = n /\ t.settled = s.settled
    BY <1>3 DEF PageT
  <1> HIDE DEF t
  <1>6. page[p].settled = 0 /\ page[p].next = NoQuestion /\ n \in Nat
    <2>1. page[p].settled <= page[p].found /\ page[p].found = 0 /\ page[p].settled \in Nat
      BY <1>2, PageFacts DEF LogInv, PageT
    <2>2. QED
      BY <1>2, <2>1, PageFacts, DesignAssumption DEF LogInv
  <1>7. LogInv(t)
    BY <1>2, <1>3, <1>5, <1>6, PageFacts DEF LogInv
  <1>8. RepeatsInv(t) /\ NextInv(t)
    <2>1. RepeatsInv(page[p]) /\ t.log = page[p].log /\ t.retried = page[p].retried /\ t.next = NoQuestion
      BY <1>3, <1>5, <1>6, PageFacts
    <2>2. QED
      BY <2>1 DEF RepeatsInv, NextInv
  <1>9. page[p].sent >= 1
    BY <1>2, PageFacts DEF Blank
  <1>10. PageMoves(p, t)
    BY <1>2, <1>3, <1>5, <1>7, <1>8, <1>9, PageFacts DEF PageMoves
  <1>11. QED
    BY <1>2, <1>4, <1>10, LocalStep

\* More entries cover no less.
LEMMA CoversMore ==
    ASSUME NEW S, NEW T, S \subseteq T, CoveredBy(S)
    PROVE  CoveredBy(T)
  <1>1. CASE OpenDims(S) = {}
    BY <1>1 DEF CoveredBy, OpenDims, Covered
  <1>2. CASE Unseen(S) = {}
    BY <1>2 DEF CoveredBy, Unseen
  <1>3. QED
    BY <1>1, <1>2 DEF CoveredBy

\* The answer to a question of the kernel: every entry is sent back.
LEMMA KernelAnswer ==
    ASSUME DesignInv, NEW p \in Page, Answer(p), page[p].next # NoQuestion
    PROVE  DesignInv'
  <1> DEFINE g == page[p]
             q == g.next
             s == [g EXCEPT !.log = Append(@, q)]
  <1>1. g \in PageT /\ LogInv(g) /\ RepeatsInv(g) /\ NextInv(g) /\ g.waits = 0 /\ g.log \in Seq(Question) /\ p \in Interviewed
    BY PageFacts DEF Answer, Idle
  <1>2. q \in KernelQuestions /\ q \in Question /\ q.index < g.total /\ g.total \in Nat /\ q.index \in Nat
    BY <1>1, QuestionFacts DEF PageT, LogInv
  <1>3. Shown(g) = q
    BY DEF Shown
  <1>4. Send(p, s, "question", Echoed(s))
    <2>1. ~(q.index >= g.total) /\ s.total = g.total
      BY <1>1, <1>2 DEF PageT
    <2> HIDE DEF s
    <2>2. QED
      BY <1>3, <2>1 DEF Answer, s
  <1>5. PICK n \in Nat : n = Len(g.log)
    BY <1>1
  <1>6. /\ Append(g.log, q) \in Seq(Question) /\ Len(Append(g.log, q)) = n + 1 /\ Append(g.log, q)[n + 1] = q
        /\ \A i \in 1..n : Append(g.log, q)[i] = g.log[i]
        /\ Entries(Append(g.log, q)) = Entries(g.log) \cup {q}
    BY <1>1, <1>2, <1>5, OneMore
  <1>7. /\ s \in PageT /\ s.waits = 0 /\ s.sent = g.sent /\ s.next = g.next /\ s.log = Append(g.log, q)
        /\ s.done = g.done /\ s.loaded = g.loaded /\ s.total = g.total /\ s.retried = g.retried
        /\ s.scanned = g.scanned /\ s.found = g.found /\ s.settled = g.settled
    BY <1>1, <1>6 DEF PageT
  <1>8. ~g.done /\ g.settled = 0
    BY <1>1 DEF LogInv
  <1>9. \A i \in 1..n + 1 : s.log[i] \in KernelQuestions
    <2>1. \A i \in 1..n : g.log[i] \in KernelQuestions
      BY <1>1, <1>5, <1>8 DEF LogInv
    <2>2. QED
      BY <1>2, <1>5, <1>6, <1>7, <2>1
  <1> HIDE DEF s
  <1>10. LogInv(s)
    <2>1. Len(s.log) = n + 1 /\ s.settled = 0 /\ n + 1 - 0 = n + 1
      BY <1>5, <1>6, <1>7, <1>8
    <2>2. \A i \in 1..Len(s.log) - s.settled : s.log[i] \in KernelQuestions
      BY <1>9, <2>1
    <2>3. 1..s.settled = {}
      BY <2>1
    <2>4. s.settled <= Len(s.log) /\ s.settled <= s.found /\ ~s.done
      BY <1>1, <1>5, <1>7, <1>8, <2>1 DEF LogInv
    <2>5. QED
      BY <1>1, <1>7, <2>2, <2>3, <2>4 DEF LogInv
  <1>11. RepeatsInv(s)
    <2>1. CASE NotAsked(q, g.log)
      <3>1. Repeats(s.log) = Repeats(g.log)
        BY <1>1, <1>2, <1>7, <2>1, NewRepeats
      <3>2. QED
        BY <1>1, <1>7, <3>1 DEF RepeatsInv
    <2>2. CASE MayRepeat(g)
      <3>1. \A x, y \in Repeats(s.log) : x = y
        BY <1>1, <1>2, <1>7, <2>2, OneRepeat DEF MayRepeat
      <3>2. s.retried
        BY <1>7, <2>2 DEF MayRepeat
      <3>3. QED
        BY <3>1, <3>2 DEF RepeatsInv
    <2>3. QED
      BY <1>1, <2>1, <2>2 DEF NextInv
  <1>12. Echoed(s) = Entries(s.log)
    <2>1. ASSUME NEW e \in KernelQuestions PROVE e.index < g.total
      <3>1. CASE g.total = Cardinality(Dimension)
        BY <3>1, QuestionFacts
      <3>2. CASE g.total # Cardinality(Dimension)
        <4>1. g.total = Len(Template)
          BY <1>1, <3>2 DEF LogInv
        <4>2. e \in LLMQuestions \/ e \in TemplateQuestions
          BY DEF KernelQuestions
        <4>3. QED
          BY <1>2, <4>1, <4>2, QuestionFacts
      <3>3. QED
        BY <3>1, <3>2
    <2>2. DOMAIN s.log = 1..n + 1
      BY <1>5, <1>6, <1>7
    <2>3. QED
      BY <1>7, <1>9, <2>1, <2>2 DEF Echoed, Entries
  <1>13. Entries(s.log) \in SUBSET Question
    BY <1>1, <1>2, <1>6, <1>7, PageFacts
  <1>14. "question" \in {"question", "generate"} /\ "question" # "generate"
    OBVIOUS
  <1>15. QED
    BY <1>1, <1>4, <1>7, <1>8, <1>10, <1>11, <1>12, <1>13, <1>14, SendStep

\* The answer to a finding.
LEMMA FindingAnswer ==
    ASSUME DesignInv, NEW p \in Page, Answer(p), page[p].next = NoQuestion
    PROVE  DesignInv'
  <1> DEFINE g == page[p]
             q == FindingAt(g.total + g.settled)
             s == [g EXCEPT !.log = Append(@, q)]
             t == [s EXCEPT !.settled = @ + 1]
  <1>1. g \in PageT /\ LogInv(g) /\ RepeatsInv(g) /\ g.waits = 0 /\ g.log \in Seq(Question) /\ g.next = NoQuestion
    BY PageFacts DEF Answer, Idle
  <1>2. Shown(g) = q /\ g.done /\ g.scanned /\ g.settled < g.found
    BY DEF Answer, Shown, FindingAt
  <1>3. /\ g.total \in Nat /\ g.settled \in Nat /\ g.found \in Nat /\ g.found <= NumFindings /\ NumFindings \in Nat
        /\ g.settled + 1 \in 0..NumFindings
    BY <1>1, <1>2, DesignAssumption, SMTT(60) DEF PageT
  <1>4. q \in Question /\ q.index = g.total + g.settled /\ q.by = "scan" /\ q # NoQuestion
    <2>1. g.total + g.settled \in Nat
      BY <1>3
    <2>2. QED
      BY <2>1, QuestionFacts
  <1>5. PICK n \in Nat : n = Len(g.log)
    BY <1>1
  <1>6. /\ Append(g.log, q) \in Seq(Question) /\ Len(Append(g.log, q)) = n + 1 /\ Append(g.log, q)[n + 1] = q
        /\ \A i \in 1..n : Append(g.log, q)[i] = g.log[i]
        /\ Entries(Append(g.log, q)) = Entries(g.log) \cup {q}
    BY <1>1, <1>4, <1>5, OneMore
  <1> HIDE DEF q
  <1>7. /\ s \in PageT /\ s.waits = 0 /\ s.sent = g.sent /\ s.next = g.next /\ s.log = Append(g.log, q)
        /\ s.done = g.done /\ s.loaded = g.loaded /\ s.total = g.total /\ s.retried = g.retried
        /\ s.scanned = g.scanned /\ s.found = g.found /\ s.settled = g.settled
    BY <1>1, <1>6 DEF PageT
  <1>8. page' = [page EXCEPT ![p] = t] /\ UNCHANGED <<requests, built, used, breaks>>
    <2>1. q.index >= g.total /\ s.total = g.total
      BY <1>3, <1>4, <1>7
    <2> HIDE DEF s
    <2>2. QED
      BY <1>2, <2>1 DEF Answer, s
  <1> HIDE DEF s
  <1>9. /\ t \in PageT /\ t.waits = 0 /\ t.sent = g.sent /\ t.next = NoQuestion /\ t.log = Append(g.log, q)
        /\ t.done /\ t.loaded = g.loaded /\ t.total = g.total /\ t.retried = g.retried
        /\ t.scanned /\ t.found = g.found /\ t.settled = g.settled + 1
    BY <1>1, <1>2, <1>3, <1>7 DEF PageT
  <1> HIDE DEF t
  <1>10. LogInv(t)
    <2>1. PICK k \in Nat : k = g.settled /\ k <= n
      BY <1>1, <1>3, <1>5 DEF LogInv
    <2>2. Len(t.log) = n + 1 /\ t.settled = k + 1 /\ Len(t.log) - t.settled = n - k
      <3>1. Len(t.log) = n + 1
        BY <1>6, <1>9
      <3>2. t.settled = k + 1
        BY <1>9, <2>1
      <3>3. (n + 1) - (k + 1) = n - k
        BY <2>1
      <3>4. QED
        BY <3>1, <3>2, <3>3
    <2>3. \A i \in 1..n - k : t.log[i] \in KernelQuestions
      BY <1>1, <1>5, <1>6, <1>9, <2>1 DEF LogInv
    <2>4. ASSUME NEW i \in 1..k + 1 PROVE t.log[n - k + i] = FindingAt(t.total + i - 1)
      <3>1. CASE i = k + 1
        <4>1. n - k + i = n + 1 /\ g.total + k = t.total + i - 1
          BY <1>3, <1>9, <2>1, <3>1
        <4>2. t.log[n + 1] = FindingAt(g.total + k)
          BY <1>6, <1>9, <2>1 DEF q
        <4>3. QED
          BY <4>1, <4>2
      <3>2. CASE i # k + 1
        <4>1. i \in 1..k /\ n - k + i \in 1..n
          BY <2>1, <3>2
        <4>2. g.log[n - k + i] = FindingAt(g.total + i - 1)
          BY <1>1, <1>5, <2>1, <4>1 DEF LogInv
        <4>3. QED
          BY <1>6, <1>9, <4>1, <4>2
      <3>3. QED
        BY <3>1, <3>2
    <2>5. CoveredBy(Entries(t.log))
      <3>1. CoveredBy(Entries(g.log)) /\ Entries(g.log) \subseteq Entries(t.log)
        BY <1>1, <1>2, <1>6, <1>9 DEF LogInv
      <3>2. QED
        BY <3>1, CoversMore
    <2>6. t.settled <= Len(t.log) /\ t.settled <= t.found
      <3>1. t.settled <= Len(t.log)
        BY <2>1, <2>2
      <3>2. PICK m \in Nat : m = g.found /\ k < m
        BY <1>2, <1>3, <2>1
      <3>3. t.settled <= t.found
        BY <1>9, <2>2, <3>2
      <3>4. QED
        BY <3>1, <3>3
    <2>7. t.loaded /\ t.total \in {Cardinality(Dimension), Len(Template)}
      BY <1>1, <1>2, <1>9 DEF LogInv
    <2>8. QED
      BY <1>9, <2>2, <2>3, <2>4, <2>5, <2>6, <2>7 DEF LogInv
  <1>11. RepeatsInv(t) /\ NextInv(t)
    <2>1. NotAsked(q, g.log)
      <3>1. SUFFICES ASSUME NEW i \in 1..n PROVE ~SameQuestion(g.log[i], q)
        BY <1>1, <1>5, Elements DEF NotAsked
      <3>2. PICK k \in Nat : k = g.settled /\ k <= n
        BY <1>1, <1>3, <1>5 DEF LogInv
      <3>3. CASE i \in 1..n - k
        <4>1. g.log[i].by # "scan"
          BY <1>1, <1>5, <3>2, <3>3, QuestionFacts DEF LogInv
        <4>2. QED
          BY <1>4, <4>1 DEF SameQuestion
      <3>4. CASE i \notin 1..n - k
        <4>1. PICK j \in 1..k : i = n - k + j
          <5>1. i - (n - k) \in 1..k /\ i = n - k + (i - (n - k))
            BY <3>2, <3>4
          <5>2. QED
            BY <5>1
        <4>2. g.log[i] = FindingAt(g.total + j - 1)
          BY <1>1, <1>5, <3>2, <4>1 DEF LogInv
        <4>3. g.log[i].by = "scan" /\ g.log[i].index # q.index
          <5>1. PICK f \in Nat : f = g.total + j - 1 /\ f # q.index
            BY <1>3, <1>4, <3>2, <4>1
          <5>2. g.log[i] = FindingAt(f)
            BY <4>2, <5>1
          <5>3. QED
            BY <5>1, <5>2, QuestionFacts
        <4>4. QED
          BY <4>3 DEF SameQuestion
      <3>5. QED
        BY <3>3, <3>4
    <2>2. Repeats(t.log) = Repeats(g.log)
      BY <1>1, <1>4, <1>9, <2>1, NewRepeats
    <2>3. QED
      BY <1>1, <1>9, <2>2 DEF RepeatsInv, NextInv
  <1>12. p \in Interviewed /\ g.sent >= 1
    BY <1>2, PageFacts DEF Blank
  <1>13. PageMoves(p, t)
    BY <1>9, <1>10, <1>11, <1>12, PageFacts DEF PageMoves
  <1>14. QED
    BY <1>1, <1>8, <1>13, LocalStep

\* An answer, to the kernel or to a finding.
LEMMA AnswerStep ==
    ASSUME DesignInv, NEW p \in Page, Answer(p)
    PROVE  DesignInv'
  BY KernelAnswer, FindingAnswer

-----------------------------------------------------------------------------
\* What the kernel keeps of a request.
LEMMA RequestFacts ==
    ASSUME DesignInv, NEW c \in requests
    PROVE  /\ c \in RequestT /\ c.page \in Page /\ RequestInv(c) /\ c.entries \in SUBSET Question
           /\ c.n \in Nat /\ c.n >= 1 /\ c.stage \in 1..4 /\ c.attempt \in Nat /\ c.tokens \in Nat
           /\ \A d \in requests : d.page = c.page /\ d.n = c.n => d = c
           /\ used \in Nat /\ breaks \in Nat /\ MaxBreaks \in Nat /\ MaxRetries \in Nat
  <1>1. c \in RequestT
    BY DEF DesignInv, DesignTypes
  <1>2. /\ c.page \in Page /\ c.entries \in SUBSET Question /\ c.n \in Nat /\ c.stage \in 1..4
        /\ c.attempt \in Nat /\ c.tokens \in Nat
    BY <1>1 DEF RequestT
  <1>3. RequestInv(c) /\ \A d \in requests : d.page = c.page /\ d.n = c.n => d = c
    BY DEF DesignInv, RequestsInv
  <1>4. c.n >= 1
    BY <1>3 DEF RequestInv
  <1>5. used \in Nat /\ breaks \in Nat /\ MaxBreaks \in Nat /\ MaxRetries \in Nat
    BY DesignAssumption DEF DesignInv, DesignTypeOK
  <1>6. QED
    BY <1>1, <1>2, <1>3, <1>4, <1>5

\* The cost of what a request has called, and one call more.
LEMMA CostFacts ==
    ASSUME DesignInv, NEW c \in requests, c.stage < 4
    PROVE  c.tokens + 1 <= CostOfOne /\ 1 <= CostOfOne /\ CostOfOne \in Nat
  <1>1. PICK r \in Nat : r = MaxRetries + 1 /\ r >= 1
    BY DesignAssumption
  <1>2. CostOfOne = 3 * r
    BY <1>1 DEF CostOfOne
  <1>3. c.tokens <= (c.stage - 1) * r + c.attempt - 1 /\ c.attempt <= r /\ c.stage \in 1..3 /\ c.tokens \in Nat /\ c.attempt \in Nat
    BY <1>1, RequestFacts DEF RequestInv
  <1>4. (c.stage - 1) * r <= 2 * r
    <2>1. CASE c.stage = 1
      BY <1>1, <2>1
    <2>2. CASE c.stage = 2
      BY <1>1, <2>2
    <2>3. CASE c.stage = 3
      BY <1>1, <2>3
    <2>4. QED
      BY <1>3, <2>1, <2>2, <2>3
  <1>5. PICK m \in Nat : m = (c.stage - 1) * r
    BY <1>1, <1>3
  <1>6. QED
    BY <1>1, <1>2, <1>3, <1>4, <1>5

\* A request leaves, whatever its page makes of it.
LEMMA Leaves ==
    ASSUME DesignInv, NEW c \in requests, requests' = requests \ {c}
    PROVE  /\ IsFiniteSet(requests') /\ requests' \in SUBSET RequestT
           /\ Costly' = Costly \ {c} /\ IsFiniteSet(Costly') /\ Cardinality(Costly') \in Nat
           /\ c.stage < 4 => Cardinality(Costly') + 1 = Cardinality(Costly)
           /\ c.stage = 4 => Cardinality(Costly') = Cardinality(Costly)
  <1>1. Costly' = Costly \ {c}
    BY DEF Costly
  <1>2. IsFiniteSet(Costly) /\ Cardinality(Costly) \in Nat
    BY RequestCount
  <1>3. IsFiniteSet(Costly \ {c}) /\ Cardinality(Costly \ {c}) \in Nat
    BY <1>2, FS_Subset, FS_CardinalityType
  <1>4. c \in Costly => Cardinality(Costly \ {c}) = Cardinality(Costly) - 1
    BY <1>2, FS_RemoveElement
  <1>5. (c.stage < 4 <=> c \in Costly) /\ (c.stage = 4 => Costly \ {c} = Costly)
    BY RequestFacts DEF Costly
  <1>6. IsFiniteSet(requests') /\ requests' \in SUBSET RequestT
    BY FS_Subset DEF DesignInv, DesignTypes
  <1>7. c.stage < 4 => Cardinality(Costly') + 1 = Cardinality(Costly)
    BY <1>1, <1>2, <1>4, <1>5
  <1>8. c.stage = 4 => Cardinality(Costly') = Cardinality(Costly)
    BY <1>1, <1>5
  <1>9. QED
    BY <1>1, <1>3, <1>6, <1>7, <1>8

\* One for another is no more.
LEMMA Swapped ==
    ASSUME NEW S, IsFiniteSet(S), NEW c \in S, NEW d
    PROVE  IsFiniteSet((S \ {c}) \cup {d}) /\ Cardinality((S \ {c}) \cup {d}) <= Cardinality(S)
           /\ Cardinality((S \ {c}) \cup {d}) \in Nat
  <1> DEFINE T == S \ {c}
  <1>1. IsFiniteSet(T) /\ Cardinality(T) = Cardinality(S) - 1 /\ Cardinality(S) \in Nat
    BY FS_RemoveElement, FS_CardinalityType, FS_Subset
  <1> HIDE DEF T
  <1>2. /\ IsFiniteSet(T \cup {d})
        /\ Cardinality(T \cup {d}) = IF d \in T THEN Cardinality(T) ELSE Cardinality(T) + 1
    BY <1>1, FS_AddElement
  <1>3. QED
    BY <1>1, <1>2, FS_CardinalityType DEF T

\* What a page gets when it waits for the request that leaves.
Got(u) == [u EXCEPT !.waits = 0]

\* A request leaves with a reply, and the rest stays as it was.
LEMMA ReplyStep ==
    ASSUME DesignInv, NEW c \in requests, requests' = requests \ {c}, NEW u, Reply(c, u),
           page[c.page].waits = c.n => PageMoves(c.page, Got(u)),
           \A w \in built' : w.of \in Page, BuiltInv',
           NEW b \in {0, 1}, breaks' = breaks + b, breaks' <= MaxBreaks, used' \in Nat,
           used' = used \/ (c.stage < 4 /\ used' <= used + CostOfOne)
    PROVE  DesignInv'
  <1>1. c.page \in Page /\ c.n \in Nat /\ c.stage \in 1..4 /\ breaks \in Nat /\ used \in Nat
    BY RequestFacts
  <1>2. /\ page' \in [Page -> PageT] /\ PagesInv'
        /\ \A q \in Page : page'[q].waits <= page'[q].sent /\ page'[q].sent <= MaxSent[q]
        /\ \A d \in requests : RequestInv(d)'
        /\ \A d \in requests \ {c} : page'[d.page].waits # d.n => d \in Stray
    <2>1. CASE page[c.page].waits = c.n
      <3>1. page' = [page EXCEPT ![c.page] = Got(u)] /\ PageMoves(c.page, Got(u))
        BY <2>1 DEF Reply, Got
      <3>2. /\ page' \in [Page -> PageT] /\ PagesInv'
            /\ \A q \in Page : page'[q].waits <= page'[q].sent /\ page'[q].sent <= MaxSent[q]
            /\ \A d \in requests : RequestInv(d)'
            /\ \A d \in requests : page'[d.page].waits # d.n <=> d \in Stray \/ d.page = c.page
        BY <1>1, <3>1, PageStep
      <3>3. ASSUME NEW d \in requests \ {c}, d.page = c.page PROVE d \in Stray
        BY <2>1, <3>3, RequestFacts DEF Stray
      <3>4. QED
        BY <3>2, <3>3
    <2>2. CASE page[c.page].waits # c.n
      <3>1. page' = page
        BY <2>2 DEF Reply
      <3>2. \A d \in requests : RequestInv(d)'
        BY <3>1, RequestFacts DEF RequestInv
      <3>3. PagesInv'
        BY <3>1 DEF DesignInv, PagesInv
      <3>4. QED
        BY <3>1, <3>2, <3>3 DEF DesignInv, DesignTypes, DesignTypeOK, Stray
    <2>3. QED
      BY <2>1, <2>2
  <1>3. /\ IsFiniteSet(requests') /\ requests' \in SUBSET RequestT
        /\ Cardinality(Costly') \in Nat
        /\ c.stage < 4 => Cardinality(Costly') + 1 = Cardinality(Costly)
        /\ c.stage = 4 => Cardinality(Costly') = Cardinality(Costly)
    BY Leaves
  <1>4. Cardinality(Stray') <= breaks + b
    <2>1. Stray' \subseteq Stray
      BY <1>2 DEF Stray
    <2>2. Cardinality(Stray') <= Cardinality(Stray) /\ Cardinality(Stray') \in Nat /\ Cardinality(Stray) \in Nat
      BY <2>1, RequestCount, FS_Subset, FS_CardinalityType
    <2>3. Cardinality(Stray) <= breaks
      BY DEF DesignInv, UsageInv
    <2>4. QED
      BY <1>1, <2>2, <2>3
  <1>5. PICK n \in Nat : n = Cardinality(Costly')
    BY <1>3
  <1>6. (used' <= used + CostOfOne /\ n + 1 <= Cardinality(Costly)) \/ (used' = used /\ n <= Cardinality(Costly))
    <2>1. Cardinality(Costly) \in Nat /\ CostOfOne \in Nat
      BY RequestCount, DesignAssumption, SMTT(60) DEF CostOfOne
    <2>2. QED
      BY <1>1, <1>3, <1>5, <2>1
  <1>7. UsageInv'
    BY <1>1, <1>3, <1>4, <1>5, <1>6, UsageStep
  <1>8. RequestsInv'
    BY <1>2 DEF DesignInv, RequestsInv
  <1>9. DesignTypes' /\ DesignTypeOK'
    BY <1>1, <1>2, <1>3 DEF DesignTypes, DesignTypeOK
  <1>10. QED
    BY <1>2, <1>7, <1>8, <1>9 DEF DesignInv

\* What is recorded of what was called.
LEMMA RecordFacts ==
    ASSUME DesignInv, NEW tokens \in Nat, Record(tokens)
    PROVE  \E b \in {0, 1} : /\ breaks' = breaks + b /\ breaks' <= MaxBreaks /\ used' \in Nat
                             /\ used' = used \/ used' = used + tokens
  <1>1. breaks \in 0..MaxBreaks /\ used \in Nat /\ MaxBreaks \in Nat
    BY DesignAssumption DEF DesignInv, DesignTypeOK
  <1>2. CASE used' = used + tokens /\ UNCHANGED breaks
    <2>1. breaks' = breaks + 0 /\ breaks' <= MaxBreaks /\ used' \in Nat
      BY <1>1, <1>2
    <2>2. QED
      BY <1>2, <2>1
  <1>3. CASE breaks < MaxBreaks /\ breaks' = breaks + 1 /\ UNCHANGED used
    <2>1. breaks' = breaks + 1 /\ breaks' <= MaxBreaks /\ used' \in Nat
      BY <1>1, <1>3
    <2>2. QED
      BY <1>3, <2>1
  <1>4. QED
    BY <1>2, <1>3 DEF Record

-----------------------------------------------------------------------------
\* The page's call breaks: its request is a stray one from now on.
LEMMA BreakStep ==
    ASSUME DesignInv, NEW p \in Page, CallBreaks(p)
    PROVE  DesignInv'
  <1> DEFINE g == page[p]
  <1>1. /\ g.waits # 0 /\ breaks < MaxBreaks /\ breaks' = breaks + 1 /\ UNCHANGED <<requests, built, used>>
        /\ g \in PageT /\ LogInv(g) /\ RepeatsInv(g)
    BY PageFacts DEF CallBreaks
  <1>2. PICK c \in requests : c.page = p /\ c.n = g.waits /\ page' = [page EXCEPT ![p] = Fails(c.kind, g)]
    BY DEF CallBreaks
  <1>3. /\ c.n >= 1 /\ c.n <= g.sent /\ c.kind \in {"question", "generate"}
        /\ c.kind = "generate" => g.next = NoQuestion
        /\ c.kind = "question" => p \in Interviewed /\ ~g.done
    BY <1>2, RequestFacts DEF RequestInv, RequestT
  <1> DEFINE t == Fails(c.kind, g)
  <1>4. PageMoves(p, t)
    <2>1. CASE c.kind = "question"
      <3>1. t = LoadFails(g)
        BY <2>1 DEF Fails
      <3> HIDE DEF t
      <3>2. QED
        BY <1>1, <1>2, <1>3, <2>1, <3>1, FailedPage, PageFacts, RequestFacts DEF PageMoves
    <2>2. CASE c.kind = "generate"
      <3>1. t = [g EXCEPT !.waits = 0]
        BY <2>2 DEF Fails
      <3> HIDE DEF t
      <3>2. /\ t \in PageT /\ t.waits = 0 /\ t.sent = g.sent /\ t.next = g.next /\ t.log = g.log
            /\ t.done = g.done /\ t.loaded = g.loaded /\ t.total = g.total /\ t.retried = g.retried
            /\ t.scanned = g.scanned /\ t.found = g.found /\ t.settled = g.settled
        BY <1>1, <3>1 DEF PageT
      <3>3. LogInv(t)
        BY <1>1, <3>2 DEF LogInv
      <3>4. RepeatsInv(t) /\ NextInv(t)
        BY <1>1, <1>3, <2>2, <3>2 DEF RepeatsInv, NextInv
      <3>5. QED
        BY <1>2, <1>3, <3>2, <3>3, <3>4, PageFacts, RequestFacts DEF PageMoves
    <2>3. QED
      BY <1>3, <2>1, <2>2
  <1> HIDE DEF t
  <1>5. /\ page' \in [Page -> PageT] /\ PagesInv'
        /\ \A q \in Page : page'[q].waits <= page'[q].sent /\ page'[q].sent <= MaxSent[q]
        /\ \A d \in requests : RequestInv(d)'
        /\ \A d \in requests : page'[d.page].waits # d.n <=> d \in Stray \/ d.page = p
    BY <1>2, <1>4, PageStep DEF t
  <1>6. Stray' \subseteq Stray \cup {c}
    <2>1. ASSUME NEW d \in requests, d.page = p, d # c PROVE d \in Stray
      BY <1>2, <2>1, RequestFacts DEF Stray
    <2>2. QED
      BY <1>1, <1>5, <2>1 DEF Stray
  <1>7. breaks \in Nat /\ used \in Nat /\ MaxBreaks \in Nat
    BY <1>2, RequestFacts
  <1>8. Cardinality(Stray') <= breaks + 1
    <2>1. /\ IsFiniteSet(Stray \cup {c}) /\ Cardinality(Stray \cup {c}) \in Nat
          /\ Cardinality(Stray \cup {c}) <= Cardinality(Stray) + 1
      <3>1. /\ IsFiniteSet(Stray \cup {c})
            /\ Cardinality(Stray \cup {c}) = IF c \in Stray THEN Cardinality(Stray) ELSE Cardinality(Stray) + 1
        BY RequestCount, FS_AddElement
      <3>2. Cardinality(Stray) \in Nat /\ Cardinality(Stray \cup {c}) \in Nat
        BY <3>1, RequestCount, FS_CardinalityType
      <3>3. QED
        BY <3>1, <3>2
    <2>2. Cardinality(Stray') <= Cardinality(Stray \cup {c}) /\ Cardinality(Stray') \in Nat
      BY <1>6, <2>1, FS_Subset, FS_CardinalityType
    <2>3. Cardinality(Stray) <= breaks /\ Cardinality(Stray) \in Nat
      BY RequestCount DEF DesignInv, UsageInv
    <2>4. QED
      BY <1>7, <2>1, <2>2, <2>3
  <1>9. Costly' = Costly
    BY <1>1 DEF Costly
  <1>10. PICK n \in Nat : n = Cardinality(Costly')
    BY <1>9, RequestCount
  <1>11. UsageInv'
    BY <1>1, <1>7, <1>8, <1>9, <1>10, UsageStep
  <1>12. RequestsInv' /\ BuiltInv'
    BY <1>1, <1>5 DEF DesignInv, RequestsInv, BuiltInv
  <1>13. DesignTypes' /\ DesignTypeOK'
    BY <1>1, <1>5, <1>7 DEF DesignInv, DesignTypes, DesignTypeOK
  <1>14. QED
    BY <1>5, <1>11, <1>12, <1>13 DEF DesignInv

\* The end of an interview that is covered, or a question that was not sent.
NextFor(c, q, total) ==
    \/ q = NoQuestion /\ CoveredBy(c.entries)
    \/ /\ (q \in LLMQuestions /\ total = Cardinality(Dimension)) \/ (q \in TemplateQuestions /\ total = Len(Template))
       /\ \A e \in c.entries : ~SameQuestion(e, q)

\* A page that gets the next question, or the end.
LEMMA AskedMoves ==
    ASSUME DesignInv, NEW c \in requests, c.kind = "question", page[c.page].waits = c.n,
           NEW q, NEW total \in {Cardinality(Dimension), Len(Template)}, NextFor(c, q, total)
    PROVE  PageMoves(c.page, Got(Asked(page[c.page], q, total)))
  <1> DEFINE g == page[c.page]
             s == Asked(g, q, total)
             t == Got(s)
  <1>1. /\ g \in PageT /\ LogInv(g) /\ RepeatsInv(g) /\ g.log \in Seq(Question)
        /\ c.page \in Page /\ c.page \in Interviewed /\ ~g.done /\ c.entries \subseteq Entries(g.log)
        /\ Entries(g.log) \subseteq c.entries \/ MayRepeat(g)
        /\ c.n >= 1 /\ c.n <= g.sent /\ g.sent \in Nat /\ g.sent <= MaxSent[c.page]
    BY RequestFacts, PageFacts DEF RequestInv
  <1>2. total \in Nat /\ (q \in KernelQuestions => q # NoQuestion) /\ q \in KernelQuestions \cup {NoQuestion}
    BY QuestionFacts DEF KernelQuestions, NextFor
  <1>3. /\ s \in PageT /\ s.sent = g.sent /\ s.next = q /\ s.log = g.log
        /\ s.done = (q = NoQuestion) /\ s.loaded /\ s.total = total /\ s.retried = g.retried
        /\ s.scanned = g.scanned /\ s.found = g.found /\ s.settled = g.settled
    BY <1>1, <1>2 DEF PageT, Asked
  <1> HIDE DEF s
  <1>4. /\ t \in PageT /\ t.waits = 0 /\ t.sent = g.sent /\ t.next = q /\ t.log = g.log
        /\ t.done = (q = NoQuestion) /\ t.loaded /\ t.total = total /\ t.retried = g.retried
        /\ t.scanned = g.scanned /\ t.found = g.found /\ t.settled = g.settled
    BY <1>3 DEF PageT, Got
  <1> HIDE DEF t
  <1>5. g.settled = 0 /\ ~g.scanned
    BY <1>1 DEF LogInv
  <1>6. q # NoQuestion => q.index < total /\ (total # Cardinality(Dimension) => q \in TemplateQuestions)
    BY <1>2, QuestionFacts DEF KernelQuestions, NextFor
  <1>7. q = NoQuestion => CoveredBy(Entries(g.log))
    <2>1. ASSUME q = NoQuestion PROVE CoveredBy(c.entries)
      BY <2>1, QuestionFacts DEF KernelQuestions, NextFor
    <2>2. QED
      BY <1>1, <2>1, CoversMore
  <1>8. LogInv(t)
    <2>1. /\ t.settled <= Len(t.log) /\ t.settled <= t.found
          /\ \A i \in 1..Len(t.log) - t.settled : t.log[i] \in KernelQuestions
          /\ ~t.scanned => t.found = 0
      BY <1>1, <1>4 DEF LogInv
    <2>2. t.settled = 0 /\ ~t.scanned
      BY <1>4, <1>5
    <2>3. \A i \in 1..t.settled : t.log[Len(t.log) - t.settled + i] = FindingAt(t.total + i - 1)
      BY <2>2
    <2>4. t.loaded => t.total \in {Cardinality(Dimension), Len(Template)}
      BY <1>4
    <2>5. t.next # NoQuestion => t.next.index < t.total /\ (t.total # Cardinality(Dimension) => t.next \in TemplateQuestions)
      BY <1>4, <1>6
    <2>6. t.done => t.next = NoQuestion /\ CoveredBy(Entries(t.log))
      BY <1>4, <1>7
    <2>7. QED
      BY <1>4, <2>1, <2>2, <2>3, <2>4, <2>5, <2>6 DEF LogInv
  <1>9. RepeatsInv(t)
    BY <1>1, <1>4 DEF RepeatsInv
  <1>10. q # NoQuestion => NotAsked(q, g.log) \/ MayRepeat(t)
    <2>1. CASE MayRepeat(g)
      BY <1>4, <2>1 DEF MayRepeat
    <2>2. CASE Entries(g.log) \subseteq c.entries
      BY <2>2 DEF NotAsked, Entries, NextFor
    <2>3. QED
      BY <1>1, <2>1, <2>2
  <1>11. NextInv(t)
    BY <1>4, <1>10 DEF NextInv
  <1>12. QED
    BY <1>1, <1>4, <1>8, <1>9, <1>11, RequestFacts DEF PageMoves, t, s

\* The kernel's answer to a page.
LEMMA NextQuestionStep ==
    ASSUME DesignInv, NEW c \in requests, NextQuestion(c)
    PROVE  DesignInv'
  <1> DEFINE s == page[c.page]
             open == OpenDims(c.entries)
  <1>1. c.kind = "question" /\ requests' = requests \ {c} /\ built' = built
    BY DEF NextQuestion
  <1>2. c.stage = 1 /\ c.entries \in SUBSET Question
    BY <1>1, RequestFacts DEF RequestInv
  <1>3. PICK tokens \in {0, 1} :
            /\ Record(tokens)
            /\ \/ \E q \in PickNext(open) : Reply(c, Asked(s, q, Cardinality(Dimension)))
               \/ open = {} /\ Reply(c, Asked(s, NoQuestion, Cardinality(Dimension)))
               \/ Reply(c, Asked(s, Fallback(c.entries), Len(Template)))
    BY DEF NextQuestion
  <1>4. PICK b \in {0, 1} : breaks' = breaks + b /\ breaks' <= MaxBreaks /\ used' \in Nat
                            /\ (used' = used \/ used' = used + tokens)
    <2>1. tokens \in Nat
      OBVIOUS
    <2>2. QED
      BY <1>3, <2>1, RecordFacts
  <1>5. used' = used \/ (c.stage < 4 /\ used' <= used + CostOfOne)
    <2>1. c.stage < 4 /\ 1 <= CostOfOne /\ CostOfOne \in Nat /\ used \in Nat
      BY <1>2, CostFacts, RequestFacts
    <2>2. QED
      BY <1>4, <2>1
  <1>6. BuiltInv' /\ \A w \in built' : w.of \in Page
    BY <1>1 DEF DesignInv, BuiltInv, DesignTypes
  <1>7. ASSUME NEW q, NEW total \in {Cardinality(Dimension), Len(Template)}, Reply(c, Asked(s, q, total)),
               NextFor(c, q, total)
        PROVE  DesignInv'
    <2> DEFINE u == Asked(s, q, total)
    <2>1. page[c.page].waits = c.n => PageMoves(c.page, Got(u))
      BY <1>1, <1>7, AskedMoves
    <2>2. Reply(c, u)
      BY <1>7
    <2> HIDE DEF u, s, open
    <2>3. QED
      BY <1>1, <1>4, <1>5, <1>6, <2>1, <2>2, ReplyStep
  <1>8. ASSUME NEW q \in PickNext(open) PROVE NextFor(c, q, Cardinality(Dimension))
    <2>1. q \in LLMQuestions /\ \A e \in c.entries : ~SameQuestion(e, q)
      BY <1>2, NextIsNew
    <2>2. QED
      BY <2>1 DEF NextFor
  <1>9. open = {} => NextFor(c, NoQuestion, Cardinality(Dimension))
    BY DEF NextFor, CoveredBy
  <1>10. NextFor(c, Fallback(c.entries), Len(Template))
    <2>1. CASE Unseen(c.entries) = {}
      BY <1>2, <2>1, NextIsNew DEF NextFor, CoveredBy
    <2>2. CASE Unseen(c.entries) # {}
      BY <1>2, <2>2, NextIsNew DEF NextFor
    <2>3. QED
      BY <2>1, <2>2
  <1> HIDE DEF s, open
  <1>11. QED
    BY <1>3, <1>7, <1>8, <1>9, <1>10

\* A page whose generation is over, well or badly.
LEMMA OverMoves ==
    ASSUME DesignInv, NEW c \in requests, c.kind = "generate", page[c.page].waits = c.n, NEW over \in BOOLEAN
    PROVE  PageMoves(c.page, Got([page[c.page] EXCEPT !.over = over]))
  <1> DEFINE g == page[c.page]
             s == [g EXCEPT !.over = over]
             t == Got(s)
  <1>1. /\ g \in PageT /\ LogInv(g) /\ RepeatsInv(g) /\ g.next = NoQuestion
        /\ c.n >= 1 /\ c.n <= g.sent /\ g.sent \in Nat /\ g.sent <= MaxSent[c.page]
        /\ c.page \notin Interviewed => g.log = <<>> /\ ~g.done
    BY RequestFacts, PageFacts DEF RequestInv
  <1>2. /\ s \in PageT /\ s.sent = g.sent /\ s.next = g.next /\ s.log = g.log
        /\ s.done = g.done /\ s.loaded = g.loaded /\ s.total = g.total /\ s.retried = g.retried
        /\ s.scanned = g.scanned /\ s.found = g.found /\ s.settled = g.settled
    BY <1>1 DEF PageT
  <1> HIDE DEF s
  <1>3. /\ t \in PageT /\ t.waits = 0 /\ t.sent = g.sent /\ t.next = g.next /\ t.log = g.log
        /\ t.done = g.done /\ t.loaded = g.loaded /\ t.total = g.total /\ t.retried = g.retried
        /\ t.scanned = g.scanned /\ t.found = g.found /\ t.settled = g.settled
    BY <1>2 DEF PageT, Got
  <1> HIDE DEF t
  <1>4. LogInv(t)
    BY <1>1, <1>3 DEF LogInv
  <1>5. RepeatsInv(t)
    BY <1>1, <1>3 DEF RepeatsInv
  <1>6. NextInv(t)
    BY <1>1, <1>3 DEF NextInv
  <1>7. QED
    BY <1>1, <1>3, <1>4, <1>5, <1>6, RequestFacts DEF PageMoves, t, s

\* The row is inserted, or its id was taken.
LEMMA InsertionStep ==
    ASSUME DesignInv, NEW c \in requests, Insert(c)
    PROVE  DesignInv'
  <1>1. c.kind = "generate" /\ requests' = requests \ {c} /\ UNCHANGED <<used, breaks>>
    BY DEF Insert
  <1>2. PICK id \in WorkflowId :
            \/ Reply(c, page[c.page]) /\ UNCHANGED built
            \/ /\ built' = built \cup {[id |-> id, of |-> c.page, log |-> c.entries]}
               /\ Reply(c, [page[c.page] EXCEPT !.over = TRUE])
    BY DEF Insert
  <1>3. PICK over \in BOOLEAN : Reply(c, [page[c.page] EXCEPT !.over = over])
    <2>1. page[c.page] \in PageT
      BY RequestFacts, PageFacts
    <2>2. page[c.page] = [page[c.page] EXCEPT !.over = page[c.page].over] /\ page[c.page].over \in BOOLEAN
      BY <2>1 DEF PageT
    <2>3. QED
      BY <1>2, <2>2
  <1> DEFINE u == [page[c.page] EXCEPT !.over = over]
  <1>4. Reply(c, u) /\ (page[c.page].waits = c.n => PageMoves(c.page, Got(u)))
    BY <1>1, <1>3, OverMoves
  <1> HIDE DEF u
  <1>5. BuiltInv' /\ \A w \in built' : w.of \in Page
    <2>1. c.page \in Page /\ (c.page \in Interviewed => CoveredBy(c.entries))
      BY <1>1, RequestFacts DEF RequestInv
    <2>2. BuiltInv /\ \A w \in built : w.of \in Page
      BY DEF DesignInv, DesignTypes
    <2>3. ASSUME NEW w \in built' PROVE w.of \in Page /\ (w.of \in Interviewed => CoveredBy(w.log))
      <3>1. w \in built \/ w = [id |-> id, of |-> c.page, log |-> c.entries]
        BY <1>2
      <3>2. QED
        BY <2>1, <2>2, <3>1 DEF BuiltInv
    <2>4. QED
      BY <2>3 DEF BuiltInv
  <1>6. breaks' = breaks + 0 /\ breaks' <= MaxBreaks /\ used' \in Nat
    BY <1>1 DEF DesignInv, DesignTypeOK
  <1>7. QED
    BY <1>1, <1>4, <1>5, <1>6, ReplyStep

-----------------------------------------------------------------------------
\* A request that goes on, in the place of the one before.
LEMMA ReplacedStep ==
    ASSUME DesignInv, NEW c \in requests, NEW d \in RequestT, requests' = (requests \ {c}) \cup {d},
           d.page = c.page, d.n = c.n, RequestInv(d), UNCHANGED <<page, built>>,
           NEW b \in {0, 1}, breaks' = breaks + b, breaks' <= MaxBreaks, used' \in Nat,
           used' = used \/ (c.stage < 4 /\ d.stage = 4 /\ used' <= used + CostOfOne), c.stage < 4
    PROVE  DesignInv'
  <1>1. /\ c.page \in Page /\ c.n \in Nat /\ c.stage \in 1..4 /\ breaks \in Nat /\ used \in Nat /\ c \in Costly
        /\ d.stage \in 1..4
    BY RequestFacts DEF Costly, RequestT
  <1>2. IsFiniteSet(requests') /\ requests' \in SUBSET RequestT
    BY Swapped DEF DesignInv, DesignTypes
  <1>3. /\ Cardinality(Costly') \in Nat
        /\ Cardinality(Costly') <= Cardinality(Costly)
        /\ d.stage = 4 => Cardinality(Costly') + 1 <= Cardinality(Costly)
    <2>1. IsFiniteSet(Costly) /\ Cardinality(Costly) \in Nat
      BY RequestCount
    <2>2. CASE d.stage < 4
      <3>1. Costly' = (Costly \ {c}) \cup {d}
        BY <1>1, <2>2 DEF Costly
      <3>2. QED
        BY <1>1, <2>1, <2>2, <3>1, Swapped
    <2>3. CASE d.stage = 4
      <3>1. Costly' = Costly \ {c}
        BY <1>1, <2>3 DEF Costly
      <3>2. Cardinality(Costly \ {c}) = Cardinality(Costly) - 1 /\ Cardinality(Costly \ {c}) \in Nat
        BY <1>1, <2>1, FS_RemoveElement, FS_Subset, FS_CardinalityType
      <3>3. QED
        BY <2>1, <3>1, <3>2
    <2>4. QED
      BY <1>1, <2>2, <2>3
  <1>4. Cardinality(Stray') <= breaks + b
    <2>1. CASE page[c.page].waits = c.n
      <3>1. Stray' = Stray
        BY <2>1 DEF Stray
      <3>2. Cardinality(Stray) <= breaks /\ Cardinality(Stray) \in Nat
        BY RequestCount DEF DesignInv, UsageInv
      <3>3. QED
        BY <1>1, <3>1, <3>2
    <2>2. CASE page[c.page].waits # c.n
      <3>1. Stray' = (Stray \ {c}) \cup {d} /\ c \in Stray
        BY <2>2 DEF Stray
      <3>2. IsFiniteSet(Stray) /\ Cardinality(Stray) <= breaks /\ Cardinality(Stray) \in Nat
        BY RequestCount DEF DesignInv, UsageInv
      <3>3. Cardinality(Stray') <= Cardinality(Stray) /\ Cardinality(Stray') \in Nat
        BY <3>1, <3>2, Swapped
      <3>4. QED
        BY <1>1, <3>2, <3>3
    <2>3. QED
      BY <2>1, <2>2
  <1>5. PICK n \in Nat : n = Cardinality(Costly')
    BY <1>3
  <1>6. (used' <= used + CostOfOne /\ n + 1 <= Cardinality(Costly)) \/ (used' = used /\ n <= Cardinality(Costly))
    BY <1>3, <1>5
  <1>7. UsageInv'
    BY <1>1, <1>3, <1>4, <1>5, <1>6, UsageStep
  <1>8. RequestsInv'
    <2>1. RequestInv(d)' /\ \A e \in requests : RequestInv(e)'
      <3>1. \A e : RequestInv(e) => RequestInv(e)'
        BY DEF RequestInv
      <3>2. QED
        BY <3>1, RequestFacts
    <2>2. ASSUME NEW e \in requests', NEW f \in requests', e.page = f.page, e.n = f.n PROVE e = f
      BY <2>2, RequestFacts
    <2>3. QED
      BY <2>1, <2>2 DEF RequestsInv
  <1>9. PagesInv' /\ BuiltInv'
    BY DEF DesignInv, PagesInv, BuiltInv
  <1>10. DesignTypes' /\ DesignTypeOK'
    BY <1>1, <1>2 DEF DesignInv, DesignTypes, DesignTypeOK
  <1>11. QED
    BY <1>7, <1>8, <1>9, <1>10 DEF DesignInv

\* A request whose spec, simulation and metric are all there.
LEMMA Inserting ==
    ASSUME NEW c \in RequestT, c.stage \in 1..3
    PROVE  LET d == [c EXCEPT !.stage = @ + 1, !.tokens = 0]
           IN  /\ d \in RequestT /\ d.page = c.page /\ d.n = c.n /\ d.kind = c.kind /\ d.entries = c.entries
               /\ d.stage = c.stage + 1 /\ d.attempt = c.attempt /\ d.tokens = 0
  <1> DEFINE u == [c EXCEPT !.stage = @ + 1]
             v == [u EXCEPT !.tokens = 0]
  <1>1. v = [c EXCEPT !.stage = @ + 1, !.tokens = 0]
    OBVIOUS
  <1>2. /\ u \in RequestT /\ u.page = c.page /\ u.n = c.n /\ u.kind = c.kind /\ u.entries = c.entries
        /\ u.stage = c.stage + 1 /\ u.attempt = c.attempt
    BY DEF RequestT
  <1> HIDE DEF u
  <1>3. /\ v \in RequestT /\ v.page = c.page /\ v.n = c.n /\ v.kind = c.kind /\ v.entries = c.entries
        /\ v.stage = c.stage + 1 /\ v.attempt = c.attempt /\ v.tokens = 0
    BY <1>2 DEF RequestT
  <1> HIDE DEF v
  <1>4. QED
    BY <1>1, <1>3

\* A request whose next generator is called.
LEMMA NextStage ==
    ASSUME NEW c \in RequestT, c.stage \in 1..3
    PROVE  LET d == [c EXCEPT !.stage = @ + 1, !.attempt = 1, !.tokens = @ + 1]
           IN  /\ d \in RequestT /\ d.page = c.page /\ d.n = c.n /\ d.kind = c.kind /\ d.entries = c.entries
               /\ d.stage = c.stage + 1 /\ d.attempt = 1 /\ d.tokens = c.tokens + 1
  <1> DEFINE u == [c EXCEPT !.stage = @ + 1]
             v == [u EXCEPT !.attempt = 1]
             w == [v EXCEPT !.tokens = @ + 1]
  <1>1. w = [c EXCEPT !.stage = @ + 1, !.attempt = 1, !.tokens = @ + 1]
    OBVIOUS
  <1>2. /\ u \in RequestT /\ u.page = c.page /\ u.n = c.n /\ u.kind = c.kind /\ u.entries = c.entries
        /\ u.stage = c.stage + 1 /\ u.tokens = c.tokens
    BY DEF RequestT
  <1> HIDE DEF u
  <1>3. /\ v \in RequestT /\ v.page = c.page /\ v.n = c.n /\ v.kind = c.kind /\ v.entries = c.entries
        /\ v.stage = c.stage + 1 /\ v.attempt = 1 /\ v.tokens = c.tokens
    BY <1>2 DEF RequestT
  <1> HIDE DEF v
  <1>4. /\ w \in RequestT /\ w.page = c.page /\ w.n = c.n /\ w.kind = c.kind /\ w.entries = c.entries
        /\ w.stage = c.stage + 1 /\ w.attempt = 1 /\ w.tokens = c.tokens + 1
    BY <1>3 DEF RequestT
  <1> HIDE DEF w
  <1>5. QED
    BY <1>1, <1>4

\* A request whose generator is called again.
LEMMA NextAttempt ==
    ASSUME NEW c \in RequestT
    PROVE  LET d == [c EXCEPT !.attempt = @ + 1, !.tokens = @ + 1]
           IN  /\ d \in RequestT /\ d.page = c.page /\ d.n = c.n /\ d.kind = c.kind /\ d.entries = c.entries
               /\ d.stage = c.stage /\ d.attempt = c.attempt + 1 /\ d.tokens = c.tokens + 1
  <1> DEFINE u == [c EXCEPT !.attempt = @ + 1]
             v == [u EXCEPT !.tokens = @ + 1]
  <1>1. v = [c EXCEPT !.attempt = @ + 1, !.tokens = @ + 1]
    OBVIOUS
  <1>2. /\ u \in RequestT /\ u.page = c.page /\ u.n = c.n /\ u.kind = c.kind /\ u.entries = c.entries
        /\ u.stage = c.stage /\ u.attempt = c.attempt + 1 /\ u.tokens = c.tokens
    BY DEF RequestT
  <1> HIDE DEF u
  <1>3. /\ v \in RequestT /\ v.page = c.page /\ v.n = c.n /\ v.kind = c.kind /\ v.entries = c.entries
        /\ v.stage = c.stage /\ v.attempt = c.attempt + 1 /\ v.tokens = c.tokens + 1
    BY <1>2 DEF RequestT
  <1> HIDE DEF v
  <1>4. QED
    BY <1>1, <1>3

\* A request whose generator's input is valid moves to the next stage.
LEMMA AdvanceFacts ==
    ASSUME DesignInv, NEW c \in requests, c.kind = "generate", c.stage < 4
    PROVE  /\ Advance(c) \in RequestT /\ Advance(c).page = c.page /\ Advance(c).n = c.n /\ RequestInv(Advance(c))
           /\ Advance(c).stage = c.stage + 1
           /\ Stages[c.stage + 1] = "insert" <=> c.stage = 3
  <1>1. /\ c \in RequestT /\ c.page \in Page /\ RequestInv(c) /\ c.stage \in 1..3
        /\ c.n \in Nat /\ c.attempt \in Nat /\ c.tokens \in Nat /\ MaxRetries \in Nat
    BY RequestFacts
  <1>2. c.stage \in {1, 2, 3} /\ (Stages[c.stage + 1] = "insert" <=> c.stage = 3)
    BY <1>1 DEF Stages
  <1>3. CASE c.stage = 3
    <2> DEFINE d == [c EXCEPT !.stage = @ + 1, !.tokens = 0]
    <2>1. /\ d \in RequestT /\ d.page = c.page /\ d.n = c.n /\ d.kind = c.kind /\ d.entries = c.entries
          /\ d.stage = 4 /\ d.attempt = c.attempt /\ d.tokens = 0
      <3>1. d.stage = c.stage + 1 /\ d.attempt = c.attempt /\ d.tokens = 0
        BY <1>1, Inserting
      <3>2. d \in RequestT /\ d.page = c.page /\ d.n = c.n /\ d.kind = c.kind /\ d.entries = c.entries
        BY <1>1, Inserting
      <3> HIDE DEF d
      <3>3. QED
        BY <1>3, <3>1, <3>2
    <2>2. d = Advance(c)
      BY <1>2, <1>3 DEF Advance
    <2> HIDE DEF d
    <2>3. RequestInv(d)
      BY <1>1, <2>1 DEF RequestInv
    <2>4. QED
      BY <1>2, <1>3, <2>1, <2>2, <2>3
  <1>4. CASE c.stage \in {1, 2}
    <2> DEFINE d == [c EXCEPT !.stage = @ + 1, !.attempt = 1, !.tokens = @ + 1]
    <2>1. /\ d \in RequestT /\ d.page = c.page /\ d.n = c.n /\ d.kind = c.kind /\ d.entries = c.entries
          /\ d.stage = c.stage + 1 /\ d.attempt = 1 /\ d.tokens = c.tokens + 1
      BY <1>1, <1>4, NextStage
    <2>2. d = Advance(c)
      BY <1>2, <1>4 DEF Advance
    <2> HIDE DEF d
    <2>3. d.tokens <= (d.stage - 1) * (MaxRetries + 1) + d.attempt - 1
      <3>1. c.tokens <= (c.stage - 1) * (MaxRetries + 1) + c.attempt - 1 /\ c.attempt <= MaxRetries + 1
        BY <1>1, <1>4 DEF RequestInv
      <3>2. CASE c.stage = 1
        BY <1>1, <2>1, <3>1, <3>2
      <3>3. CASE c.stage = 2
        BY <1>1, <2>1, <3>1, <3>3
      <3>4. QED
        BY <1>4, <3>2, <3>3
    <2>4. RequestInv(d)
      BY <1>1, <2>1, <2>3 DEF RequestInv
    <2>5. QED
      BY <1>2, <1>4, <2>1, <2>2, <2>4
  <1>5. QED
    BY <1>2, <1>3, <1>4

\* A call of a generator.
LEMMA GeneratorCallStep ==
    ASSUME DesignInv, NEW c \in requests, CallLLM(c)
    PROVE  DesignInv'
  <1>1. c.kind = "generate" /\ Stages[c.stage] # "insert" /\ built' = built
    BY DEF CallLLM
  <1>2. /\ c \in RequestT /\ c.page \in Page /\ RequestInv(c) /\ c.stage \in {1, 2, 3}
        /\ c.n \in Nat /\ c.attempt \in Nat /\ c.tokens \in Nat /\ MaxRetries \in Nat
        /\ used \in Nat /\ breaks \in Nat /\ breaks <= MaxBreaks
    <2>1. c.stage \in {1, 2, 3, 4} /\ Stages[4] = "insert"
      BY RequestFacts DEF Stages
    <2>2. QED
      BY <1>1, <2>1, RequestFacts DEF DesignInv, DesignTypeOK
  <1>3. c.stage < 4 /\ c.tokens + 1 <= CostOfOne /\ CostOfOne \in Nat
    BY <1>2, CostFacts
  <1>4. CASE /\ requests' = (requests \ {c}) \cup {Advance(c)}
             /\ IF Stages[c.stage + 1] = "insert" THEN Record(c.tokens + 1) ELSE UNCHANGED <<used, breaks>>
             /\ UNCHANGED page
    <2> DEFINE d == Advance(c)
    <2>1. /\ d \in RequestT /\ d.page = c.page /\ d.n = c.n /\ RequestInv(d) /\ d.stage = c.stage + 1
          /\ Stages[c.stage + 1] = "insert" <=> c.stage = 3
      BY <1>1, <1>3, AdvanceFacts
    <2> HIDE DEF d
    <2>2. CASE c.stage = 3
      <3>1. c.tokens + 1 \in Nat /\ Record(c.tokens + 1)
        BY <1>2, <1>4, <2>1, <2>2
      <3>2. PICK b \in {0, 1} : breaks' = breaks + b /\ breaks' <= MaxBreaks /\ used' \in Nat
                                /\ (used' = used \/ used' = used + (c.tokens + 1))
        BY <3>1, RecordFacts
      <3>3. used' = used \/ (c.stage < 4 /\ d.stage = 4 /\ used' <= used + CostOfOne)
        BY <1>2, <1>3, <2>1, <2>2, <3>2
      <3>4. QED
        BY <1>1, <1>3, <1>4, <2>1, <3>2, <3>3, ReplacedStep DEF d
    <2>3. CASE c.stage # 3
      <3>1. breaks' = breaks + 0 /\ breaks' <= MaxBreaks /\ used' = used
        BY <1>2, <1>4, <2>1, <2>3
      <3>2. QED
        BY <1>1, <1>2, <1>3, <1>4, <2>1, <3>1, ReplacedStep DEF d
    <2>4. QED
      BY <2>2, <2>3
  <1>5. CASE /\ c.attempt <= MaxRetries
             /\ requests' = (requests \ {c}) \cup {[c EXCEPT !.attempt = @ + 1, !.tokens = @ + 1]}
             /\ UNCHANGED <<page, used, breaks>>
    <2> DEFINE d == [c EXCEPT !.attempt = @ + 1, !.tokens = @ + 1]
    <2>1. /\ d \in RequestT /\ d.page = c.page /\ d.n = c.n /\ d.kind = c.kind /\ d.entries = c.entries
          /\ d.stage = c.stage /\ d.attempt = c.attempt + 1 /\ d.tokens = c.tokens + 1
      BY <1>2, NextAttempt
    <2> HIDE DEF d
    <2>2. d.tokens <= (d.stage - 1) * (MaxRetries + 1) + d.attempt - 1
      <3>1. c.tokens <= (c.stage - 1) * (MaxRetries + 1) + c.attempt - 1
        BY <1>2, <1>3 DEF RequestInv
      <3>2. PICK k \in Int : k = (c.stage - 1) * (MaxRetries + 1)
        BY <1>2
      <3>3. QED
        BY <1>2, <2>1, <3>1, <3>2
    <2>3. RequestInv(d)
      BY <1>1, <1>2, <1>5, <2>1, <2>2 DEF RequestInv
    <2>4. breaks' = breaks + 0 /\ breaks' <= MaxBreaks /\ used' = used
      BY <1>2, <1>5
    <2>5. QED
      BY <1>1, <1>2, <1>3, <1>5, <2>1, <2>3, <2>4, ReplacedStep DEF d
  <1>6. CASE /\ requests' = requests \ {c}
             /\ \E last \in {0, 1} : Record(c.tokens + last)
             /\ Reply(c, page[c.page])
    <2>1. PICK last \in {0, 1} : Record(c.tokens + last)
      BY <1>6
    <2>2. PICK n \in Nat : n = c.tokens + last /\ n <= CostOfOne
      BY <1>2, <1>3
    <2>3. PICK b \in {0, 1} : breaks' = breaks + b /\ breaks' <= MaxBreaks /\ used' \in Nat
                              /\ (used' = used \/ used' = used + n)
      BY <2>1, <2>2, RecordFacts
    <2>4. used' = used \/ (c.stage < 4 /\ used' <= used + CostOfOne)
      BY <1>2, <1>3, <2>2, <2>3
    <2> DEFINE u == [page[c.page] EXCEPT !.over = page[c.page].over]
    <2>5. page[c.page] = u /\ page[c.page].over \in BOOLEAN
      BY <1>2, PageFacts DEF PageT
    <2>6. page[c.page].waits = c.n => PageMoves(c.page, Got(u))
      BY <1>1, <2>5, OverMoves
    <2> HIDE DEF u
    <2>7. BuiltInv' /\ \A w \in built' : w.of \in Page
      BY <1>1 DEF DesignInv, BuiltInv, DesignTypes
    <2>8. QED
      BY <1>6, <2>3, <2>4, <2>5, <2>6, <2>7, ReplyStep
  <1>7. QED
    BY <1>4, <1>5, <1>6 DEF CallLLM

-----------------------------------------------------------------------------
\* The visitor has opened pages and asked nothing.
LEMMA DesignInvInit ==
    ASSUME DesignInit
    PROVE  DesignInv
  <1>1. /\ page = [p \in Page |-> Blank] /\ requests = {} /\ built = {} /\ used = 0 /\ breaks = 0
        /\ MaxBreaks \in Nat /\ NumFindings \in Nat /\ TokenLimit \in Nat /\ MaxRetries \in Nat
    BY DesignAssumption DEF DesignInit
  <1>2. /\ Blank.next = NoQuestion /\ ~Blank.done /\ ~Blank.loaded /\ Blank.total = 0 /\ Blank.log = <<>>
        /\ ~Blank.retried /\ ~Blank.scanned /\ Blank.found = 0 /\ Blank.settled = 0 /\ Blank.waits = 0 /\ Blank.sent = 0
    BY DEF Blank
  <1>3. <<>> \in Seq(Question) /\ Len(<<>>) = 0 /\ DOMAIN <<>> = {} /\ Repeats(<<>>) = {}
    BY DEF Repeats
  <1>4. Blank \in PageT
    BY <1>1, <1>3 DEF PageT, Blank
  <1>5. LogInv(Blank) /\ RepeatsInv(Blank) /\ NextInv(Blank)
    <2>1. LogInv(Blank)
      BY <1>2, <1>3 DEF LogInv
    <2>2. RepeatsInv(Blank) /\ NextInv(Blank)
      BY <1>2, <1>3 DEF RepeatsInv, NextInv
    <2>3. QED
      BY <2>1, <2>2
  <1>6. PagesInv
    BY <1>1, <1>2, <1>5 DEF PagesInv
  <1>7. DesignTypes /\ DesignTypeOK
    <2>1. IsFiniteSet(requests)
      BY <1>1, FS_EmptySet
    <2>2. \A p \in Page : MaxSent[p] \in Nat /\ page[p] = Blank
      BY <1>1, DesignAssumption
    <2>3. QED
      BY <1>1, <1>2, <1>4, <2>1, <2>2 DEF DesignTypes, DesignTypeOK
  <1>8. RequestsInv /\ BuiltInv
    BY <1>1 DEF RequestsInv, BuiltInv
  <1>9. UsageInv
    <2>1. Stray = {} /\ Costly = {} /\ Cardinality(Stray) = 0 /\ Cardinality(Costly) = 0
      BY <1>1, FS_EmptySet DEF Stray, Costly
    <2>2. PICK n \in Nat : n = Cardinality(Page) /\ n >= 1
      <3>1. Cardinality(Page) \in Nat /\ Cardinality(Page) # 0
        BY DesignAssumption, FS_EmptySet, FS_CardinalityType
      <3>2. QED
        BY <3>1
    <2>3. PICK cost \in Nat : cost = CostOfOne /\ cost >= 1
      <3>1. 3 * (MaxRetries + 1) \in Nat /\ 3 * (MaxRetries + 1) >= 1
        BY <1>1
      <3>2. QED
        BY <3>1 DEF CostOfOne
    <2>4. n * cost >= 1 /\ n * cost \in Nat
      <3>1. \A x, y \in Nat : x >= 1 /\ y >= 1 => x * y >= 1 /\ x * y \in Nat
        OBVIOUS
      <3>2. QED
        BY <2>2, <2>3, <3>1
    <2>5. used >= TokenLimit => used + 0 * cost <= TokenLimit - 1 + (n + breaks) * cost
      <3>1. n + breaks = n
        BY <1>1, <2>2
      <3>2. PICK k \in Nat : k = n * cost /\ k >= 1
        BY <2>4
      <3>3. 0 * cost = 0
        BY <2>3
      <3>4. QED
        BY <1>1, <3>1, <3>2, <3>3
    <2>6. Cardinality(Stray) <= breaks
      BY <1>1, <2>1
    <2>7. QED
      BY <2>1, <2>2, <2>3, <2>5, <2>6 DEF UsageInv
  <1>10. QED
    BY <1>6, <1>7, <1>8, <1>9 DEF DesignInv

\* Every step keeps the invariant.
LEMMA DesignInvStep ==
    ASSUME DesignInv, [DesignNext]_designVars
    PROVE  DesignInv'
  <1>1. CASE UNCHANGED designVars
    <2>1. UNCHANGED <<page, requests, built, used, breaks>>
      BY <1>1 DEF designVars
    <2>2. Stray' = Stray /\ Costly' = Costly
      BY <2>1 DEF Stray, Costly
    <2>3. DesignTypes' /\ DesignTypeOK' /\ PagesInv' /\ BuiltInv'
      BY <2>1 DEF DesignInv, DesignTypes, DesignTypeOK, PagesInv, BuiltInv
    <2>4. RequestsInv'
      BY <2>1 DEF DesignInv, RequestsInv, RequestInv
    <2>5. UsageInv'
      BY <2>1, <2>2 DEF DesignInv, UsageInv
    <2>6. QED
      BY <2>3, <2>4, <2>5 DEF DesignInv
  <1>2. ASSUME NEW p \in Page, Open(p) \/ RetryFirst(p) \/ Answer(p) \/ Scan(p) \/ Generate(p) \/ CallBreaks(p)
        PROVE  DesignInv'
    BY <1>2, FirstQuestionStep, RetryStep, AnswerStep, ScanStep, GenerationStep, BreakStep
  <1>3. ASSUME NEW c \in requests, NextQuestion(c) \/ CallLLM(c) \/ Insert(c) PROVE DesignInv'
    BY <1>3, NextQuestionStep, GeneratorCallStep, InsertionStep
  <1>4. QED
    BY <1>1, <1>2, <1>3 DEF DesignNext

\* The pages, the kernel's requests, what is built and what is used agree.
THEOREM DesignInvariance == DesignSpec => []DesignInv
  BY DesignInvInit, DesignInvStep, PTL DEF DesignSpec

\* What a page has counted and what is recorded for the visitor stay within
\* their bounds.
THEOREM DesignTypeCorrect == DesignSpec => []DesignTypeOK
  <1>1. DesignInv => DesignTypeOK
    BY DEF DesignInv
  <1>2. QED
    BY <1>1, DesignInvariance, PTL

-----------------------------------------------------------------------------
\* The kernel has a question for each dimension and one for each of the template.
LEMMA KernelQuestionCount ==
    /\ IsFiniteSet(KernelQuestions) /\ Cardinality(KernelQuestions) \in Nat
    /\ Cardinality(KernelQuestions) <= Cardinality(Dimension) + Len(Template)
  <1>1. IsFiniteSet(Dimension) /\ Cardinality(Dimension) \in Nat /\ Len(Template) \in Nat
    BY DesignAssumption, QuestionFacts
  <1>2. /\ IsFiniteSet(LLMQuestions) /\ Cardinality(LLMQuestions) \in Nat
        /\ Cardinality(LLMQuestions) <= Cardinality(Dimension)
    <2> DEFINE f == [d \in Dimension |-> [by |-> "llm", dim |-> d, index |-> 0]]
    <2>1. f \in Surjection(Dimension, LLMQuestions)
      BY DEF Surjection, LLMQuestions
    <2> HIDE DEF f
    <2>2. QED
      BY <1>1, <2>1, FS_Surjection, FS_CardinalityType
  <1>3. /\ IsFiniteSet(TemplateQuestions) /\ Cardinality(TemplateQuestions) \in Nat
        /\ Cardinality(TemplateQuestions) <= Len(Template)
    <2> DEFINE S == 0..Len(Template) - 1
               f == [n \in S |-> [by |-> "template", dim |-> Template[n + 1], index |-> n]]
    <2>1. IsFiniteSet(S) /\ Cardinality(S) = Len(Template)
      <3>1. PICK m \in Int : m = Len(Template) - 1
        <4>1. Len(Template) - 1 \in Int
          BY <1>1
        <4>2. QED
          BY <4>1
      <3>2. IsFiniteSet(0..m) /\ Cardinality(0..m) = IF 0 > m THEN 0 ELSE m - 0 + 1
        BY FS_Interval
      <3>3. QED
        BY <1>1, <3>1, <3>2
    <2>2. f \in Surjection(S, TemplateQuestions)
      BY DEF Surjection, TemplateQuestions
    <2> HIDE DEF f, S
    <2>3. QED
      BY <2>1, <2>2, FS_Surjection, FS_CardinalityType
  <1>4. /\ IsFiniteSet(KernelQuestions) /\ Cardinality(KernelQuestions) \in Nat
        /\ Cardinality(KernelQuestions)
           = Cardinality(LLMQuestions) + Cardinality(TemplateQuestions) - Cardinality(LLMQuestions \cap TemplateQuestions)
    BY <1>2, <1>3, FS_Union, FS_CardinalityType DEF KernelQuestions
  <1>5. Cardinality(LLMQuestions \cap TemplateQuestions) \in Nat
    BY <1>2, FS_Intersection, FS_CardinalityType
  <1>6. QED
    BY <1>1, <1>2, <1>3, <1>4, <1>5

\* The log of an interview is as long as its questions are many, and one repeat.
LEMMA LogBound ==
    ASSUME NEW s \in PageT, LogInv(s), RepeatsInv(s)
    PROVE  /\ Cardinality(Repeats(s.log)) <= IF s.retried THEN 1 ELSE 0
           /\ Len(s.log) <= Cardinality(Dimension) + Len(Template) + NumFindings + 1
  <1>1. s.log \in Seq(Question) /\ s.settled \in 0..NumFindings /\ s.found \in {0, NumFindings} /\ NumFindings \in Nat
    BY DesignAssumption DEF PageT
  <1>2. PICK log \in Seq(Question) : log = s.log
    BY <1>1
  <1>3. PICK n \in Nat : n = Len(log) /\ DOMAIN log = 1..n
    BY Elements
  <1>4. PICK f \in Nat : f = s.settled /\ f <= NumFindings /\ f <= n
    BY <1>1, <1>2, <1>3 DEF LogInv
  <1>5. PICK k \in Nat : k = n - f
    BY <1>3, <1>4
  <1>6. \A i \in 1..k : log[i] \in KernelQuestions
    BY <1>2, <1>3, <1>4, <1>5 DEF LogInv
  <1>7. /\ ~s.retried => Repeats(log) = {}
        /\ \A x, y \in Repeats(log) : x = y
    BY <1>2 DEF RepeatsInv
  <1>8. Cardinality(Repeats(log)) <= IF s.retried THEN 1 ELSE 0
    <2>1. CASE Repeats(log) = {}
      BY <2>1, FS_EmptySet
    <2>2. CASE Repeats(log) # {}
      <3>1. PICK x : Repeats(log) = {x}
        BY <1>7, <2>2
      <3>2. Cardinality({x}) = 1
        BY FS_Singleton
      <3>3. QED
        BY <1>7, <2>2, <3>1, <3>2
    <2>3. QED
      BY <2>1, <2>2
  <1> DEFINE K == 1..k
             P == {i \in K : \A x \in Repeats(log) : x[2] # i}
             g == [i \in P |-> log[i]]
  <1>9. IsFiniteSet(K) /\ Cardinality(K) = k
    <2>1. IsFiniteSet(1..k) /\ Cardinality(1..k) = IF 1 > k THEN 0 ELSE k - 1 + 1
      BY <1>5, FS_Interval
    <2>2. QED
      BY <1>5, <2>1
  <1>10. IsFiniteSet(P) /\ Cardinality(P) \in Nat /\ k <= Cardinality(P) + 1
    <2>1. CASE P = K
      <3> HIDE DEF P, K
      <3>1. IsFiniteSet(P) /\ Cardinality(P) = k
        BY <1>9, <2>1
      <3>2. QED
        BY <1>5, <3>1
    <2>2. CASE P # K
      <3>1. PICK i \in K : i \notin P
        BY <2>2
      <3>2. P = K \ {i}
        BY <1>7, <3>1
      <3> HIDE DEF P, K
      <3>3. Cardinality(K \ {i}) = Cardinality(K) - 1 /\ IsFiniteSet(K \ {i})
        BY <1>9, <3>1, FS_RemoveElement, FS_Subset
      <3>4. Cardinality(P) = k - 1 /\ IsFiniteSet(P)
        BY <1>9, <3>2, <3>3
      <3>5. Cardinality(P) \in Nat
        BY <3>4, FS_CardinalityType
      <3>6. QED
        BY <1>5, <3>4, <3>5
    <2>3. QED
      BY <2>1, <2>2
  <1>11. Cardinality(P) <= Cardinality(KernelQuestions)
    <2>1. g \in [P -> KernelQuestions]
      BY <1>6
    <2>2. ASSUME NEW i \in P, NEW j \in P, i < j PROVE log[i] # log[j]
      <3>1. i \in 1..n /\ j \in 1..n
        BY <1>3, <1>4, <1>5
      <3>2. <<i, j>> \notin Repeats(log)
        <4>1. \A x \in Repeats(log) : x[2] # j
          OBVIOUS
        <4>2. <<i, j>>[2] = j
          OBVIOUS
        <4>3. QED
          BY <4>1, <4>2
      <3>3. ~SameQuestion(log[i], log[j])
        <4>1. <<i, j>> \in (DOMAIN log) \X (DOMAIN log) /\ <<i, j>>[1] = i /\ <<i, j>>[2] = j
          BY <1>3, <3>1
        <4>2. QED
          BY <2>2, <3>2, <4>1 DEF Repeats
      <3>4. QED
        BY <3>3 DEF SameQuestion
    <2>3. ASSUME NEW i \in P, NEW j \in P, g[i] = g[j] PROVE i = j
      <3>1. log[i] = log[j] /\ i \in Nat /\ j \in Nat
        BY <2>3
      <3> HIDE DEF P, g
      <3>2. ~(i < j) /\ ~(j < i)
        BY <2>2, <3>1
      <3>3. QED
        BY <3>1, <3>2
    <2>4. g \in Injection(P, KernelQuestions)
      BY <2>1, <2>3 DEF Injection, IsInjective
    <2> HIDE DEF P, g
    <2>5. QED
      BY <2>4, KernelQuestionCount, FS_Injection
  <1> HIDE DEF P, K, g
  <1>12. PICK c \in Nat, m \in Nat, d \in Nat, t \in Nat :
             /\ c = Cardinality(P) /\ m = Cardinality(KernelQuestions) /\ d = Cardinality(Dimension) /\ t = Len(Template)
             /\ c <= m /\ m <= d + t /\ k <= c + 1
    BY <1>10, <1>11, KernelQuestionCount, QuestionFacts
  <1>13. n <= d + t + NumFindings + 1
    <2>1. PICK findings \in Nat : findings = NumFindings /\ f <= findings
      BY <1>1, <1>4
    <2>2. n = k + f /\ k <= d + t + 1
      <3>1. n = k + f
        BY <1>5
      <3>2. k <= d + t + 1
        BY <1>12
      <3>3. QED
        BY <3>1, <3>2
    <2>3. QED
      BY <2>1, <2>2
  <1>14. QED
    BY <1>2, <1>3, <1>8, <1>12, <1>13

\* An interview asks a question twice at most once, after its one retry, so its
\* log stays short enough for the kernel; a workflow is built from the log of a
\* covered interview; and the demo quota is overshot by what was under way.
THEOREM InterviewsStayShort == DesignSpec => []InterviewsEnd
  <1>1. ASSUME DesignInv PROVE InterviewsEnd
    <2>1. ASSUME NEW p \in Page
          PROVE  /\ Cardinality(Repeats(page[p].log)) <= IF page[p].retried THEN 1 ELSE 0
                 /\ Len(page[p].log) <= Cardinality(Dimension) + Len(Template) + NumFindings + 1
      BY <1>1, PageFacts, LogBound
    <2>2. \A w \in built : w.of \in Interviewed => OpenDims(w.log) = {} \/ Unseen(w.log) = {}
      BY <1>1 DEF DesignInv, BuiltInv, CoveredBy
    <2>3. used < TokenLimit + (Cardinality(Page) + MaxBreaks) * CostOfOne
      <3>1. PICK n \in Nat, k \in Nat, cost \in Nat :
                n = Cardinality(Page) /\ k = Cardinality(Costly) /\ cost = CostOfOne
        <4>1. 3 * (MaxRetries + 1) \in Nat
          BY DesignAssumption
        <4>2. QED
          BY <1>1, <4>1, RequestCount DEF CostOfOne
      <3>2. used \in Nat /\ breaks \in Nat /\ breaks <= MaxBreaks /\ MaxBreaks \in Nat /\ TokenLimit \in Nat
        BY <1>1, DesignAssumption DEF DesignInv, DesignTypeOK
      <3>3. used >= TokenLimit => used + k * cost <= TokenLimit - 1 + (n + breaks) * cost
        BY <1>1, <3>1 DEF DesignInv, UsageInv
      <3>4. PICK w \in Nat, x \in Nat, y \in Nat : w = k * cost /\ x = (n + breaks) * cost /\ y = (n + MaxBreaks) * cost
        BY <3>1, <3>2
      <3>5. x <= y
        <4>1. \A a, b, e \in Nat : a <= b => a * e <= b * e
          OBVIOUS
        <4>2. n + breaks \in Nat /\ n + MaxBreaks \in Nat /\ n + breaks <= n + MaxBreaks
          BY <3>1, <3>2
        <4>3. QED
          BY <3>1, <3>4, <4>1, <4>2
      <3>6. used < TokenLimit + y
        <4>1. CASE used < TokenLimit
          BY <3>2, <3>4, <4>1
        <4>2. CASE used >= TokenLimit
          BY <3>2, <3>3, <3>4, <3>5, <4>2
        <4>3. QED
          BY <3>2, <4>1, <4>2
      <3>7. QED
        BY <3>1, <3>4, <3>6
    <2>4. QED
      BY <2>1, <2>2, <2>3 DEF InterviewsEnd
  <1>2. QED
    BY <1>1, DesignInvariance, PTL
=============================================================================
