------------------------------- MODULE Tenancy -------------------------------
(***************************************************************************)
(* Who gets into a workspace: sign-in (api/routes/internal_auth.py),       *)
(* workspaces (internal_workspaces.py), invites (internal_invites.py,      *)
(* api/_workspace_invites.py), the identity assertion the web signs        *)
(* (api/_internal_auth.py) and the binding of a pooled connection          *)
(* (api/deps.py, tenant_session.py).                                       *)
(*                                                                         *)
(* A user is the address of its users row, which is unique and never       *)
(* changed.  The statements of a transaction that write are one step with  *)
(* its commit: nobody sees them earlier, and who collides with them waits. *)
(***************************************************************************)
EXTENDS Naturals, FiniteSets

CONSTANTS
    Address,       \* e-mail addresses
    Login,         \* (provider, provider_sub) of a person
    AddressesOf,   \* [Login -> SUBSET Address]: what the provider may report
    Workspace,     \* ids of workspaces, those to come included
    Founded,       \* [SUBSET Workspace -> Address]: those that exist and their owners
    KnownLogins,   \* [SUBSET Login -> Address]: owners who are signed in
    Invite,        \* ids of invites
    Slot,          \* requests at a time
    NoUser,
    MaxWorkspaces, \* MAX_WORKSPACES_PER_USER
    MaxRequests    \* bound on requests

ASSUME TenancyAssumption ==
    /\ AddressesOf \in [Login -> SUBSET Address]
    /\ DOMAIN Founded \subseteq Workspace /\ DOMAIN KnownLogins \subseteq Login /\ NoUser \notin Address
    /\ \A w \in DOMAIN Founded : Founded[w] \in Address
    /\ \A l \in DOMAIN KnownLogins : KnownLogins[l] \in Address
    /\ {MaxWorkspaces, MaxRequests} \subseteq Nat

\* Needed to count; nobody starts beyond the cap.
ASSUME TenancyCount ==
    /\ IsFiniteSet(Workspace) /\ IsFiniteSet(Invite) /\ IsFiniteSet(Slot) /\ Slot # {}
    /\ \A u \in Address : Cardinality({w \in DOMAIN Founded : Founded[w] = u}) <= MaxWorkspaces

VARIABLES
    users,      \* rows of users
    identities, \* user_identities
    spaces,     \* workspaces: "none", "live" or "deleted"
    role,       \* workspace_members: [Workspace -> [Address -> role or "none"]]
    invites,    \* workspace_invites, in the order of their ids
    session,    \* what the last sync told the web of each login
    slot,       \* requests and the connections they hold
    served,     \* requests so far
    crossed     \* logins that two addresses raced for

tenantVars == <<users, identities, spaces, role, invites, session, slot, served, crossed>>
directory == <<users, identities, session, crossed>>

Free == [kind |-> "free"]
NoInvite == [minted |-> FALSE, ws |-> "none", to |-> NoUser, as |-> "none", by |-> NoUser,
             redeemed |-> FALSE, revoked |-> FALSE, expired |-> FALSE]
SignedOut == [user |-> NoUser, in |-> {}]
Roles == {"none", "member", "admin", "owner"}

TenancyInit ==
    /\ users = {Founded[w] : w \in DOMAIN Founded}
    /\ identities = [l \in Login |-> IF l \in DOMAIN KnownLogins THEN KnownLogins[l] ELSE NoUser]
    /\ spaces = [w \in Workspace |-> IF w \in DOMAIN Founded THEN "live" ELSE "none"]
    /\ role = [w \in Workspace |-> [u \in Address |-> IF w \in DOMAIN Founded /\ Founded[w] = u THEN "owner" ELSE "none"]]
    /\ invites = [i \in Invite |-> NoInvite]
    /\ session = [l \in Login |-> IF l \notin DOMAIN KnownLogins THEN SignedOut
                                   ELSE [user |-> KnownLogins[l], in |-> {w \in DOMAIN Founded : Founded[w] = KnownLogins[l]}]]
    /\ slot = [s \in Slot |-> Free] /\ served = 0 /\ crossed = {}

Member(u, w) == role[w][u] # "none"
LiveMember(u, w) == Member(u, w) /\ spaces[w] = "live"

Take(s, request) ==
    /\ slot[s] = Free /\ served < MaxRequests
    /\ slot' = [slot EXCEPT ![s] = request] /\ served' = served + 1
Go(s, request) == slot' = [slot EXCEPT ![s] = request] /\ UNCHANGED served
EndRequest(s) == Go(s, Free)

-----------------------------------------------------------------------------
(* _upsert_user and sync_principal.                                        *)

SignIn(s) ==
    /\ \E l \in Login : \E a \in AddressesOf[l] :
          Take(s, [kind |-> "sync", at |-> "find", login |-> l, address |-> a])
    /\ UNCHANGED <<users, identities, spaces, role, invites, session, crossed>>

Tell(s, l, user) ==
    /\ session' = [session EXCEPT ![l] = [user |-> user, in |-> {w \in Workspace : LiveMember(user, w)}]]
    /\ EndRequest(s)

\* The identity is known, or it is to be linked to the user of the address.
FindIdentity(s) ==
    LET r == slot[s]
    IN  /\ r.kind = "sync" /\ r.at = "find"
        /\ IF identities[r.login] # NoUser
           THEN Tell(s, r.login, identities[r.login])
           ELSE Go(s, [r EXCEPT !.at = "link"]) /\ UNCHANGED session
        /\ UNCHANGED <<users, identities, spaces, role, invites, crossed>>

\* ON CONFLICT (email) finds the user another request has just made; ON CONFLICT
\* (provider, provider_sub) leaves the other link and is not looked at.
LinkIdentity(s) ==
    LET r == slot[s]
    IN  /\ r.kind = "sync" /\ r.at = "link"
        /\ users' = users \cup {r.address}
        /\ IF identities[r.login] = NoUser
           THEN identities' = [identities EXCEPT ![r.login] = r.address] /\ UNCHANGED crossed
           ELSE UNCHANGED identities /\ crossed' = IF identities[r.login] = r.address THEN crossed ELSE crossed \cup {r.login}
        /\ Tell(s, r.login, r.address)
        /\ UNCHANGED <<spaces, role, invites>>

-----------------------------------------------------------------------------
(* create_workspace, soft_delete_workspace.                                *)

\* Who the web acts for.
Signed(u) == \E l \in Login : session[l].user = u
Joined(u) == {w \in Workspace : Member(u, w)}

MayCreate(u) == u \in users /\ Cardinality(Joined(u)) < MaxWorkspaces
FreshIds == {w \in Workspace : spaces[w] = "none"}
CountWorkspaces(s) ==
    /\ \E u \in Address :
          /\ Signed(u) /\ MayCreate(u)
          /\ Take(s, [kind |-> "create", user |-> u])
    /\ UNCHANGED <<directory, spaces, role, invites>>
CreateWorkspace(s) ==
    /\ slot[s].kind = "create" /\ FreshIds # {}
    /\ LET w == CHOOSE w \in FreshIds : TRUE
       IN  /\ spaces' = [spaces EXCEPT ![w] = "live"]
           /\ role' = [role EXCEPT ![w][slot[s].user] = "owner"]
    /\ EndRequest(s)
    /\ UNCHANGED <<directory, invites>>

SoftDelete ==
    /\ \E w \in Workspace : spaces[w] = "live" /\ spaces' = [spaces EXCEPT ![w] = "deleted"]
    /\ UNCHANGED <<directory, role, invites, slot, served>>

\* An operator's statement: no route removes a member.
RemoveMember ==
    /\ \E w \in Workspace, u \in Address :
          role[w][u] \in {"member", "admin"} /\ role' = [role EXCEPT ![w][u] = "none"]
    /\ UNCHANGED <<directory, spaces, invites, slot, served>>

-----------------------------------------------------------------------------
(* Invites.                                                                *)

Admin(u, w) == spaces[w] = "live" /\ role[w][u] \in {"owner", "admin"}

BeginMint(s) ==
    /\ \E u \in Address, w \in Workspace, to \in Address, as \in {"admin", "member"} :
          /\ Signed(u) /\ Admin(u, w)
          /\ Take(s, [kind |-> "mint", by |-> u, ws |-> w, to |-> to, as |-> as])
    /\ UNCHANGED <<directory, spaces, role, invites>>
CreateInvite(s) ==
    LET r == slot[s]
    IN  /\ r.kind = "mint"
        /\ \E i \in Invite :
              /\ ~invites[i].minted
              /\ invites' = [invites EXCEPT ![i] =
                    [NoInvite EXCEPT !.minted = TRUE, !.ws = r.ws, !.to = r.to, !.as = r.as, !.by = r.by]]
        /\ EndRequest(s)
        /\ UNCHANGED <<directory, spaces, role>>

\* Row and token expire in lockstep.
Expire ==
    /\ \E i \in Invite :
          invites[i].minted /\ ~invites[i].expired /\ invites' = [invites EXCEPT ![i].expired = TRUE]
    /\ UNCHANGED <<directory, spaces, role, slot, served>>

\* What redeem_invite answers for the row v: the signature and the token's own
\* expiry come first.
TokenVerifies(v) == ~v.expired
RedeemVerdict(v, u) ==
    IF ~TokenVerifies(v) THEN "invite_invalid"
    ELSE IF u \notin users THEN "no_user"
    ELSE IF u # v.to THEN "invite_email_mismatch"
    ELSE IF v.revoked THEN "invite_revoked"
    ELSE IF v.redeemed /\ ~Member(u, v.ws) THEN "membership_removed"
    ELSE IF spaces[v.ws] # "live" THEN "workspace_gone"
    ELSE IF v.redeemed THEN "again" ELSE "joins"

\* What preview_invite tells of it; the token's expiry is not looked at.
PreviewStatus(v, u) ==
    IF spaces[v.ws] = "deleted" THEN "workspace_gone"
    ELSE IF v.revoked THEN "revoked"
    ELSE IF v.redeemed THEN IF v.to = u THEN "redeemed_by_me" ELSE "redeemed_by_other"
    ELSE IF v.expired THEN "expired"
    ELSE IF u \notin users \/ u # v.to THEN "email_mismatch"
    ELSE "pending"

\* SELECT ... FOR UPDATE.
InviteFree_never(i) == TRUE
InviteFree(i) == \A s \in Slot : slot[s].kind \in {"redeem", "revoke"} => slot[s].invite # i
LockInvite(s) ==
    /\ \E i \in Invite, u \in Address, kind \in {"redeem", "revoke"} :
          /\ invites[i].minted /\ Signed(u) /\ InviteFree(i)
          /\ kind = "redeem" => RedeemVerdict(invites[i], u) # "invite_invalid"
          /\ Take(s, [kind |-> kind, invite |-> i, user |-> u, row |-> invites[i]])
    /\ UNCHANGED <<directory, spaces, role, invites>>

\* ON CONFLICT DO NOTHING keeps the role of one who is a member already; every
\* error rolls back.
RedeemInvite(s) ==
    LET r == slot[s]
    IN  /\ r.kind = "redeem"
        /\ IF RedeemVerdict([r.row EXCEPT !.expired = FALSE], r.user) = "joins"
           THEN /\ role' = IF Member(r.user, r.row.ws) THEN role ELSE [role EXCEPT ![r.row.ws][r.user] = r.row.as]
                /\ invites' = [invites EXCEPT ![r.invite].redeemed = TRUE]
           ELSE UNCHANGED <<role, invites>>
        /\ EndRequest(s)
        /\ UNCHANGED <<directory, spaces>>

RevokeInvite(s) ==
    LET r == slot[s]
    IN  /\ r.kind = "revoke"
        /\ IF Admin(r.user, r.row.ws) /\ ~r.row.redeemed
           THEN invites' = [invites EXCEPT ![r.invite].revoked = TRUE]
           ELSE UNCHANGED invites
        /\ EndRequest(s)
        /\ UNCHANGED <<directory, spaces, role>>

-----------------------------------------------------------------------------
(* get_conn and acquire_workspace_conn.                                    *)

\* The web signs an assertion for a workspace of the session, which may be old;
\* a background worker names no user.
Present(s) ==
    /\ \/ \E l \in Login : \E w \in session[l].in :
             Take(s, [kind |-> "enter", at |-> "member", user |-> session[l].user, ws |-> w])
       \/ \E w \in Workspace : spaces[w] # "none" /\ Take(s, [kind |-> "enter", at |-> "bind", user |-> NoUser, ws |-> w])
    /\ UNCHANGED <<directory, spaces, role, invites>>

CheckMember(s) ==
    LET r == slot[s]
    IN  /\ r.kind = "enter" /\ r.at = "member"
        /\ IF LiveMember(r.user, r.ws) THEN Go(s, [r EXCEPT !.at = "bind"]) ELSE EndRequest(s)
        /\ UNCHANGED <<directory, spaces, role, invites>>

SetWorkspace(s) ==
    LET r == slot[s]
    IN  /\ r.kind = "enter" /\ r.at = "bind"
        /\ IF spaces[r.ws] = "live" THEN Go(s, [r EXCEPT !.at = "bound"]) ELSE EndRequest(s)
        /\ UNCHANGED <<directory, spaces, role, invites>>

\* RESET ALL unbinds the connection before anyone else gets it.
ReleaseConn(s) ==
    /\ slot[s].kind = "enter" /\ slot[s].at = "bound" /\ EndRequest(s)
    /\ UNCHANGED <<directory, spaces, role, invites>>

TenancyNext ==
    \/ \E s \in Slot : \/ SignIn(s) \/ FindIdentity(s) \/ LinkIdentity(s)
                       \/ CountWorkspaces(s) \/ CreateWorkspace(s)
                       \/ BeginMint(s) \/ CreateInvite(s) \/ LockInvite(s) \/ RedeemInvite(s) \/ RevokeInvite(s)
                       \/ Present(s) \/ CheckMember(s) \/ SetWorkspace(s) \/ ReleaseConn(s)
    \/ SoftDelete \/ RemoveMember \/ Expire

TenancySpec == TenancyInit /\ [][TenancyNext]_tenantVars

-----------------------------------------------------------------------------
TenancyTypeOK ==
    /\ users \subseteq Address /\ identities \in [Login -> Address \cup {NoUser}]
    /\ spaces \in [Workspace -> {"none", "live", "deleted"}]
    /\ role \in [Workspace -> [Address -> Roles]]
    /\ served \in 0..MaxRequests /\ crossed \subseteq Login

\* A member, and whoever reaches the rows of a workspace, has founded it or has
\* redeemed an invite to its own address that was never revoked, whoever else
\* redeemed, revoked or deleted meanwhile; the cap on workspaces is overshot by no
\* more than the creations that were counted together and the invites; a login
\* stays with the user it was told of, unless two addresses raced for it; and the
\* page that previews an invite offers it exactly when it could be redeemed.
Founder(u, w) == role[w][u] = "owner"
Accepted(i, u) == invites[i].redeemed /\ invites[i].to = u
MembershipIsEarned ==
    /\ \A w \in Workspace, u \in Address :
          Member(u, w) => Founder(u, w) \/ \E i \in Invite : Accepted(i, u) /\ invites[i].ws = w /\ invites[i].as = role[w][u]
    /\ \A s \in Slot : slot[s].kind = "enter" /\ slot[s].at = "bound" /\ slot[s].user # NoUser =>
          Founder(slot[s].user, slot[s].ws) \/ \E i \in Invite : Accepted(i, slot[s].user) /\ invites[i].ws = slot[s].ws
    /\ \A i \in Invite : ~(invites[i].redeemed /\ invites[i].revoked)
    /\ \A u \in Address :
          Cardinality(Joined(u)) <= MaxWorkspaces + (Cardinality(Slot) - 1) + Cardinality({i \in Invite : Accepted(i, u)})
    /\ \A l \in Login \ crossed : session[l].user \in {NoUser, identities[l]}
    /\ \A i \in Invite, u \in Address :
          invites[i].minted =>
          /\ (PreviewStatus(invites[i], u) = "pending") <=> (RedeemVerdict(invites[i], u) = "joins")
          /\ RedeemVerdict(invites[i], u) \in {"again", "membership_removed"} =>
                PreviewStatus(invites[i], u) = "redeemed_by_me" \/ spaces[invites[i].ws] = "deleted"
=============================================================================
