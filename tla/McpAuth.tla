------------------------------- MODULE McpAuth -------------------------------
(***************************************************************************)
(* The credential of an MCP server: the connect flow of the settings page  *)
(* (api/routes/mcp_oauth.py, mcp_client/oauth.py), registration by hand    *)
(* and the connection test (api/routes/mcp.py, mcp_client/registry.py),    *)
(* and the clients that refresh it while they call (mcp_client/client.py,  *)
(* mcp_client/auth.py): a test, a trigger or an agent run has its own.     *)
(*                                                                         *)
(* Tokens are numbered as the provider issues them, and a refresh token    *)
(* names its consent as well.  The provider may rotate refresh tokens and  *)
(* end a consent whose old one turns up again.                             *)
(***************************************************************************)
EXTENDS Naturals, FiniteSets

CONSTANTS
    Client,    \* MCPClient objects
    State,     \* nonces of mcp_oauth_states
    Browser,   \* callback requests
    MaxTokens, \* bound on token pairs issued
    MaxChanges \* bound on what administrators do

ASSUME McpAssumption == {MaxTokens, MaxChanges} \subseteq Nat

VARIABLES
    server,   \* the row of mcp_servers with the name at hand
    app,      \* OAuth app credentials are stored
    nonce,    \* [State -> "none", "open", "late" or "gone"]: rows of mcp_oauth_states
    browser,  \* callbacks under way
    caller,   \* calls under way and the cache of each client
    rotates,  \* the provider rotates refresh tokens
    issued,   \* token pairs issued: 1..issued
    accepted, \* refresh tokens the provider accepts
    alive,    \* access tokens that have not expired
    changes,  \* what administrators did
    rows,     \* ids of servers so far
    connects, \* [State -> servers registered with it]
    mishaps   \* since the last registration

mcpVars == <<server, app, nonce, browser, caller, rotates, issued, accepted, alive, changes, rows, connects, mishaps>>
providerVars == <<rotates, issued, accepted, alive>>
flowVars == <<app, nonce, browser, connects>>

\* own: the token of a bearer server or the client secret that goes with the rest.
NoToken == [grant |-> 0, n |-> 0]
NoSecret == [access |-> 0, refresh |-> NoToken, own |-> "none"]
NoServer == [id |-> 0, kind |-> "none", secret |-> NoSecret, tested |-> FALSE]
AtRest == [at |-> "idle"]
NoCache == [id |-> 0, header |-> 0]

McpInit ==
    /\ server = NoServer /\ app \in BOOLEAN
    /\ nonce = [n \in State |-> "none"] /\ browser = [b \in Browser |-> AtRest]
    /\ caller = [c \in Client |-> [call |-> AtRest, cache |-> NoCache]]
    /\ rotates \in BOOLEAN /\ issued = 0 /\ accepted = {} /\ alive = {}
    /\ changes = 0 /\ rows = 0 /\ connects = [n \in State |-> 0] /\ mishaps = {}

-----------------------------------------------------------------------------
(* Administrators and the connect flow.                                    *)

Change == changes < MaxChanges /\ changes' = changes + 1

SetClient == Change /\ app' = TRUE /\ UNCHANGED <<server, nonce, browser, caller, providerVars, rows, connects, mishaps>>
DeleteClient == Change /\ app /\ app' = FALSE /\ UNCHANGED <<server, nonce, browser, caller, providerVars, rows, connects, mishaps>>

\* Upsert by name: the row keeps its id, the rest is replaced.
Upsert(kind, secret) ==
    /\ server' = [id |-> IF server = NoServer THEN rows + 1 ELSE server.id, kind |-> kind, secret |-> secret, tested |-> FALSE]
    /\ rows' = IF server = NoServer THEN rows + 1 ELSE rows
    /\ mishaps' = {}

RegisterByHand ==
    /\ Change
    /\ \/ Upsert("bearer", [NoSecret EXCEPT !.own = "token"])
       \/ Upsert("principal", [NoSecret EXCEPT !.own = "secret"])
    /\ UNCHANGED <<flowVars, caller, providerVars>>
DeleteServer ==
    /\ Change /\ server # NoServer /\ server' = NoServer /\ mishaps' = {}
    /\ UNCHANGED <<flowVars, caller, providerVars, rows>>

\* A nonce is made once: token_urlsafe.
StartFlow(n) ==
    /\ app /\ nonce[n] = "none" /\ nonce' = [nonce EXCEPT ![n] = "open"]
    /\ UNCHANGED <<server, app, browser, caller, providerVars, changes, rows, connects, mishaps>>
StateExpires(n) ==
    /\ nonce[n] = "open" /\ nonce' = [nonce EXCEPT ![n] = "late"]
    /\ UNCHANGED <<server, app, browser, caller, providerVars, changes, rows, connects, mishaps>>

\* DELETE ... RETURNING: whoever comes second, or late, finds nothing.
Consumed(n) == [nonce EXCEPT ![n] = "gone"]
Consume(b, n) ==
    /\ browser[b] = AtRest /\ nonce[n] \in {"open", "late"}
    /\ nonce' = Consumed(n)
    /\ browser' = IF nonce[n] = "open" THEN [browser EXCEPT ![b] = [at |-> "exchange", state |-> n]] ELSE browser
    /\ UNCHANGED <<server, app, caller, providerVars, changes, rows, connects, mishaps>>

\* The code is exchanged with the app's credentials of the moment; an answer
\* without a refresh token becomes a bearer server.
Issue(live) == issued' = issued + 1 /\ accepted' = live /\ alive' = alive \cup {issued + 1}
Consented(n) == [NoSecret EXCEPT !.access = n, !.refresh = [grant |-> n, n |-> n], !.own = "secret"]
ExchangeCode(b) ==
    /\ browser[b].at = "exchange"
    /\ \/ /\ app /\ issued < MaxTokens
          /\ LET secret == Consented(issued + 1)
             IN  /\ Issue(accepted \cup {secret.refresh})
                 /\ browser' = [browser EXCEPT ![b] = [at |-> "oauth", state |-> @.state, secret |-> secret]]
       \/ /\ app /\ UNCHANGED <<issued, accepted, alive>>
          /\ browser' = [browser EXCEPT ![b] = [at |-> "bearer", state |-> @.state, secret |-> [NoSecret EXCEPT !.own = "token"]]]
       \/ browser' = [browser EXCEPT ![b] = AtRest] /\ UNCHANGED <<issued, accepted, alive>>
    /\ UNCHANGED <<server, app, nonce, caller, rotates, changes, rows, connects, mishaps>>

RegisterServer(b) ==
    /\ browser[b].at \in {"oauth", "bearer"}
    /\ Upsert(browser[b].at, browser[b].secret)
    /\ connects' = [connects EXCEPT ![browser[b].state] = @ + 1]
    /\ browser' = [browser EXCEPT ![b] = AtRest]
    /\ UNCHANGED <<app, nonce, caller, providerVars, changes>>

-----------------------------------------------------------------------------
(* A call: list_tools or mcp_call.                                         *)

At(c, call) == caller' = [caller EXCEPT ![c].call = call] /\ UNCHANGED server
NotByClients == <<flowVars, changes, rows>>

\* Who called for a test stamps the outcome on the row, and its client goes.
CallEnds(c) ==
    LET call == caller[c].call
    IN  IF call.test
        THEN /\ caller' = [caller EXCEPT ![c] = [call |-> AtRest, cache |-> NoCache]]
             /\ server' = IF server.id = call.id THEN [server EXCEPT !.tested = TRUE] ELSE server
        ELSE At(c, AtRest)

\* The row is read, then the cache, then the secret; a test has a new client.
RequireServer(c, test) ==
    LET cached == caller[c].cache.id = server.id
    IN  /\ caller[c].call = AtRest /\ server # NoServer
        /\ test => caller[c].cache = NoCache
        /\ At(c, [at |-> IF cached THEN "send" ELSE "secret", test |-> test, id |-> server.id, kind |-> server.kind,
                  read |-> NoSecret, new |-> NoSecret])
        /\ UNCHANGED <<NotByClients, providerVars, mishaps>>

Cached(c, call, header) ==
    caller' = [caller EXCEPT ![c] = [call |-> [call EXCEPT !.at = "send"], cache |-> [id |-> call.id, header |-> header]]]
Usable(kind, secret) == IF kind = "bearer" THEN secret.own = "token" ELSE secret.access \in alive
CanMint(kind, secret) ==
    \/ kind = "oauth" /\ secret.refresh # NoToken
    \/ kind = "principal" /\ secret.own = "secret"
ReadSecret(c) ==
    LET call == caller[c].call
        secret == IF server.id = call.id THEN server.secret ELSE NoSecret
    IN  /\ call.at = "secret"
        /\ \/ Usable(call.kind, secret) /\ Cached(c, call, secret.access) /\ UNCHANGED server
           \/ /\ ~Usable(call.kind, secret) /\ CanMint(call.kind, secret)
              /\ At(c, [call EXCEPT !.at = "fetch", !.read = secret])
           \/ ~Usable(call.kind, secret) /\ ~CanMint(call.kind, secret) /\ CallEnds(c)
        /\ UNCHANGED <<NotByClients, providerVars, mishaps>>

\* The secret made of an answer: its refresh token if it has one, else the one
\* held, and the client secret.
Renewed_dropped(kind, read, access, refresh) == [read EXCEPT !.access = access, !.refresh = refresh]
Renewed(kind, read, access, refresh) ==
    [read EXCEPT !.access = access,
                 !.refresh = IF kind = "principal" THEN NoToken ELSE IF refresh # NoToken THEN refresh ELSE @]

\* The row still waits for what this call has been given.
Owed(call) == server.id = call.id /\ server.secret.refresh = call.read.refresh /\ rotates /\ call.kind = "oauth"
Refresh(c) ==
    LET call == caller[c].call
        n == issued + 1
        rotated == IF rotates /\ call.kind = "oauth" THEN [grant |-> call.read.refresh.grant, n |-> n] ELSE NoToken
    IN  /\ call.at = "fetch" /\ n <= MaxTokens
        /\ call.kind = "oauth" => call.read.refresh \in accepted
        /\ Issue(IF rotated # NoToken THEN (accepted \ {call.read.refresh}) \cup {rotated} ELSE accepted)
        /\ \/ At(c, [call EXCEPT !.at = "save", !.new = Renewed(call.kind, call.read, n, rotated)]) /\ UNCHANGED mishaps
           \/ CallEnds(c) /\ mishaps' = IF Owed(call) THEN mishaps \cup {"lost"} ELSE mishaps
        /\ UNCHANGED <<NotByClients, rotates>>

\* The network fails, or the token is refused: a rotated one that turns up
\* again may end its consent.
RefreshFails(c) ==
    LET call == caller[c].call
        grant == call.read.refresh.grant
    IN  /\ call.at = "fetch" /\ CallEnds(c)
        /\ \/ UNCHANGED <<accepted, mishaps>>
           \/ /\ call.kind = "oauth" /\ call.read.refresh \notin accepted /\ rotates
              /\ accepted' = {t \in accepted : t.grant # grant}
              /\ mishaps' = IF server.secret.refresh.grant = grant THEN mishaps \cup {"reuse"} ELSE mishaps
        /\ UNCHANGED <<NotByClients, rotates, issued, alive>>

\* update_auth_secret by id, whatever the row holds by now.
Other(call) == <<server.kind, server.secret.refresh, server.secret.own>> # <<call.kind, call.read.refresh, call.read.own>>
SaveSecret(c) ==
    LET call == caller[c].call
    IN  /\ call.at = "save"
        /\ IF server.id = call.id
           THEN /\ server' = [server EXCEPT !.secret = call.new]
                /\ mishaps' = IF Other(call) THEN mishaps \cup {"crossed"} ELSE mishaps
           ELSE UNCHANGED <<server, mishaps>>
        /\ Cached(c, call, call.new.access)
        /\ UNCHANGED <<NotByClients, providerVars>>

\* The server is called with the header.
CallServer(c) ==
    /\ caller[c].call.at = "send" /\ CallEnds(c)
    /\ UNCHANGED <<NotByClients, providerVars, mishaps>>

\* The process of a client ends, with its cache.
StopClient(c) ==
    LET call == caller[c].call
    IN  /\ caller[c] # [call |-> AtRest, cache |-> NoCache]
        /\ caller' = [caller EXCEPT ![c] = [call |-> AtRest, cache |-> NoCache]]
        /\ mishaps' = IF call.at = "save" /\ Owed(call) THEN mishaps \cup {"lost"} ELSE mishaps
        /\ UNCHANGED <<NotByClients, providerVars, server>>

\* A cached header lives for the TTL but never longer than its token.
CacheExpires(c) ==
    /\ caller[c].cache # NoCache /\ caller' = [caller EXCEPT ![c].cache = NoCache]
    /\ UNCHANGED <<NotByClients, providerVars, server, mishaps>>
TokenExpires(t) ==
    /\ t \in alive /\ alive' = alive \ {t}
    /\ caller' = [c \in Client |-> IF caller[c].cache.header = t THEN [caller[c] EXCEPT !.cache = NoCache] ELSE caller[c]]
    /\ UNCHANGED <<NotByClients, rotates, issued, accepted, server, mishaps>>

McpNext ==
    \/ SetClient \/ DeleteClient \/ RegisterByHand \/ DeleteServer
    \/ \E n \in State : StartFlow(n) \/ StateExpires(n) \/ \E b \in Browser : Consume(b, n)
    \/ \E b \in Browser : ExchangeCode(b) \/ RegisterServer(b)
    \/ \E c \in Client : \/ \E test \in BOOLEAN : RequireServer(c, test)
                         \/ ReadSecret(c) \/ Refresh(c) \/ RefreshFails(c) \/ SaveSecret(c) \/ CallServer(c)
                         \/ StopClient(c) \/ CacheExpires(c)
    \/ \E t \in alive : TokenExpires(t)

McpSpec == McpInit /\ [][McpNext]_mcpVars

-----------------------------------------------------------------------------
McpTypeOK ==
    /\ server.kind \in {"none", "bearer", "principal", "oauth"} /\ server.tested \in BOOLEAN
    /\ {t.n : t \in accepted} \cup alive \subseteq 1..issued /\ issued \in 0..MaxTokens
    /\ changes \in 0..MaxChanges /\ mishaps \subseteq {"lost", "reuse", "crossed"}

\* What is stored for a server can be used again: its own secret is kept through
\* every renewal and its refresh token is one the provider takes, or is about to
\* be replaced by one, unless since it was registered a rotated token was lost on
\* its way to the row, an old one was shown twice, or a renewal crossed another
\* registration; and without rotation only the last can go wrong.  A consent
\* is good for one registration, however often its callback is called.
CredentialHolds ==
    /\ \A n \in State : connects[n] <= 1
    /\ mishaps = {} =>
          /\ server.kind = "bearer" => server.secret.own = "token"
          /\ server.kind \in {"principal", "oauth"} => server.secret.own = "secret"
          /\ server.kind = "oauth" => \/ server.secret.refresh \in accepted
                                      \/ \E c \in Client : caller[c].call.at = "save" /\ Owed(caller[c].call)
    /\ ~rotates => mishaps \subseteq {"crossed"}
=============================================================================
