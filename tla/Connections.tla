---------------------------- MODULE Connections -----------------------------
(***************************************************************************)
(* The connections of one Discord server: pixie_for_pm/web/store.py, the   *)
(* routes that change it (web/routes/server_routes.py and                  *)
(* connection_routes.py) and the turns of the bot that read it and refresh *)
(* its tokens (integrations/toolset.py, integrations/runtime_providers.py).*)
(*                                                                         *)
(* Requests of the settings page and turns of the bot run concurrently, in *)
(* one process or in several, over one database.  A statement of the store *)
(* is atomic; between two of them, and while a provider is being called,   *)
(* others may run.  The providers are external: they give grants, rotate   *)
(* and expire tokens.  Tokens of a grant are numbered as they are issued.  *)
(***************************************************************************)
EXTENDS Naturals, Sequences

CONSTANTS
    Users, NoUser,     \* accounts of the settings page
    Names, NoName,     \* what Discord says the server is called
    Services,          \* the providers in use
    Requests, Turns,   \* requests and turns that may be under way at once
    Crashes,           \* whether the process may die
    MaxGrants,         \* bound: grants the providers give
    MaxTokens          \* bound: access tokens issued for one grant

\* PROVIDERS, in the order list_connections returns them
Order == <<"airtable", "fireflies", "github", "notion", "posthog", "vercel">>
OAuth == {"airtable", "github", "notion"}
Hosted == {"github", "notion", "posthog"}
Refreshers == {"notion"}
Rank(s) == CHOOSE i \in DOMAIN Order : Order[i] = s

ASSUME ServicesAssumption ==
    Services \subseteq {"airtable", "fireflies", "github", "notion", "posthog", "vercel"}
ASSUME NoneAssumption == NoUser \notin Users /\ NoName \notin Names
ASSUME BoundsAssumption ==
    Crashes \in BOOLEAN /\ MaxGrants \in Nat /\ MaxTokens \in Nat \ {0}

VARIABLES
    server,        \* the row of the server in table servers
    connections,   \* its rows in table connections, by service
    request,       \* requests of the settings page
    authorized,    \* OAuth states handed out, as <<user, service>>
    turn,          \* toolsets of the bot's turns
    grants,        \* external: the grants given, with their tokens
    stranded       \* history: grants whose newest refresh token was dropped

vars == <<server, connections, request, authorized, turn, grants, stranded>>

NoToken == 0
NoService == "none"
NoGrant == 0
NoCredentials == [grant |-> NoGrant, access |-> NoToken, refresh |-> NoToken]
Unclaimed == [owner |-> NoUser, name |-> NoName]
NoConnection == [credentials |-> NoCredentials, used |-> FALSE]
Resting == {"idle", "claimed", "conflict", "connected", "disconnected", "refused", "error"}
NoTurn == [stage |-> "idle", todo |-> {}, held |-> [s \in Services |-> NoCredentials],
           tools |-> {}, missing |-> {}]
NoRequest == [stage |-> "idle", user |-> NoUser, service |-> NoService, name |-> NoName]

Init ==
    /\ server = Unclaimed
    /\ connections = [s \in Services |-> NoConnection]
    /\ request = [r \in Requests |-> NoRequest]
    /\ authorized = {}
    /\ turn = [t \in Turns |-> NoTurn]
    /\ grants = <<>>
    /\ stranded = {}

-----------------------------------------------------------------------------
(* The store *)

Connected(s) == connections[s] # NoConnection

\* Slip: the tool's credentials are written with the timestamp.
TouchAndWrite(s, credentials) ==
    connections' = [connections EXCEPT ![s] = [credentials |-> credentials, used |-> TRUE]]

\* upsert_connection, delete_connection, touch_connection_last_used
Upsert(s, credentials) ==
    connections' = [connections EXCEPT ![s] =
                       [credentials |-> credentials, used |-> @.used]]
Delete(s) == connections' = [connections EXCEPT ![s] = NoConnection]
Touch(s, credentials) ==
    connections' = IF Connected(s)
                   THEN [connections EXCEPT ![s] = [credentials |-> @.credentials, used |-> TRUE]]
                   ELSE connections

\* Slip: what Discord answered is stored, also when it did not answer.
NameFromDiscord(name) == name

\* claim_server keeps what is known when Discord does not answer
NextName(name) == IF name # NoName THEN name ELSE server.name

-----------------------------------------------------------------------------
(* Claiming a server: POST /api/servers/{id}/claim *)

Answer(r, stage) == request' = [request EXCEPT ![r].stage = stage]

BeginClaim(r, u) ==
    /\ request[r].stage \in Resting
    /\ request' = [request EXCEPT ![r] = [NoRequest EXCEPT !.stage = "lookup", !.user = u]]
    /\ UNCHANGED <<server, connections, authorized, turn, grants, stranded>>

\* Discord has answered, or failed; the store reads the row and decides.
ReadServer(r, name) ==
    /\ request[r].stage = "lookup"
    /\ request' = [request EXCEPT ![r] =
           [user |-> @.user, service |-> @.service, name |-> NextName(name),
            stage |-> IF server = Unclaimed THEN "insert"
                      ELSE IF server.owner # request[r].user THEN "conflict"
                      ELSE IF NextName(name) # server.name THEN "update"
                      ELSE "claimed"]]
    /\ UNCHANGED <<server, connections, authorized, turn, grants, stranded>>

\* Slip: owner and name change places.
InsertServerSwapped(r) ==
    /\ request[r].stage = "insert"
    /\ IF server = Unclaimed
       THEN /\ server' = [owner |-> request[r].name, name |-> request[r].user]
            /\ Answer(r, "claimed")
       ELSE UNCHANGED server /\ Answer(r, "error")
    /\ UNCHANGED <<connections, authorized, turn, grants, stranded>>

\* Slip: the row is upserted, as those of connections are.
UpsertServer(r) ==
    /\ request[r].stage = "insert"
    /\ server' = [owner |-> request[r].user, name |-> request[r].name]
    /\ Answer(r, "claimed")
    /\ UNCHANGED <<connections, authorized, turn, grants, stranded>>

\* discord_server_id is unique: a second row raises, and the request with it.
InsertServer(r) ==
    /\ request[r].stage = "insert"
    /\ IF server = Unclaimed
       THEN /\ server' = [owner |-> request[r].user, name |-> request[r].name]
            /\ Answer(r, "claimed")
       ELSE UNCHANGED server /\ Answer(r, "error")
    /\ UNCHANGED <<connections, authorized, turn, grants, stranded>>

UpdateServer(r) ==
    /\ request[r].stage = "update"
    /\ server' = [server EXCEPT !.name = request[r].name]
    /\ Answer(r, "claimed")
    /\ UNCHANGED <<connections, authorized, turn, grants, stranded>>

-----------------------------------------------------------------------------
(* Connecting a service *)

\* Slip: a server without an owner passes.
OwnsOrUnclaimed(u) == server.owner \in {u, NoUser}

\* _get_owned_server
Owns(u) == server.owner = u

\* GET /api/connections/{provider}/authorize
Authorize(u, s) ==
    /\ s \in OAuth
    /\ Owns(u)
    /\ authorized' = authorized \cup {<<u, s>>}
    /\ UNCHANGED <<server, connections, request, turn, grants, stranded>>

\* GET /api/connections/oauth/callback with a state, or POST
\* /api/connections/{provider} with an API key; then the provider is called.
BeginConnect(r, u, s) ==
    /\ request[r].stage \in Resting
    /\ s \in OAuth => <<u, s>> \in authorized
    /\ request' = [request EXCEPT ![r] =
           [stage |-> IF Owns(u) THEN "exchange" ELSE "refused",
            user |-> u, service |-> s, name |-> NoName]]
    /\ UNCHANGED <<server, connections, authorized, turn, grants, stranded>>

\* The provider has accepted the code or the key.  Its credentials may come
\* without a refresh token, and it may rotate refresh tokens.
FinishConnect(r, refresh, rotates) ==
    /\ request[r].stage = "exchange"
    /\ Len(grants) < MaxGrants
    /\ refresh # NoToken => request[r].service \in Refreshers
    /\ rotates => refresh # NoToken
    /\ grants' = Append(grants, [service |-> request[r].service, user |-> request[r].user,
                                 access |-> 1, refresh |-> refresh, dead |-> 0,
                                 rotates |-> rotates])
    /\ Upsert(request[r].service, [grant |-> Len(grants'), access |-> 1, refresh |-> refresh])
    /\ Answer(r, "connected")
    /\ UNCHANGED <<server, authorized, turn, stranded>>

FailConnect(r) ==
    /\ request[r].stage = "exchange"
    /\ Answer(r, "error")
    /\ UNCHANGED <<server, connections, authorized, turn, grants, stranded>>

\* DELETE /api/connections/{provider}
Disconnect(r, u, s) ==
    /\ request[r].stage \in Resting
    /\ request' = [request EXCEPT ![r] =
           [stage |-> IF Owns(u) THEN "disconnected" ELSE "refused",
            user |-> u, service |-> s, name |-> NoName]]
    /\ IF Owns(u) THEN Delete(s) ELSE UNCHANGED connections
    /\ UNCHANGED <<server, authorized, turn, grants, stranded>>

-----------------------------------------------------------------------------
(* The toolset of a turn: IntegrationToolsetInitializer.initialize *)

\* Where the loop goes on when only the services of todo are left.
Onward(todo) == IF todo = {} THEN "ready" ELSE "loading"

Listed == {s \in Services : Connected(s)}
Initialize(t) ==
    /\ turn[t].stage = "idle"
    /\ turn' = [turn EXCEPT ![t] =
           [stage |-> Onward(Listed), todo |-> Listed,
            held |-> [s \in Services |-> connections[s].credentials],
            tools |-> {}, missing |-> {}]]
    /\ UNCHANGED <<server, connections, request, authorized, grants, stranded>>

Current(t) == CHOOSE s \in turn[t].todo : \A x \in turn[t].todo : Rank(s) <= Rank(x)
Held(t) == turn[t].held[Current(t)]
Reloading == {t \in Turns : turn[t].stage = "reloading"}
Expired(credentials) == credentials.access <= grants[credentials.grant].dead

\* Slip: a failure ends the loop.
WithFailureLast(t) ==
    [turn[t] EXCEPT !.stage = "ready", !.todo = {}, !.missing = @ \cup {Current(t)}]

\* The current service's tools are in the toolset, or its failure is.
WithTools(t) ==
    [turn[t] EXCEPT !.stage = Onward(turn[t].todo \ {Current(t)}), !.todo = @ \ {Current(t)},
                    !.tools = @ \cup {Current(t)}]
WithFailure(t) ==
    [turn[t] EXCEPT !.stage = Onward(turn[t].todo \ {Current(t)}), !.todo = @ \ {Current(t)},
                    !.missing = @ \cup {Current(t)}]

\* load_tools: a hosted MCP server is called, the others' tools need nobody.
\* An expired token is answered with 401, which starts a refresh.
LoadTools(t) ==
    /\ turn[t].stage = "loading"
    /\ \/ /\ Current(t) \in Hosted => ~Expired(Held(t))
          /\ turn' = [turn EXCEPT ![t] = WithTools(t)]
       \/ /\ Current(t) \in Hosted
          /\ turn' = [turn EXCEPT ![t] = WithFailure(t)]
       \/ /\ Current(t) \in Hosted \cap Refreshers
          /\ Expired(Held(t))
          /\ turn' = [turn EXCEPT ![t].stage = "refreshing"]
    /\ UNCHANGED <<server, connections, request, authorized, grants, stranded>>

\* Slip: the old refresh token wins.
MergedKeepingRefresh(credentials, payload) ==
    [credentials EXCEPT !.access = payload.access]

\* _refresh_credentials merges the answer into the credentials it was given.
Merged(credentials, payload) ==
    [credentials EXCEPT !.access = payload.access,
                        !.refresh = IF payload.refresh # NoToken THEN payload.refresh ELSE @]

\* credentials.clear() and credentials.update(refreshed_credentials).
WithTokens(t, payload) ==
    [turn[t] EXCEPT !.stage = "reloading",
                    !.held = [turn[t].held EXCEPT ![Current(t)] = Merged(Held(t), payload)]]

\* The provider accepts the newest refresh token of the grant only; it answers
\* with a new access token and, if it rotates refresh tokens, a new one of those.
Payload(grant) ==
    [access |-> grant.access + 1,
     refresh |-> IF grant.rotates THEN grant.refresh + 1 ELSE NoToken]
Issued(grant) ==
    [grant EXCEPT !.access = grant.access + 1,
                  !.refresh = IF grant.rotates THEN grant.refresh + 1 ELSE grant.refresh]

Refresh(t) ==
    /\ turn[t].stage = "refreshing"
    /\ LET g == Held(t).grant
       IN  \/ /\ Held(t).refresh # NoToken
              /\ Held(t).refresh = grants[g].refresh
              /\ grants[g].access < MaxTokens
              /\ grants' = [grants EXCEPT ![g] = Issued(@)]
              /\ turn' = [turn EXCEPT ![t] = WithTokens(t, Payload(grants[g]))]
           \/ /\ turn' = [turn EXCEPT ![t] = WithFailure(t)]
              /\ UNCHANGED grants
    /\ UNCHANGED <<server, connections, request, authorized, stranded>>

\* The second call of load_tools.  Changed credentials are written back only
\* when it succeeds; its failure drops them with the exception.
Unsaved(t) == {g \in {Held(t).grant} : grants[g].rotates}
Reload(t) ==
    /\ turn[t].stage = "reloading"
    /\ \/ /\ ~Expired(Held(t))
          /\ Upsert(Current(t), Held(t))
          /\ turn' = [turn EXCEPT ![t] = WithTools(t)]
          /\ UNCHANGED stranded
       \/ /\ turn' = [turn EXCEPT ![t] = WithFailure(t)]
          /\ stranded' = stranded \cup Unsaved(t)
          /\ UNCHANGED connections
    /\ UNCHANGED <<server, request, authorized, grants>>

\* A tool call that succeeds, with the credentials the tool was made with.
UseTool(t, s) ==
    /\ turn[t].stage = "ready"
    /\ s \in turn[t].tools
    /\ ~Expired(turn[t].held[s])
    /\ Touch(s, turn[t].held[s])
    /\ UNCHANGED <<server, request, authorized, turn, grants, stranded>>

Finish(t) ==
    /\ turn[t].stage = "ready"
    /\ turn' = [turn EXCEPT ![t] = NoTurn]
    /\ UNCHANGED <<server, connections, request, authorized, grants, stranded>>

-----------------------------------------------------------------------------
(* External events *)

Expire(g) ==
    /\ grants[g].dead < grants[g].access
    /\ grants' = [grants EXCEPT ![g].dead = grants[g].access]
    /\ UNCHANGED <<server, connections, request, authorized, turn, stranded>>

\* The process dies with its requests and turns; the database stays.
Crash ==
    /\ Crashes
    /\ request' = [r \in Requests |-> NoRequest]
    /\ turn' = [t \in Turns |-> NoTurn]
    /\ stranded' = stranded \cup UNION {Unsaved(t) : t \in Reloading}
    /\ UNCHANGED <<server, connections, authorized, grants>>

-----------------------------------------------------------------------------
Claiming(r) ==
    \/ \E u \in Users : BeginClaim(r, u)
    \/ \E name \in Names \cup {NoName} : ReadServer(r, name)
    \/ InsertServer(r)
    \/ UpdateServer(r)

Connecting(r) ==
    \/ \E u \in Users, s \in Services : BeginConnect(r, u, s) \/ Disconnect(r, u, s)
    \/ \E refresh \in {NoToken, 1}, rotates \in BOOLEAN : FinishConnect(r, refresh, rotates)
    \/ FailConnect(r)

Toolset(t) ==
    \/ Initialize(t)
    \/ LoadTools(t)
    \/ Refresh(t)
    \/ Reload(t)
    \/ \E s \in Services : UseTool(t, s)
    \/ Finish(t)

Next ==
    \/ \E r \in Requests : Claiming(r) \/ Connecting(r)
    \/ \E u \in Users, s \in Services : Authorize(u, s)
    \/ \E t \in Turns : Toolset(t)
    \/ \E g \in DOMAIN grants : Expire(g)
    \/ Crash

Spec == Init /\ [][Next]_vars
-----------------------------------------------------------------------------
Stages == {"lookup", "insert", "update", "exchange"} \cup Resting
Busy == {"loading", "refreshing", "reloading"}
Grant == [service : Services, user : Users, access : Nat, refresh : Nat, dead : Nat,
          rotates : BOOLEAN]
Credentials == [grant : 0..Len(grants), access : Nat, refresh : Nat]

\* Every variable keeps its type, and no credentials are of a grant that no
\* provider gave.
TypeOK ==
    /\ server \in [owner : Users \cup {NoUser}, name : Names \cup {NoName}]
    /\ connections \in [Services -> [credentials : Credentials, used : BOOLEAN]]
    /\ request \in [Requests -> [stage : Stages, user : Users \cup {NoUser},
                                 service : Services \cup {NoService},
                                 name : Names \cup {NoName}]]
    /\ authorized \subseteq Users \X Services
    /\ turn \in [Turns -> [stage : Busy \cup {"idle", "ready"},
                           todo : SUBSET Services, held : [Services -> Credentials],
                           tools : SUBSET Services, missing : SUBSET Services]]
    /\ grants \in Seq(Grant)
    /\ stranded \subseteq DOMAIN grants

\* A user whose claim was answered with success owns the server, however the
\* reads and writes of several claims interleave (claim_server).
ClaimersOwn ==
    \A r \in Requests : request[r].stage = "claimed" => server.owner = request[r].user

\* The owner of a server never changes, and a name once known is not forgotten
\* when a later claim cannot reach Discord (claim_server).
ClaimsSettle ==
    [][server # Unclaimed => /\ server'.owner = server.owner
                             /\ server.name # NoName => server'.name # NoName]_server

\* Whatever credentials a provider has given were asked for by the owner of the
\* server, also if the server was claimed while the provider was being called
\* (_get_owned_server, oauth_callback).
GrantsFromOwner == \A g \in DOMAIN grants : grants[g].user = server.owner

\* The refresh token the store keeps is the one the provider still accepts,
\* unless a turn is about to write a newer one, or one was dropped
\* (_refresh_credentials, initialize).
AboutToSave(g) ==
    \E t \in Turns : /\ turn[t].stage = "reloading"
                     /\ Held(t).grant = g
                     /\ Held(t).refresh = grants[g].refresh
StoredNewest(s) ==
    Connected(s) => connections[s].credentials.refresh =
                        grants[connections[s].credentials.grant].refresh
RefreshTokenKept ==
    \A s \in Services : Connected(s) =>
        LET g == connections[s].credentials.grant
        IN  StoredNewest(s) \/ AboutToSave(g) \/ g \in stranded

\* The toolset of a turn has the tools of every service that was connected or
\* says that it failed: one that fails takes no other with it (initialize).
ToolsetAccountsForAll ==
    \A t \in Turns : turn[t].stage = "ready" =>
        /\ turn[t].tools \cup turn[t].missing =
               {s \in Services : turn[t].held[s] # NoCredentials}
        /\ turn[t].tools \cap turn[t].missing = {}

\* The store, as requests and turns change it, is a register of grants: a request
\* gives a service its newest grant or none, and a turn of the bot may bring back
\* an earlier grant of a service it refreshes, of that service only.
Register == INSTANCE ConnectionRegister WITH
    Refreshable <- Refreshers,
    given <- [g \in DOMAIN grants |-> grants[g].service],
    slot <- [s \in Services |-> connections[s].credentials.grant]
KeepsRegister == Register!Spec

\* "Disconnect -- delete stored credentials": only connecting brings a deleted
\* connection back (violated: upsert_connection after a refresh).
DeletedStaysDeleted ==
    [][\A s \in Services : ~Connected(s) /\ Connected(s)' =>
           \E r \in Requests : request[r].stage = "exchange" /\ request[r].service = s
                               /\ request'[r].stage = "connected"]_vars
=============================================================================
