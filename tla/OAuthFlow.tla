----------------------------- MODULE OAuthFlow ------------------------------
(***************************************************************************)
(* The OAuth flows of one browser: logins with Discord                     *)
(* (web/routes/auth_routes.py) and connections of services                 *)
(* (web/routes/connection_routes.py, web/providers/oauth.py).              *)
(*                                                                         *)
(* What a flow must remember between its two requests is in cookies, and a *)
(* browser has one of each, whatever its tabs are doing.  A request carries *)
(* the cookies as they are when it is sent; its answer changes them when   *)
(* it arrives; in between, the server waits for Discord or for a provider  *)
(* and answers of other tabs arrive.  The state, the PKCE verifier, the    *)
(* registered client and the code of a flow are unguessable: they are      *)
(* represented by the flow they are of.                                    *)
(***************************************************************************)
EXTENDS Naturals

CONSTANTS
    Users, Servers, Owner,   \* Owner[v] has claimed server v
    Logins, Flows,           \* logins and connect flows, by their state
    Requests,                \* requests that may be under way at once
    None

Services == {"github", "notion"}
Hosted == {"notion"}

ASSUME OwnerAssumption == Owner \in [Servers -> Users]
ASSUME NoneAssumption == None \notin Users \cup Logins \cup Flows
ASSUME DisjointAssumption == Logins \cap Flows = {}

VARIABLES
    cookies,      \* session, _discord_state, _discord_next, _oauth_notion_context
    login,        \* logins: whether they asked for a path, and where they landed
    flow,         \* connect flows, with what their state says
    request,      \* requests under way, with the cookies they carry
    connection,   \* the store: whose tokens, and which client they are kept with
    spent,        \* external: codes that were exchanged
    refused,      \* history: callbacks answered 400 for the sake of a cookie
    done,         \* history: callbacks answered with success
    crossed       \* history: flows that another one's answer met on their way

vars == <<cookies, login, flow, request, connection, spent, refused, done, crossed>>

Idle == [stage |-> "idle", of |-> None, next |-> None, context |-> None]
NoConnection == [tokens |-> None, client |-> None]

Init ==
    /\ cookies = [session |-> None, state |-> None, next |-> None, context |-> None]
    /\ login = [l \in Logins |-> [stage |-> "new", asks |-> FALSE, user |-> None,
                                  landed |-> None, after |-> {}]]
    /\ flow = [f \in Flows |-> [stage |-> "new", server |-> None, service |-> None,
                                user |-> None]]
    /\ request = [r \in Requests |-> Idle]
    /\ connection = [c \in Servers \X Services |-> NoConnection]
    /\ spent = {}
    /\ refused = {}
    /\ done = {}
    /\ crossed = {}

Free(r) == request[r] = Idle
\* A request carries all cookies; its handler takes those it has parameters for.
Carry(r, stage, x, next, context) ==
    request' = [request EXCEPT ![r] = [stage |-> stage, of |-> x, next |-> next,
                                       context |-> context]]
End(r) == request' = [request EXCEPT ![r] = Idle]

\* On their way: between the answer that sets the cookie and the callback's.
OpenLogins == {l \in Logins \ done : login[l].stage # "new"}
OpenFlows == {f \in Flows \ done : flow[f].service \in Hosted
                                   /\ flow[f].stage \in {"consent", "returned"}}
Crosses(x, others) == crossed' = crossed \cup (others \ {x})

-----------------------------------------------------------------------------
(* Logging in with Discord *)

\* Slip: the flag is stored, not the path.
NextOfFlag(l, asks) == asks

\* The path a login asks for is identified by the login; one that asks for
\* none leaves the cookie as it is.
NextOf(l, asks) == IF asks THEN l ELSE cookies.next

\* GET /api/auth/discord, and the consent screen
StartLogin(l, asks) ==
    /\ login[l].stage = "new"
    /\ login' = [login EXCEPT ![l] = [stage |-> "consent", asks |-> asks, user |-> None,
                                      landed |-> None, after |-> done \cap Logins]]
    /\ cookies' = [cookies EXCEPT !.state = l, !.next = NextOf(l, asks)]
    /\ Crosses(l, OpenLogins)
    /\ UNCHANGED <<flow, request, connection, spent, refused, done>>

\* The user consents as u and Discord redirects to the callback; a reload
\* sends the same code and state again.
LoginCallback(r, l, u) ==
    /\ Free(r)
    /\ \/ login[l].stage = "consent"
       \/ login[l].stage = "returned" /\ login[l].user = u
    /\ login' = [login EXCEPT ![l].stage = "returned", ![l].user = u]
    /\ IF cookies.state = l
       THEN Carry(r, "exchange", l, cookies.next, None) /\ UNCHANGED refused
       ELSE refused' = refused \cup {l} /\ UNCHANGED request
    /\ UNCHANGED <<cookies, flow, connection, spent, done, crossed>>

\* Discord accepts a code once, and may fail.
ExchangeLogin(r) ==
    /\ request[r].stage = "exchange"
    /\ request[r].of \in Logins
    /\ \/ /\ request[r].of \notin spent
          /\ spent' = spent \cup {request[r].of}
          /\ request' = [request EXCEPT ![r].stage = "answer"]
       \/ End(r) /\ UNCHANGED spent
    /\ UNCHANGED <<cookies, login, flow, connection, refused, done, crossed>>

\* Slip: the path stays.
AfterLoginKeepingNext(l) ==
    [cookies EXCEPT !.session = login[l].user, !.state = None]
\* The answer of a callback: a session, and neither state nor path.
AfterLogin(l) ==
    [cookies EXCEPT !.session = login[l].user, !.state = None, !.next = None]

AnswerLogin(r) ==
    /\ request[r].stage = "answer"
    /\ request[r].of \in Logins
    /\ LET l == request[r].of
       IN  /\ cookies' = AfterLogin(l)
           /\ login' = [login EXCEPT ![l].landed = request[r].next]
           /\ done' = done \cup {l}
           /\ Crosses(l, OpenLogins)
    /\ End(r)
    /\ UNCHANGED <<flow, connection, spent, refused>>

\* POST /api/auth/logout; a session may also expire.
Logout ==
    /\ cookies.session # None
    /\ cookies' = [cookies EXCEPT !.session = None]
    /\ UNCHANGED <<login, flow, request, connection, spent, refused, done, crossed>>

-----------------------------------------------------------------------------
(* Connecting a service *)

\* GET /api/connections/{provider}/authorize: the owner of the server is given
\* a signed state.  For a hosted MCP server a client is registered first.
BeginAuthorize(r, f, v, s) ==
    /\ Free(r)
    /\ flow[f].stage = "new"
    /\ cookies.session = Owner[v]
    /\ flow' = [flow EXCEPT ![f] = [stage |-> IF s \in Hosted THEN "preparing" ELSE "consent",
                                    server |-> v, service |-> s, user |-> cookies.session]]
    /\ IF s \in Hosted THEN Carry(r, "preparing", f, None, None) ELSE UNCHANGED request
    /\ UNCHANGED <<cookies, login, connection, spent, refused, done, crossed>>

\* Slip: a context that is there is kept.
WithContextOnce(f) == IF cookies.context = None THEN f ELSE cookies.context

\* _set_notion_context_cookie
WithContext(f) == f

Authorized(r) ==
    /\ request[r].stage = "preparing"
    /\ LET f == request[r].of
       IN  /\ flow' = [flow EXCEPT ![f].stage = "consent"]
           /\ cookies' = [cookies EXCEPT !.context = WithContext(f)]
           /\ Crosses(f, OpenFlows)
    /\ End(r)
    /\ UNCHANGED <<login, connection, spent, refused, done>>

FailAuthorize(r) ==
    /\ request[r].stage = "preparing"
    /\ flow' = [flow EXCEPT ![request[r].of].stage = "failed"]
    /\ End(r)
    /\ UNCHANGED <<cookies, login, connection, spent, refused, done, crossed>>

\* The user consents and the provider redirects to the callback, once or, by
\* a reload, again.  Its state names the server and the user who began.
ConnectCallback(r, f) ==
    /\ Free(r)
    /\ flow[f].stage \in {"consent", "returned"}
    /\ flow[f].user = Owner[flow[f].server]
    /\ flow' = [flow EXCEPT ![f].stage = "returned"]
    /\ IF flow[f].service \in Hosted /\ cookies.context = None
       THEN refused' = refused \cup {f} /\ UNCHANGED request
       ELSE Carry(r, "exchange", f, None, cookies.context) /\ UNCHANGED refused
    /\ UNCHANGED <<cookies, login, connection, spent, done, crossed>>

\* Slip: the client is that of the cookie as it is now.
StoredNow(r) == [tokens |-> request[r].of, client |-> cookies.context]

\* The client of a hosted service is stored with the tokens, to refresh them.
Stored(r) ==
    [tokens |-> request[r].of,
     client |-> IF flow[request[r].of].service \in Hosted THEN request[r].context ELSE None]

\* The provider accepts a code once, and that of a hosted service only from
\* the client and with the verifier it was issued for.
Accepted(r) ==
    /\ request[r].of \notin spent
    /\ flow[request[r].of].service \in Hosted => request[r].context = request[r].of

ExchangeCode(r) ==
    /\ request[r].stage = "exchange"
    /\ request[r].of \in Flows
    /\ LET f == request[r].of
       IN  \/ /\ Accepted(r)
              /\ spent' = spent \cup {f}
              /\ connection' = [connection EXCEPT
                                    ![<<flow[f].server, flow[f].service>>] = Stored(r)]
              /\ request' = [request EXCEPT ![r].stage = "answer"]
              /\ UNCHANGED refused
           \/ /\ refused' = IF flow[f].service \in Hosted /\ request[r].context # f
                            THEN refused \cup {f} ELSE refused
              /\ End(r)
              /\ UNCHANGED <<spent, connection>>
    /\ UNCHANGED <<cookies, login, flow, done, crossed>>

\* The context is deleted by the callback of whatever service carried one.
AnswerConnect(r) ==
    /\ request[r].stage = "answer"
    /\ request[r].of \in Flows
    /\ done' = done \cup {request[r].of}
    /\ IF request[r].context # None
       THEN cookies' = [cookies EXCEPT !.context = None] /\ Crosses(request[r].of, OpenFlows)
       ELSE UNCHANGED <<cookies, crossed>>
    /\ End(r)
    /\ UNCHANGED <<login, flow, connection, spent, refused>>

\* Ten minutes have passed; the path of an earlier login goes before the state.
Expire ==
    /\ \/ /\ cookies' = [cookies EXCEPT !.state = None, !.next = None]
          /\ Crosses(None, OpenLogins)
       \/ /\ cookies' = [cookies EXCEPT !.next = None]
          /\ UNCHANGED crossed
       \/ /\ cookies' = [cookies EXCEPT !.context = None]
          /\ Crosses(None, OpenFlows)
    /\ UNCHANGED <<login, flow, request, connection, spent, refused, done>>

-----------------------------------------------------------------------------
LoggingIn ==
    \/ \E l \in Logins, asks \in BOOLEAN : StartLogin(l, asks)
    \/ \E r \in Requests, l \in Logins, u \in Users : LoginCallback(r, l, u)
    \/ \E r \in Requests : ExchangeLogin(r) \/ AnswerLogin(r)
    \/ Logout

Connecting ==
    \/ \E r \in Requests, f \in Flows, v \in Servers, s \in Services : BeginAuthorize(r, f, v, s)
    \/ \E r \in Requests : Authorized(r) \/ FailAuthorize(r)
    \/ \E r \in Requests, f \in Flows : ConnectCallback(r, f)
    \/ \E r \in Requests : ExchangeCode(r) \/ AnswerConnect(r)

Next == LoggingIn \/ Connecting \/ Expire

Spec == Init /\ [][Next]_vars
-----------------------------------------------------------------------------
\* Every variable keeps its type.
TypeOK ==
    /\ cookies \in [session : Users \cup {None}, state : Logins \cup {None},
                    next : Logins \cup {None}, context : Flows \cup {None}]
    /\ login \in [Logins -> [stage : {"new", "consent", "returned"}, asks : BOOLEAN,
                             user : Users \cup {None}, landed : Logins \cup {None},
                             after : SUBSET Logins]]
    /\ flow \in [Flows -> [stage : {"new", "preparing", "consent", "returned", "failed"},
                           server : Servers \cup {None}, service : Services \cup {None},
                           user : Users \cup {None}]]
    /\ request \in [Requests -> [stage : {"idle", "preparing", "exchange", "answer"},
                                 of : Logins \cup Flows \cup {None},
                                 next : Logins \cup {None}, context : Flows \cup {None}]]
    /\ connection \in [Servers \X Services ->
                          [tokens : Flows \cup {None}, client : Flows \cup {None}]]
    /\ spent \subseteq Logins \cup Flows
    /\ refused \subseteq Logins \cup Flows
    /\ done \subseteq Logins \cup Flows
    /\ crossed \subseteq Logins \cup Flows

\* Tokens are stored for the server and the service their flow was begun for,
\* by the owner of that server, and with the client they can be refreshed with,
\* whatever other flows and logins of the browser do meanwhile (oauth_callback).
StoredAsGranted ==
    \A v \in Servers, s \in Services :
        LET c == connection[<<v, s>>]
        IN  c # NoConnection =>
                /\ flow[c.tokens].server = v
                /\ flow[c.tokens].service = s
                /\ flow[c.tokens].user = Owner[v]
                /\ s \in Hosted => c.client = c.tokens

\* A login or a connect flow is refused for the sake of its cookie only if an
\* answer to another one arrived while it was on its way, or the cookie expired,
\* or it is the reload of one that succeeded (discord_callback, oauth_callback).
RefusedOnlyWhenCrossed == refused \subseteq crossed \cup done

\* The path of a login that succeeded takes no later login with it: cookies of
\* a finished login are spent (discord_callback).
CompletedPathIsSpent ==
    \A l \in Logins : login[l].landed \notin login[l].after
=============================================================================
