---------------------------- MODULE OAuthProofs -----------------------------
(***************************************************************************)
(* What module OAuthFlow keeps for any users, servers, logins, flows and   *)
(* number of requests under way at once.                                   *)
(***************************************************************************)
EXTENDS OAuthFlow, TLAPS

-----------------------------------------------------------------------------
(* Types.                                                                  *)

Cookies == [session : Users \cup {None}, state : Logins \cup {None},
            next : Logins \cup {None}, context : Flows \cup {None}]
LoginRecord == [stage : {"new", "consent", "returned"}, asks : BOOLEAN,
                user : Users \cup {None}, landed : Logins \cup {None},
                after : SUBSET Logins]
FlowRecord == [stage : {"new", "preparing", "consent", "returned", "failed"},
               server : Servers \cup {None}, service : Services \cup {None},
               user : Users \cup {None}]
Request == [stage : {"idle", "preparing", "exchange", "answer"},
            of : Logins \cup Flows \cup {None},
            next : Logins \cup {None}, context : Flows \cup {None}]

\* A connect flow's own request has its flow, a login's its login.
RequestsFit ==
    \A r \in Requests :
        /\ request[r].stage = "preparing" => request[r].of \in Flows
        /\ request[r].stage \in {"exchange", "answer"} => request[r].of \in Logins \cup Flows

Typed == TypeOK /\ RequestsFit

\* What the actions make of one request, one login and one flow is typed.
LEMMA RequestSet ==
    ASSUME request \in [Requests -> Request], NEW r \in Requests, NEW new \in Request
    PROVE  [request EXCEPT ![r] = new] \in [Requests -> Request]
OBVIOUS

LEMMA RequestStage ==
    ASSUME request \in [Requests -> Request], NEW r \in Requests
    PROVE  [request EXCEPT ![r].stage = "answer"] \in [Requests -> Request]
BY DEF Request

LEMMA LoginReturns ==
    ASSUME login \in [Logins -> LoginRecord], NEW l \in Logins, NEW u \in Users
    PROVE  [login EXCEPT ![l].stage = "returned", ![l].user = u] \in [Logins -> LoginRecord]
BY DEF LoginRecord

LEMMA LoginLands ==
    ASSUME login \in [Logins -> LoginRecord], NEW l \in Logins, NEW p \in Logins \cup {None}
    PROVE  [login EXCEPT ![l].landed = p] \in [Logins -> LoginRecord]
BY DEF LoginRecord

LEMMA FlowStage ==
    ASSUME flow \in [Flows -> FlowRecord], NEW f \in Flows,
           NEW stage \in {"preparing", "consent", "returned", "failed"}
    PROVE  [flow EXCEPT ![f].stage = stage] \in [Flows -> FlowRecord]
BY DEF FlowRecord

LEMMA TypedInit == Init => Typed
<1> SUFFICES ASSUME Init PROVE Typed
    OBVIOUS
<1>1. login \in [Logins -> LoginRecord]
    BY DEF Init, LoginRecord
<1>2. flow \in [Flows -> FlowRecord]
    BY DEF Init, FlowRecord
<1>3. request \in [Requests -> Request]
    BY DEF Init, Idle, Request
<1>4. cookies \in Cookies
    BY DEF Init, Cookies
<1>5. connection \in [Servers \X Services ->
                          [tokens : Flows \cup {None}, client : Flows \cup {None}]]
    BY DEF Init, NoConnection
<1>6. RequestsFit
    BY DEF Init, Idle, RequestsFit
<1> QED BY <1>1, <1>2, <1>3, <1>4, <1>5, <1>6
        DEF Init, Typed, TypeOK, Cookies, LoginRecord, FlowRecord, Request

\* The types by the names above, and the record a request is made of.
LEMMA TypedParts ==
    ASSUME Typed
    PROVE  /\ cookies \in Cookies
           /\ login \in [Logins -> LoginRecord]
           /\ flow \in [Flows -> FlowRecord]
           /\ request \in [Requests -> Request]
           /\ RequestsFit
BY DEF Typed, TypeOK, Cookies, LoginRecord, FlowRecord, Request

LEMMA IdleTyped == Idle \in Request
BY DEF Idle, Request

LEMMA EndTyped ==
    ASSUME Typed, NEW r \in Requests, End(r)
    PROVE  request' \in [Requests -> Request] /\ RequestsFit'
<1>1. request' = [request EXCEPT ![r] = Idle]
    BY DEF End
<1>2. request' \in [Requests -> Request]
    BY <1>1, TypedParts, IdleTyped, RequestSet
<1>3. \A q \in Requests : request'[q] = request[q] \/ request'[q] = Idle
    BY <1>1, TypedParts
<1>4. RequestsFit'
    BY <1>3, TypedParts DEF RequestsFit, Idle
<1> QED BY <1>2, <1>4

LEMMA CarryTyped ==
    ASSUME Typed, NEW r \in Requests, NEW stage \in {"preparing", "exchange"},
           NEW x \in Logins \cup Flows, NEW next \in Logins \cup {None},
           NEW context \in Flows \cup {None},
           stage = "preparing" => x \in Flows,
           Carry(r, stage, x, next, context)
    PROVE  request' \in [Requests -> Request] /\ RequestsFit'
<1> DEFINE new == [stage |-> stage, of |-> x, next |-> next, context |-> context]
<1>1. request' = [request EXCEPT ![r] = new]
    BY DEF Carry
<1>2. new \in Request
    BY DEF Request
<1>3. request' \in [Requests -> Request]
    BY <1>1, <1>2, TypedParts, RequestSet
<1>4. \A q \in Requests : request'[q] = request[q] \/ request'[q] = new
    BY <1>1, TypedParts
<1>5. RequestsFit'
    BY <1>4, TypedParts DEF RequestsFit
<1> QED BY <1>3, <1>5

LEMMA AnswerTyped ==
    ASSUME Typed, NEW r \in Requests, request[r].stage = "exchange",
           request' = [request EXCEPT ![r].stage = "answer"]
    PROVE  request' \in [Requests -> Request] /\ RequestsFit'
<1>1. request' \in [Requests -> Request]
    BY TypedParts, RequestStage
<1>2. ASSUME NEW q \in Requests
      PROVE  /\ request'[q].of = request[q].of
             /\ request'[q].stage = IF q = r THEN "answer" ELSE request[q].stage
    BY TypedParts DEF Request
<1>3. RequestsFit'
    BY <1>2, TypedParts DEF RequestsFit
<1> QED BY <1>1, <1>3

LEMMA CookiesTyped ==
    ASSUME Typed
    PROVE  /\ cookies.session \in Users \cup {None}
           /\ cookies.next \in Logins \cup {None}
           /\ cookies.context \in Flows \cup {None}
BY TypedParts DEF Cookies

LEMMA LoggingInTyped == Typed /\ LoggingIn => Typed'
<1> SUFFICES ASSUME Typed, LoggingIn PROVE Typed'
    OBVIOUS
<1> USE NoneAssumption, OwnerAssumption, DisjointAssumption
<1>1. ASSUME NEW l \in Logins, NEW asks \in BOOLEAN, StartLogin(l, asks) PROVE Typed'
    <2>1. cookies' \in Cookies
        BY <1>1 DEF StartLogin, NextOf, Typed, TypeOK, Cookies
    <2>2. login' \in [Logins -> LoginRecord]
        BY <1>1 DEF StartLogin, Typed, TypeOK, LoginRecord
    <2> QED BY <1>1, <2>1, <2>2
            DEF StartLogin, Crosses, OpenLogins, Typed, TypeOK, RequestsFit, Cookies, LoginRecord
<1>2. ASSUME NEW r \in Requests, NEW l \in Logins, NEW u \in Users, LoginCallback(r, l, u)
      PROVE  Typed'
    <2>1. login' \in [Logins -> LoginRecord]
        <3>1. login' = [login EXCEPT ![l].stage = "returned", ![l].user = u]
            BY <1>2 DEF LoginCallback
        <3> QED BY <3>1, LoginReturns, TypedParts
    <2>2. request' \in [Requests -> Request] /\ RequestsFit'
        <3>1. CASE cookies.state = l
            <4>1. Carry(r, "exchange", l, cookies.next, None)
                BY <1>2, <3>1 DEF LoginCallback
            <4> QED BY <4>1, CookiesTyped, CarryTyped
        <3>2. CASE cookies.state # l
            <4>1. request' = request
                BY <1>2, <3>2 DEF LoginCallback
            <4> QED BY <4>1, TypedParts DEF RequestsFit
        <3> QED BY <3>1, <3>2
    <2> QED BY <1>2, <2>1, <2>2 DEF LoginCallback, Typed, TypeOK, LoginRecord, Request
<1>3. ASSUME NEW r \in Requests, ExchangeLogin(r) PROVE Typed'
    <2>1. request[r].stage = "exchange"
        BY <1>3 DEF ExchangeLogin
    <2>4. request' \in [Requests -> Request] /\ RequestsFit'
        <3>2. CASE request' = [request EXCEPT ![r].stage = "answer"]
            BY <2>1, <3>2, AnswerTyped
        <3>3. CASE End(r)
            BY <3>3, EndTyped
        <3> QED BY <1>3, <3>2, <3>3 DEF ExchangeLogin
    <2> QED BY <1>3, <2>4 DEF ExchangeLogin, Typed, TypeOK, Request
<1>4. ASSUME NEW r \in Requests, AnswerLogin(r) PROVE Typed'
    <2> DEFINE l == request[r].of
    <2>0. l \in Logins /\ request[r].next \in Logins \cup {None}
        BY <1>4, TypedParts DEF AnswerLogin, Request
    <2>1. cookies' \in Cookies
        BY <1>4 DEF AnswerLogin, AfterLogin, Typed, TypeOK, Cookies
    <2>2. login' \in [Logins -> LoginRecord]
        <3>1. login' = [login EXCEPT ![l].landed = request[r].next]
            BY <1>4 DEF AnswerLogin
        <3> QED BY <2>0, <3>1, LoginLands, TypedParts
    <2>3. End(r)
        BY <1>4 DEF AnswerLogin
    <2>4. request' \in [Requests -> Request] /\ RequestsFit'
        BY <2>3, EndTyped
    <2> QED BY <1>4, <2>1, <2>2, <2>4
            DEF AnswerLogin, Crosses, OpenLogins, Typed, TypeOK, Cookies, LoginRecord, Request
<1>5. ASSUME Logout PROVE Typed'
    BY <1>5 DEF Logout, Typed, TypeOK, RequestsFit
<1> QED BY <1>1, <1>2, <1>3, <1>4, <1>5 DEF LoggingIn

LEMMA ConnectingTyped == Typed /\ Connecting => Typed'
<1> SUFFICES ASSUME Typed, Connecting PROVE Typed'
    OBVIOUS
<1> USE NoneAssumption, OwnerAssumption, DisjointAssumption
<1>1. ASSUME NEW r \in Requests, NEW f \in Flows, NEW v \in Servers, NEW s \in Services,
             BeginAuthorize(r, f, v, s)
      PROVE  Typed'
    <2> DEFINE new == [stage |-> IF s \in Hosted THEN "preparing" ELSE "consent",
                       server |-> v, service |-> s, user |-> cookies.session]
    <2>1. flow' \in [Flows -> FlowRecord]
        <3>1. new \in FlowRecord
            BY CookiesTyped DEF FlowRecord
        <3>2. flow' = [flow EXCEPT ![f] = new]
            BY <1>1 DEF BeginAuthorize
        <3> QED BY <3>1, <3>2, TypedParts
    <2>2. request' \in [Requests -> Request] /\ RequestsFit'
        <3>1. CASE s \in Hosted
            <4>1. Carry(r, "preparing", f, None, None)
                BY <1>1, <3>1 DEF BeginAuthorize
            <4> QED BY <4>1, CarryTyped
        <3>2. CASE s \notin Hosted
            <4>1. request' = request
                BY <1>1, <3>2 DEF BeginAuthorize
            <4> QED BY <4>1, TypedParts DEF RequestsFit
        <3> QED BY <3>1, <3>2
    <2> QED BY <1>1, <2>1, <2>2 DEF BeginAuthorize, Typed, TypeOK, FlowRecord, Request
<1>2. ASSUME NEW r \in Requests, Authorized(r) PROVE Typed'
    <2> DEFINE f == request[r].of
    <2>0. f \in Flows
        BY <1>2, TypedParts DEF Authorized, RequestsFit
    <2>1. flow' \in [Flows -> FlowRecord]
        <3>1. flow' = [flow EXCEPT ![f].stage = "consent"]
            BY <1>2 DEF Authorized
        <3> QED BY <2>0, <3>1, FlowStage, TypedParts
    <2>2. request' \in [Requests -> Request] /\ RequestsFit'
        BY <1>2, EndTyped DEF Authorized
    <2>3. cookies' \in Cookies
        BY <1>2, <2>0 DEF Authorized, WithContext, Typed, TypeOK, Cookies
    <2> QED BY <1>2, <2>0, <2>1, <2>2, <2>3
            DEF Authorized, Crosses, OpenFlows, Typed, TypeOK, Cookies, FlowRecord, Request
<1>3. ASSUME NEW r \in Requests, FailAuthorize(r) PROVE Typed'
    <2> DEFINE f == request[r].of
    <2>0. f \in Flows
        BY <1>3, TypedParts DEF FailAuthorize, RequestsFit
    <2>1. flow' \in [Flows -> FlowRecord]
        <3>1. flow' = [flow EXCEPT ![f].stage = "failed"]
            BY <1>3 DEF FailAuthorize
        <3> QED BY <2>0, <3>1, FlowStage, TypedParts
    <2>2. request' \in [Requests -> Request] /\ RequestsFit'
        BY <1>3, EndTyped DEF FailAuthorize
    <2> QED BY <1>3, <2>1, <2>2 DEF FailAuthorize, Typed, TypeOK, FlowRecord, Request
<1>4. ASSUME NEW r \in Requests, NEW f \in Flows, ConnectCallback(r, f) PROVE Typed'
    <2>1. flow' \in [Flows -> FlowRecord]
        <3>1. flow' = [flow EXCEPT ![f].stage = "returned"]
            BY <1>4 DEF ConnectCallback
        <3> QED BY <3>1, FlowStage, TypedParts
    <2>2. request' \in [Requests -> Request] /\ RequestsFit'
        <3>1. CASE request' = request
            BY <3>1, TypedParts DEF RequestsFit
        <3>2. CASE Carry(r, "exchange", f, None, cookies.context)
            BY <3>2, CookiesTyped, CarryTyped
        <3> QED BY <1>4, <3>1, <3>2 DEF ConnectCallback
    <2> QED BY <1>4, <2>1, <2>2 DEF ConnectCallback, Typed, TypeOK, FlowRecord, Request
<1>5. ASSUME NEW r \in Requests, ExchangeCode(r) PROVE Typed'
    <2> DEFINE Kept == [tokens : Flows \cup {None}, client : Flows \cup {None}]
               f == request[r].of
    <2>0. f \in Flows /\ request[r].context \in Flows \cup {None}
        BY <1>5, TypedParts DEF ExchangeCode, Request
    <2>1. request' \in [Requests -> Request] /\ RequestsFit'
        <3>1. CASE request' = [request EXCEPT ![r].stage = "answer"]
            BY <1>5, <3>1, AnswerTyped DEF ExchangeCode
        <3>2. CASE End(r)
            BY <3>2, EndTyped
        <3> QED BY <1>5, <3>1, <3>2 DEF ExchangeCode
    <2>2. Stored(r) \in Kept
        BY <2>0 DEF Stored
    <2>3. connection' \in [Servers \X Services -> Kept]
        <3>1. connection \in [Servers \X Services -> Kept]
            BY DEF Typed, TypeOK
        <3>2. \/ connection' = connection
              \/ connection' = [connection EXCEPT
                                    ![<<flow[f].server, flow[f].service>>] = Stored(r)]
            BY <1>5 DEF ExchangeCode
        <3> HIDE DEF Kept, f
        <3> QED BY <2>2, <3>1, <3>2
    <2> QED BY <1>5, <2>0, <2>1, <2>3 DEF ExchangeCode, Typed, TypeOK, Request
<1>6. ASSUME NEW r \in Requests, AnswerConnect(r) PROVE Typed'
    <2>1. request' \in [Requests -> Request] /\ RequestsFit'
        BY <1>6, EndTyped DEF AnswerConnect
    <2>2. cookies' \in Cookies
        BY <1>6 DEF AnswerConnect, Typed, TypeOK, Cookies
    <2> QED BY <1>6, <2>1, <2>2
            DEF AnswerConnect, Crosses, OpenFlows, Typed, TypeOK, Request, Cookies
<1> QED BY <1>1, <1>2, <1>3, <1>4, <1>5, <1>6 DEF Connecting

LEMMA ExpireTyped == Typed /\ Expire => Typed'
<1> SUFFICES ASSUME Typed, Expire PROVE Typed'
    OBVIOUS
<1>1. cookies' \in Cookies
    BY DEF Expire, Typed, TypeOK, Cookies
<1> QED BY <1>1
        DEF Expire, Crosses, OpenLogins, OpenFlows, Typed, TypeOK, RequestsFit, Cookies

LEMMA NextTyped == Typed /\ [Next]_vars => Typed'
<1>1. Typed /\ UNCHANGED vars => Typed'
    BY DEF vars, Typed, TypeOK, RequestsFit
<1> QED BY <1>1, LoggingInTyped, ConnectingTyped, ExpireTyped DEF Next

\* Every variable of OAuthFlow keeps its type, whatever the tabs of the browser
\* do, and a request that waits for a provider is of a login or a flow.
THEOREM AlwaysTyped == Spec => []Typed
BY TypedInit, NextTyped, PTL DEF Spec

\* The type invariant the run checks.
THEOREM TypeCorrect == Spec => []TypeOK
<1>1. Typed => TypeOK
    BY DEF Typed
<1> QED BY <1>1, AlwaysTyped, PTL

-----------------------------------------------------------------------------
(* What a step does to one request, one flow and one login.                *)

LEMMA EndAt ==
    ASSUME Typed, NEW r \in Requests, End(r), NEW q \in Requests
    PROVE  request'[q] = IF q = r THEN Idle ELSE request[q]
BY TypedParts DEF End

LEMMA AnswerAt ==
    ASSUME Typed, NEW r \in Requests, NEW q \in Requests,
           request' = [request EXCEPT ![r].stage = "answer"]
    PROVE  /\ request'[q].of = request[q].of
           /\ request'[q].next = request[q].next
           /\ request'[q].context = request[q].context
           /\ request'[q].stage = IF q = r THEN "answer" ELSE request[q].stage
BY TypedParts DEF Request

LEMMA FlowStageAt ==
    ASSUME Typed, NEW f \in Flows, NEW stage, NEW g \in Flows,
           flow' = [flow EXCEPT ![f].stage = stage]
    PROVE  /\ flow'[g].server = flow[g].server
           /\ flow'[g].service = flow[g].service
           /\ flow'[g].user = flow[g].user
           /\ flow'[g].stage = IF g = f THEN stage ELSE flow[g].stage
BY TypedParts DEF FlowRecord

-----------------------------------------------------------------------------
(* Tokens are stored for what their flow was begun for.                    *)

\* A flow that was begun was begun by the owner of its server.
FlowsByOwner ==
    \A f \in Flows :
        flow[f].stage # "new" =>
            /\ flow[f].server \in Servers
            /\ flow[f].service \in Services
            /\ flow[f].user = Owner[flow[f].server]

RequestsOfBegun ==
    \A r \in Requests :
        request[r].stage \in {"preparing", "exchange", "answer"} /\ request[r].of \in Flows =>
            flow[request[r].of].stage # "new"

StoredOfBegun ==
    \A v \in Servers, s \in Services :
        connection[<<v, s>>] # NoConnection =>
            /\ connection[<<v, s>>].tokens \in Flows
            /\ flow[connection[<<v, s>>].tokens].stage # "new"

Granted == FlowsByOwner /\ RequestsOfBegun /\ StoredOfBegun /\ StoredAsGranted

\* What was begun stays so, for the same server, service and user.
FlowsKept ==
    \A f \in Flows :
        flow[f].stage # "new" =>
            /\ flow'[f].stage # "new"
            /\ flow'[f].server = flow[f].server
            /\ flow'[f].service = flow[f].service
            /\ flow'[f].user = flow[f].user

LEMMA GrantedInit == Init => Granted
BY DEF Init, Granted, FlowsByOwner, RequestsOfBegun, StoredOfBegun, StoredAsGranted,
       Idle, NoConnection

LEMMA StoredKept ==
    ASSUME Granted, FlowsKept, connection' = connection
    PROVE  StoredOfBegun' /\ StoredAsGranted'
<1>1. ASSUME NEW v \in Servers, NEW s \in Services, connection[<<v, s>>] # NoConnection
      PROVE  LET c == connection[<<v, s>>]
             IN  /\ c.tokens \in Flows
                 /\ flow[c.tokens].stage # "new"
                 /\ flow[c.tokens].server = v
                 /\ flow[c.tokens].service = s
                 /\ flow[c.tokens].user = Owner[v]
                 /\ s \in Hosted => c.client = c.tokens
    BY <1>1 DEF Granted, StoredOfBegun, StoredAsGranted
<1> QED BY <1>1 DEF FlowsKept, StoredOfBegun, StoredAsGranted

\* The actions that leave the connect flows and the store alone.
LEMMA GrantedLoggingIn == Typed /\ Granted /\ (LoggingIn \/ Expire \/ UNCHANGED vars) => Granted'
<1> SUFFICES ASSUME Typed, Granted, LoggingIn \/ Expire \/ UNCHANGED vars PROVE Granted'
    OBVIOUS
<1>1. flow' = flow /\ connection' = connection
    BY DEF LoggingIn, StartLogin, LoginCallback, ExchangeLogin, AnswerLogin, Logout, Expire, vars
<1>2. ASSUME NEW q \in Requests
      PROVE  \/ request'[q] = request[q]
             \/ request'[q].stage = "idle"
             \/ request'[q].of \in Logins
    <2>1. ASSUME NEW r \in Requests, NEW l \in Logins, NEW u \in Users, LoginCallback(r, l, u)
          PROVE  request'[q] = request[q] \/ request'[q].of \in Logins
        <3>1. CASE request' = request
            BY <3>1
        <3>2. CASE Carry(r, "exchange", l, cookies.next, None)
            BY <3>2, TypedParts DEF Carry
        <3> QED BY <2>1, <3>1, <3>2 DEF LoginCallback
    <2>2. ASSUME NEW r \in Requests, ExchangeLogin(r)
          PROVE  \/ request'[q] = request[q] \/ request'[q].stage = "idle"
                 \/ request'[q].of \in Logins
        <3>1. CASE End(r)
            BY <3>1, EndAt DEF Idle
        <3>2. CASE request' = [request EXCEPT ![r].stage = "answer"]
            BY <2>2, <3>2, TypedParts DEF ExchangeLogin, Request
        <3> QED BY <2>2, <3>1, <3>2 DEF ExchangeLogin
    <2>3. ASSUME NEW r \in Requests, AnswerLogin(r)
          PROVE  request'[q] = request[q] \/ request'[q].stage = "idle"
        BY <2>3, EndAt DEF AnswerLogin, Idle
    <2>4. ASSUME (\E l \in Logins, asks \in BOOLEAN : StartLogin(l, asks)) \/ Logout \/ Expire
                 \/ UNCHANGED vars
          PROVE  request'[q] = request[q]
        BY <2>4 DEF StartLogin, Logout, Expire, vars
    <2> QED BY <2>1, <2>2, <2>3, <2>4 DEF LoggingIn
<1>3. RequestsOfBegun'
    BY <1>1, <1>2, DisjointAssumption DEF Granted, RequestsOfBegun
<1>4. FlowsByOwner' /\ StoredOfBegun' /\ StoredAsGranted'
    BY <1>1 DEF Granted, FlowsByOwner, StoredOfBegun, StoredAsGranted
<1> QED BY <1>3, <1>4 DEF Granted

LEMMA GrantedConnecting == Typed /\ Granted /\ Connecting => Granted'
<1> SUFFICES ASSUME Typed, Granted, Connecting PROVE Granted'
    OBVIOUS
<1> USE NoneAssumption, OwnerAssumption, DisjointAssumption
<1>1. ASSUME NEW r \in Requests, NEW f \in Flows, NEW v \in Servers, NEW s \in Services,
             BeginAuthorize(r, f, v, s)
      PROVE  Granted'
    <2> DEFINE new == [stage |-> IF s \in Hosted THEN "preparing" ELSE "consent",
                       server |-> v, service |-> s, user |-> cookies.session]
    <2>1. ASSUME NEW g \in Flows PROVE flow'[g] = IF g = f THEN new ELSE flow[g]
        BY <1>1, TypedParts DEF BeginAuthorize
    <2>2. flow[f].stage = "new" /\ cookies.session = Owner[v] /\ connection' = connection
        BY <1>1 DEF BeginAuthorize
    <2>3. FlowsByOwner'
        BY <2>1, <2>2 DEF Granted, FlowsByOwner
    <2>4. FlowsKept
        BY <2>1, <2>2 DEF FlowsKept
    <2>5. RequestsOfBegun'
        <3>1. CASE request' = request
            BY <2>4, <3>1 DEF Granted, RequestsOfBegun, FlowsKept
        <3>2. CASE Carry(r, "preparing", f, None, None)
            <4>1. ASSUME NEW q \in Requests
                  PROVE  request'[q] = request[q] \/ request'[q].of = f
                BY <3>2, TypedParts DEF Carry
            <4> QED BY <2>1, <2>4, <4>1 DEF Granted, RequestsOfBegun, FlowsKept
        <3> QED BY <1>1, <3>1, <3>2 DEF BeginAuthorize
    <2> QED BY <2>2, <2>3, <2>4, <2>5, StoredKept DEF Granted
<1>2. ASSUME NEW r \in Requests, Authorized(r) \/ FailAuthorize(r) PROVE Granted'
    <2> DEFINE f == request[r].of
    <2>1. f \in Flows /\ flow[f].stage # "new" /\ End(r) /\ connection' = connection
        BY <1>2, TypedParts DEF Authorized, FailAuthorize, RequestsFit, Granted, RequestsOfBegun
    <2>2. PICK stage \in {"consent", "failed"} : flow' = [flow EXCEPT ![f].stage = stage]
        BY <1>2 DEF Authorized, FailAuthorize
    <2>3. FlowsKept /\ FlowsByOwner'
        BY <2>1, <2>2, FlowStageAt DEF FlowsKept, Granted, FlowsByOwner
    <2>4. ASSUME NEW q \in Requests
          PROVE  request'[q] = request[q] \/ request'[q].stage = "idle"
        BY <2>1, EndAt DEF Idle
    <2>5. RequestsOfBegun'
        BY <2>3, <2>4 DEF Granted, RequestsOfBegun, FlowsKept
    <2> QED BY <2>1, <2>3, <2>5, StoredKept DEF Granted
<1>3. ASSUME NEW r \in Requests, NEW f \in Flows, ConnectCallback(r, f) PROVE Granted'
    <2>1. flow[f].stage # "new" /\ connection' = connection
          /\ flow' = [flow EXCEPT ![f].stage = "returned"]
        BY <1>3 DEF ConnectCallback
    <2>2. FlowsKept /\ FlowsByOwner'
        BY <2>1, FlowStageAt DEF FlowsKept, Granted, FlowsByOwner
    <2>3. RequestsOfBegun'
        <3>1. CASE request' = request
            BY <2>2, <3>1 DEF Granted, RequestsOfBegun, FlowsKept
        <3>2. CASE Carry(r, "exchange", f, None, cookies.context)
            <4>1. ASSUME NEW q \in Requests
                  PROVE  request'[q] = request[q] \/ request'[q].of = f
                BY <3>2, TypedParts DEF Carry
            <4> QED BY <2>1, <2>2, <4>1 DEF Granted, RequestsOfBegun, FlowsKept
        <3> QED BY <1>3, <3>1, <3>2 DEF ConnectCallback
    <2> QED BY <2>1, <2>2, <2>3, StoredKept DEF Granted
<1>4. ASSUME NEW r \in Requests, ExchangeCode(r) PROVE Granted'
    <2> DEFINE f == request[r].of
               at == <<flow[f].server, flow[f].service>>
    <2>1. f \in Flows /\ flow[f].stage # "new" /\ flow' = flow
        BY <1>4 DEF ExchangeCode, Granted, RequestsOfBegun
    <2>2. FlowsKept /\ FlowsByOwner'
        BY <2>1 DEF FlowsKept, Granted, FlowsByOwner
    <2>3. RequestsOfBegun'
        <3>1. CASE End(r)
            BY <2>1, <3>1, EndAt DEF Granted, RequestsOfBegun, Idle
        <3>2. CASE request' = [request EXCEPT ![r].stage = "answer"]
            <4>1. ASSUME NEW q \in Requests
                  PROVE  /\ request'[q].of = request[q].of
                         /\ request'[q].stage = request[q].stage \/ q = r
                BY <3>2, AnswerAt
            <4> QED BY <2>1, <4>1 DEF Granted, RequestsOfBegun
        <3> QED BY <1>4, <3>1, <3>2 DEF ExchangeCode
    <2>4. CASE connection' = connection
        BY <2>2, <2>3, <2>4, StoredKept DEF Granted
    <2>5. CASE Accepted(r) /\ connection' = [connection EXCEPT ![at] = Stored(r)]
        <3>1. flow[f].server \in Servers /\ flow[f].service \in Services
              /\ flow[f].user = Owner[flow[f].server]
            BY <2>1 DEF Granted, FlowsByOwner
        <3>2. Stored(r).tokens = f
              /\ (flow[f].service \in Hosted => Stored(r).client = f)
            BY <2>5 DEF Stored, Accepted
        <3>3. DOMAIN connection = Servers \X Services
            BY DEF Typed, TypeOK
        <3>4. ASSUME NEW v \in Servers, NEW s \in Services
              PROVE  connection'[<<v, s>>] = IF v = flow[f].server /\ s = flow[f].service
                                             THEN Stored(r) ELSE connection[<<v, s>>]
            BY <2>5, <3>1, <3>3
        <3>5. ASSUME NEW v \in Servers, NEW s \in Services, connection'[<<v, s>>] # NoConnection
              PROVE  LET c == connection'[<<v, s>>]
                     IN  /\ c.tokens \in Flows
                         /\ flow[c.tokens].stage # "new"
                         /\ flow[c.tokens].server = v
                         /\ flow[c.tokens].service = s
                         /\ flow[c.tokens].user = Owner[v]
                         /\ s \in Hosted => c.client = c.tokens
            <4>1. CASE v = flow[f].server /\ s = flow[f].service
                <5>1. connection'[<<v, s>>] = Stored(r)
                    BY <3>4, <4>1
                <5>2. connection'[<<v, s>>].tokens = f
                      /\ (s \in Hosted => connection'[<<v, s>>].client = f)
                    BY <3>2, <4>1, <5>1
                <5> HIDE DEF f
                <5> QED BY <2>1, <3>1, <4>1, <5>2
            <4>2. CASE ~(v = flow[f].server /\ s = flow[f].service)
                <5>1. connection'[<<v, s>>] = connection[<<v, s>>]
                    BY <3>4, <4>2
                <5>2. connection[<<v, s>>] # NoConnection
                    BY <3>5, <5>1
                <5>3. LET c == connection[<<v, s>>]
                      IN  /\ c.tokens \in Flows
                          /\ flow[c.tokens].stage # "new"
                          /\ flow[c.tokens].server = v
                          /\ flow[c.tokens].service = s
                          /\ flow[c.tokens].user = Owner[v]
                          /\ s \in Hosted => c.client = c.tokens
                    BY <5>2 DEF Granted, StoredOfBegun, StoredAsGranted
                <5> QED BY <5>1, <5>3
            <4> QED BY <4>1, <4>2
        <3>6. StoredOfBegun' /\ StoredAsGranted'
            BY <2>1, <3>5 DEF StoredOfBegun, StoredAsGranted
        <3> QED BY <2>2, <2>3, <3>6 DEF Granted
    <2> QED BY <1>4, <2>4, <2>5 DEF ExchangeCode
<1>5. ASSUME NEW r \in Requests, AnswerConnect(r) PROVE Granted'
    <2>1. flow' = flow /\ connection' = connection /\ End(r)
        BY <1>5 DEF AnswerConnect
    <2>2. FlowsKept /\ FlowsByOwner'
        BY <2>1 DEF FlowsKept, Granted, FlowsByOwner
    <2>3. RequestsOfBegun'
        BY <2>1, EndAt DEF Granted, RequestsOfBegun, Idle
    <2> QED BY <2>1, <2>2, <2>3, StoredKept DEF Granted
<1> QED BY <1>1, <1>2, <1>3, <1>4, <1>5 DEF Connecting

\* Whatever other flows and logins of the browser do, the tokens of a connection
\* are of a flow begun by the server's owner for that server and service, and the
\* client kept with them is the one they were issued to (oauth_callback).
THEOREM TokensStoredAsGranted == Spec => []StoredAsGranted
<1>1. Init => Typed /\ Granted
    BY TypedInit, GrantedInit
<1>2. Typed /\ Granted /\ [Next]_vars => Typed' /\ Granted'
    BY NextTyped, GrantedLoggingIn, GrantedConnecting DEF Next
<1>3. Granted => StoredAsGranted
    BY DEF Granted
<1> QED BY <1>1, <1>2, <1>3, PTL DEF Spec

-----------------------------------------------------------------------------
(* The path of a finished login is not taken by a later one.               *)

LEMMA LoginReturnsAt ==
    ASSUME Typed, NEW l \in Logins, NEW u \in Users, NEW m \in Logins,
           login' = [login EXCEPT ![l].stage = "returned", ![l].user = u]
    PROVE  /\ login'[m].after = login[m].after
           /\ login'[m].landed = login[m].landed
           /\ login'[m].stage = IF m = l THEN "returned" ELSE login[m].stage
BY TypedParts DEF LoginRecord

\* Those that a login comes after are finished, the path in the cookie is of none
\* of these, and a callback carries one that is not.
LoginsAfterDone ==
    /\ \A l \in Logins : login[l].after \subseteq done
    /\ \A l \in Logins : l \in done => login[l].stage # "new"
    /\ cookies.next \notin done

CarriedNext ==
    \A r \in Requests :
        request[r].stage \in {"exchange", "answer"} /\ request[r].of \in Logins =>
            /\ login[request[r].of].stage # "new"
            /\ request[r].next \notin login[request[r].of].after

NextSpent == LoginsAfterDone /\ CarriedNext /\ CompletedPathIsSpent

LEMMA NextSpentInit == Init => NextSpent
BY DEF Init, NextSpent, LoginsAfterDone, CarriedNext, CompletedPathIsSpent, Idle

LEMMA NextSpentLoggingIn == Typed /\ NextSpent /\ LoggingIn => NextSpent'
<1> SUFFICES ASSUME Typed, NextSpent, LoggingIn PROVE NextSpent'
    OBVIOUS
<1> USE NoneAssumption, DisjointAssumption
<1>0. done \subseteq Logins \cup Flows
    BY DEF Typed, TypeOK
<1>1. ASSUME NEW l \in Logins, NEW asks \in BOOLEAN, StartLogin(l, asks) PROVE NextSpent'
    <2>1. ASSUME NEW m \in Logins
          PROVE  /\ m # l => login'[m] = login[m]
                 /\ m = l => /\ login'[m].stage = "consent"
                             /\ login'[m].landed = None
                             /\ login'[m].after = done \cap Logins
        BY <1>1, TypedParts DEF StartLogin
    <2>2. login[l].stage = "new" /\ request' = request /\ done' = done
        BY <1>1 DEF StartLogin
    <2>3. cookies'.next = NextOf(l, asks)
        BY <1>1, TypedParts DEF StartLogin, Cookies
    <2>4. LoginsAfterDone'
        BY <2>1, <2>2, <2>3 DEF NextOf, NextSpent, LoginsAfterDone
    <2>5. CarriedNext'
        BY <2>1, <2>2 DEF NextSpent, CarriedNext
    <2>6. CompletedPathIsSpent'
        BY <2>1 DEF NextSpent, CompletedPathIsSpent
    <2> QED BY <2>4, <2>5, <2>6 DEF NextSpent
<1>2. ASSUME NEW r \in Requests, NEW l \in Logins, NEW u \in Users, LoginCallback(r, l, u)
      PROVE  NextSpent'
    <2>1. login' = [login EXCEPT ![l].stage = "returned", ![l].user = u]
          /\ done' = done /\ cookies' = cookies /\ login[l].stage # "new"
        BY <1>2 DEF LoginCallback
    <2>2. ASSUME NEW m \in Logins
          PROVE  /\ login'[m].after = login[m].after
                 /\ login'[m].landed = login[m].landed
                 /\ login'[m].stage = IF m = l THEN "returned" ELSE login[m].stage
        BY <2>1, LoginReturnsAt
    <2>0. \A m \in Logins : login[m].stage # "new" => login'[m].stage # "new"
        BY <2>2
    <2>3. LoginsAfterDone' /\ CompletedPathIsSpent'
        <3>1. CompletedPathIsSpent'
            BY <2>2 DEF NextSpent, CompletedPathIsSpent
        <3>2. \A m \in Logins : login'[m].after \subseteq done'
            BY <2>1, <2>2 DEF NextSpent, LoginsAfterDone
        <3>3. \A m \in Logins : m \in done' => login'[m].stage # "new"
            BY <2>0, <2>1 DEF NextSpent, LoginsAfterDone
        <3>4. cookies'.next \notin done'
            BY <2>1 DEF NextSpent, LoginsAfterDone
        <3> QED BY <3>1, <3>2, <3>3, <3>4 DEF LoginsAfterDone
    <2>4. CarriedNext'
        <3>1. CASE request' = request
            BY <2>0, <2>2, <3>1 DEF NextSpent, CarriedNext
        <3>2. CASE Carry(r, "exchange", l, cookies.next, None)
            <4>1. ASSUME NEW q \in Requests
                  PROVE  \/ request'[q] = request[q]
                         \/ request'[q].of = l /\ request'[q].next = cookies.next
                BY <3>2, TypedParts DEF Carry
            <4>2. cookies.next \notin login[l].after
                BY DEF NextSpent, LoginsAfterDone
            <4>3. ASSUME NEW q \in Requests, request'[q].stage \in {"exchange", "answer"},
                         request'[q].of \in Logins
                  PROVE  /\ login[request'[q].of].stage # "new"
                         /\ request'[q].next \notin login[request'[q].of].after
                BY <2>1, <4>1, <4>2, <4>3 DEF NextSpent, CarriedNext
            <4> QED BY <2>0, <2>2, <4>3 DEF CarriedNext
        <3> QED BY <1>2, <3>1, <3>2 DEF LoginCallback
    <2> QED BY <2>3, <2>4 DEF NextSpent
<1>3. ASSUME NEW r \in Requests, ExchangeLogin(r) PROVE NextSpent'
    <2>1. login' = login /\ done' = done /\ cookies' = cookies /\ request[r].stage = "exchange"
        BY <1>3 DEF ExchangeLogin
    <2>2. LoginsAfterDone' /\ CompletedPathIsSpent'
        BY <2>1 DEF NextSpent, LoginsAfterDone, CompletedPathIsSpent
    <2>3. CarriedNext'
        <3>1. CASE End(r)
            BY <2>1, <3>1, EndAt DEF NextSpent, CarriedNext, Idle
        <3>2. CASE request' = [request EXCEPT ![r].stage = "answer"]
            <4>1. ASSUME NEW q \in Requests
                  PROVE  /\ request'[q].of = request[q].of
                         /\ request'[q].next = request[q].next
                         /\ request'[q].stage = request[q].stage \/ q = r
                BY <3>2, AnswerAt
            <4> QED BY <2>1, <4>1 DEF NextSpent, CarriedNext
        <3> QED BY <1>3, <3>1, <3>2 DEF ExchangeLogin
    <2> QED BY <2>2, <2>3 DEF NextSpent
<1>4. ASSUME NEW r \in Requests, AnswerLogin(r) PROVE NextSpent'
    <2> DEFINE l == request[r].of
    <2>1. l \in Logins /\ End(r) /\ done' = done \cup {l}
          /\ login[l].stage # "new" /\ request[r].next \notin login[l].after
        BY <1>4 DEF AnswerLogin, NextSpent, CarriedNext
    <2>2. login' = [login EXCEPT ![l].landed = request[r].next]
        BY <1>4 DEF AnswerLogin
    <2>3. ASSUME NEW m \in Logins
          PROVE  /\ login'[m].after = login[m].after
                 /\ login'[m].stage = login[m].stage
                 /\ login'[m].landed = IF m = l THEN request[r].next ELSE login[m].landed
        <3> HIDE DEF l
        <3> QED BY <2>1, <2>2, TypedParts DEF LoginRecord
    <2>4. cookies'.next = None
        BY <1>4, TypedParts DEF AnswerLogin, AfterLogin, Cookies
    <2> HIDE DEF l
    <2>5. LoginsAfterDone'
        BY <1>0, <2>1, <2>3, <2>4 DEF NextSpent, LoginsAfterDone
    <2>6. CompletedPathIsSpent'
        BY <2>1, <2>3 DEF NextSpent, CompletedPathIsSpent
    <2>7. ASSUME NEW q \in Requests
          PROVE  request'[q] = request[q] \/ request'[q].stage = "idle"
        BY <2>1, EndAt DEF Idle
    <2>8. CarriedNext'
        BY <2>3, <2>7 DEF NextSpent, CarriedNext
    <2> QED BY <2>5, <2>6, <2>8 DEF NextSpent
<1>5. ASSUME Logout PROVE NextSpent'
    <2>1. cookies'.next = cookies.next
        BY <1>5, TypedParts DEF Logout, Cookies
    <2> QED BY <1>5, <2>1
            DEF Logout, NextSpent, LoginsAfterDone, CarriedNext, CompletedPathIsSpent
<1> QED BY <1>1, <1>2, <1>3, <1>4, <1>5 DEF LoggingIn

LEMMA NextSpentElsewhere ==
    Typed /\ NextSpent /\ (Connecting \/ Expire \/ UNCHANGED vars) => NextSpent'
<1> SUFFICES ASSUME Typed, NextSpent, Connecting \/ Expire \/ UNCHANGED vars
             PROVE  NextSpent'
    OBVIOUS
<1> USE NoneAssumption, DisjointAssumption
<1>1. login' = login
    BY DEF Connecting, BeginAuthorize, Authorized, FailAuthorize, ConnectCallback, ExchangeCode,
           AnswerConnect, Expire, vars
<1>2. cookies'.next \in {cookies.next, None}
    <2>1. \/ cookies' = cookies
          \/ \E f : cookies' = [cookies EXCEPT !.context = f]
          \/ cookies' = [cookies EXCEPT !.next = None]
          \/ cookies' = [cookies EXCEPT !.state = None, !.next = None]
        BY DEF Connecting, BeginAuthorize, Authorized, FailAuthorize, ConnectCallback,
               ExchangeCode, AnswerConnect, Expire, vars
    <2> QED BY <2>1, TypedParts DEF Cookies
<1>3. done \subseteq done' /\ done' \subseteq done \cup Flows /\ done \subseteq Logins \cup Flows
    BY DEF Connecting, BeginAuthorize, Authorized, FailAuthorize, ConnectCallback, ExchangeCode,
           AnswerConnect, Expire, vars, Typed, TypeOK
<1>4. ASSUME NEW q \in Requests
      PROVE  \/ request'[q] = request[q]
             \/ request'[q].stage \in {"idle", "preparing"}
             \/ request'[q].of \in Flows
    <2>1. ASSUME NEW r \in Requests, NEW f \in Flows, NEW v \in Servers, NEW s \in Services,
                 BeginAuthorize(r, f, v, s)
          PROVE  request'[q] = request[q] \/ request'[q].of \in Flows
        <3>1. CASE request' = request
            BY <3>1
        <3>2. CASE Carry(r, "preparing", f, None, None)
            BY <3>2, TypedParts DEF Carry
        <3> QED BY <2>1, <3>1, <3>2 DEF BeginAuthorize
    <2>2. ASSUME NEW r \in Requests, Authorized(r) \/ FailAuthorize(r) \/ AnswerConnect(r)
          PROVE  request'[q] = request[q] \/ request'[q].stage = "idle"
        BY <2>2, EndAt DEF Authorized, FailAuthorize, AnswerConnect, Idle
    <2>3. ASSUME NEW r \in Requests, NEW f \in Flows, ConnectCallback(r, f)
          PROVE  request'[q] = request[q] \/ request'[q].of \in Flows
        <3>1. CASE request' = request
            BY <3>1
        <3>2. CASE Carry(r, "exchange", f, None, cookies.context)
            BY <3>2, TypedParts DEF Carry
        <3> QED BY <2>3, <3>1, <3>2 DEF ConnectCallback
    <2>4. ASSUME NEW r \in Requests, ExchangeCode(r)
          PROVE  \/ request'[q] = request[q] \/ request'[q].stage = "idle"
                 \/ request'[q].of \in Flows
        <3>1. CASE End(r)
            BY <3>1, EndAt DEF Idle
        <3>2. CASE request' = [request EXCEPT ![r].stage = "answer"]
            BY <2>4, <3>2, TypedParts DEF ExchangeCode, Request
        <3> QED BY <2>4, <3>1, <3>2 DEF ExchangeCode
    <2>5. ASSUME Expire \/ UNCHANGED vars PROVE request'[q] = request[q]
        BY <2>5 DEF Expire, vars
    <2> QED BY <2>1, <2>2, <2>3, <2>4, <2>5 DEF Connecting
<1>5. cookies.next \in Logins \cup {None}
    BY CookiesTyped
<1>6. LoginsAfterDone'
    <2>1. cookies'.next \notin done'
        BY <1>2, <1>3, <1>5 DEF NextSpent, LoginsAfterDone
    <2> QED BY <1>1, <1>3, <2>1 DEF NextSpent, LoginsAfterDone
<1>7. CarriedNext' /\ CompletedPathIsSpent'
    BY <1>1, <1>4 DEF NextSpent, CarriedNext, CompletedPathIsSpent
<1> QED BY <1>6, <1>7 DEF NextSpent

\* No login is taken to a path that a login before it, and finished before it
\* began, had asked for: answering a login spends its cookies (discord_callback).
THEOREM FinishedPathsAreSpent == Spec => []CompletedPathIsSpent
<1>1. Init => Typed /\ NextSpent
    BY TypedInit, NextSpentInit
<1>2. Typed /\ NextSpent /\ [Next]_vars => Typed' /\ NextSpent'
    BY NextTyped, NextSpentLoggingIn, NextSpentElsewhere DEF Next
<1>3. NextSpent => CompletedPathIsSpent
    BY DEF NextSpent
<1> QED BY <1>1, <1>2, <1>3, PTL DEF Spec

-----------------------------------------------------------------------------
(* A flow is refused only if another one, or time, took its cookie.        *)

\* The cookie of a flow on its way that met no other one is its own.
CookieOfOpen ==
    /\ \A l \in OpenLogins \ crossed : cookies.state = l
    /\ \A f \in OpenFlows \ crossed : cookies.context = f

CarriedContext ==
    \A r \in Requests :
        /\ request[r].stage = "exchange"
        /\ request[r].of \in Flows
        /\ flow[request[r].of].service \in Hosted
        => request[r].context = request[r].of \/ request[r].of \in crossed \cup done

Met == CookieOfOpen /\ CarriedContext /\ RefusedOnlyWhenCrossed

LEMMA MetInit == Init => Met
BY DEF Init, Met, CookieOfOpen, CarriedContext, RefusedOnlyWhenCrossed, OpenLogins, OpenFlows,
       Idle

LEMMA MetLoggingIn == Typed /\ Met /\ LoggingIn => Met'
<1> SUFFICES ASSUME Typed, Met, LoggingIn PROVE Met'
    OBVIOUS
<1> USE NoneAssumption, DisjointAssumption
<1>1. ASSUME NEW l \in Logins, NEW asks \in BOOLEAN, StartLogin(l, asks) PROVE Met'
    <2>1. ASSUME NEW m \in Logins, m # l PROVE login'[m] = login[m]
        BY <1>1, <2>1, TypedParts DEF StartLogin
    <2>2. cookies'.state = l /\ cookies'.context = cookies.context
        BY <1>1, TypedParts DEF StartLogin, Cookies
    <2>3. UNCHANGED <<flow, request, refused, done>> /\ crossed' = crossed \cup (OpenLogins \ {l})
        BY <1>1 DEF StartLogin, Crosses
    <2>4. \A m \in OpenLogins' \ crossed' : m = l
        BY <2>1, <2>3 DEF OpenLogins
    <2>5. CookieOfOpen'
        BY <2>2, <2>3, <2>4 DEF Met, CookieOfOpen, OpenFlows
    <2>6. CarriedContext' /\ RefusedOnlyWhenCrossed'
        BY <2>3 DEF Met, CarriedContext, RefusedOnlyWhenCrossed
    <2> QED BY <2>5, <2>6 DEF Met
<1>2. ASSUME NEW r \in Requests, NEW l \in Logins, NEW u \in Users, LoginCallback(r, l, u)
      PROVE  Met'
    <2>1. /\ login' = [login EXCEPT ![l].stage = "returned", ![l].user = u]
          /\ login[l].stage # "new"
          /\ UNCHANGED <<cookies, flow, done, crossed>>
        BY <1>2 DEF LoginCallback
    <2>2. ASSUME NEW m \in Logins
          PROVE  login'[m].stage = IF m = l THEN "returned" ELSE login[m].stage
        BY <2>1, LoginReturnsAt
    <2>3. OpenLogins' = OpenLogins /\ OpenFlows' = OpenFlows
        <3>1. ASSUME NEW m \in Logins
              PROVE  (login'[m].stage # "new") <=> (login[m].stage # "new")
            <4>1. CASE m = l
                <5>1. login'[m].stage = "returned"
                    BY <2>2, <4>1
                <5>2. login[m].stage # "new"
                    BY <2>1, <4>1
                <5> QED BY <5>1, <5>2
            <4>2. CASE m # l
                BY <2>2, <4>2
            <4> QED BY <4>1, <4>2
        <3> QED BY <2>1, <3>1 DEF OpenLogins, OpenFlows
    <2>4. CookieOfOpen'
        BY <2>1, <2>3 DEF Met, CookieOfOpen
    <2>5. CarriedContext'
        <3>1. CASE request' = request
            BY <2>1, <3>1 DEF Met, CarriedContext
        <3>2. CASE Carry(r, "exchange", l, cookies.next, None)
            <4>1. ASSUME NEW q \in Requests
                  PROVE  request'[q] = request[q] \/ request'[q].of = l
                BY <3>2, TypedParts DEF Carry
            <4> QED BY <2>1, <4>1 DEF Met, CarriedContext
        <3> QED BY <1>2, <3>1, <3>2 DEF LoginCallback
    <2>6. RefusedOnlyWhenCrossed'
        <3>1. CASE cookies.state = l
            BY <1>2, <2>1, <3>1 DEF LoginCallback, Met, RefusedOnlyWhenCrossed
        <3>2. CASE cookies.state # l
            <4>1. l \in crossed \cup done
                BY <2>1, <3>2 DEF Met, CookieOfOpen, OpenLogins
            <4>2. refused' = refused \cup {l}
                BY <1>2, <3>2 DEF LoginCallback
            <4> QED BY <2>1, <4>1, <4>2 DEF Met, RefusedOnlyWhenCrossed
        <3> QED BY <3>1, <3>2
    <2> QED BY <2>4, <2>5, <2>6 DEF Met
<1>3. ASSUME NEW r \in Requests, ExchangeLogin(r) PROVE Met'
    <2>1. UNCHANGED <<cookies, login, flow, refused, done, crossed>> /\ request[r].of \in Logins
        BY <1>3 DEF ExchangeLogin
    <2>2. CookieOfOpen' /\ RefusedOnlyWhenCrossed'
        BY <2>1 DEF Met, CookieOfOpen, OpenLogins, OpenFlows, RefusedOnlyWhenCrossed
    <2>3. ASSUME NEW q \in Requests
          PROVE  \/ request'[q] = request[q] \/ request'[q].stage = "idle"
                 \/ request'[q].of \in Logins
        <3>1. CASE End(r)
            BY <3>1, EndAt DEF Idle
        <3>2. CASE request' = [request EXCEPT ![r].stage = "answer"]
            BY <2>1, <3>2, TypedParts DEF Request
        <3> QED BY <1>3, <3>1, <3>2 DEF ExchangeLogin
    <2>4. CarriedContext'
        BY <2>1, <2>3 DEF Met, CarriedContext
    <2> QED BY <2>2, <2>4 DEF Met
<1>4. ASSUME NEW r \in Requests, AnswerLogin(r) PROVE Met'
    <2> DEFINE l == request[r].of
    <2>1. /\ l \in Logins
          /\ End(r)
          /\ done' = done \cup {l}
          /\ crossed' = crossed \cup (OpenLogins \ {l})
          /\ UNCHANGED <<flow, refused>>
        BY <1>4 DEF AnswerLogin, Crosses
    <2>2. cookies'.context = cookies.context
        BY <1>4, TypedParts DEF AnswerLogin, AfterLogin, Cookies
    <2> HIDE DEF l
    <2>3. \A m \in Logins : login'[m].stage = login[m].stage
        BY <1>4, TypedParts DEF AnswerLogin, LoginRecord
    <2>4. OpenLogins' \ crossed' = {}
        BY <2>1, <2>3 DEF OpenLogins
    <2>5. OpenFlows' = OpenFlows
        BY <2>1 DEF OpenFlows
    <2>6. CookieOfOpen'
        BY <2>1, <2>2, <2>4, <2>5 DEF Met, CookieOfOpen
    <2>7. ASSUME NEW q \in Requests
          PROVE  request'[q] = request[q] \/ request'[q].stage = "idle"
        BY <2>1, EndAt DEF Idle
    <2>8. CarriedContext'
        BY <2>1, <2>7 DEF Met, CarriedContext
    <2>9. RefusedOnlyWhenCrossed'
        BY <2>1 DEF Met, RefusedOnlyWhenCrossed
    <2> QED BY <2>6, <2>8, <2>9 DEF Met
<1>5. ASSUME Logout PROVE Met'
    <2>1. cookies'.state = cookies.state /\ cookies'.context = cookies.context
        BY <1>5, TypedParts DEF Logout, Cookies
    <2> QED BY <1>5, <2>1 DEF Logout, Met, CookieOfOpen, OpenLogins, OpenFlows, CarriedContext,
                               RefusedOnlyWhenCrossed
<1> QED BY <1>1, <1>2, <1>3, <1>4, <1>5 DEF LoggingIn

LEMMA MetConnecting == Typed /\ Granted /\ Met /\ Connecting => Met'
<1> SUFFICES ASSUME Typed, Granted, Met, Connecting PROVE Met'
    OBVIOUS
<1> USE NoneAssumption, DisjointAssumption
<1>1. ASSUME NEW r \in Requests, NEW f \in Flows, NEW v \in Servers, NEW s \in Services,
             BeginAuthorize(r, f, v, s)
      PROVE  Met'
    <2> DEFINE new == [stage |-> IF s \in Hosted THEN "preparing" ELSE "consent",
                       server |-> v, service |-> s, user |-> cookies.session]
    <2>1. ASSUME NEW g \in Flows PROVE flow'[g] = IF g = f THEN new ELSE flow[g]
        BY <1>1, TypedParts DEF BeginAuthorize
    <2>2. flow[f].stage = "new" /\ UNCHANGED <<cookies, login, refused, done, crossed>>
        BY <1>1 DEF BeginAuthorize
    <2>3. OpenLogins' = OpenLogins /\ OpenFlows' = OpenFlows
        BY <2>1, <2>2 DEF OpenLogins, OpenFlows
    <2>4. CookieOfOpen' /\ RefusedOnlyWhenCrossed'
        BY <2>2, <2>3 DEF Met, CookieOfOpen, RefusedOnlyWhenCrossed
    <2>5. ASSUME NEW q \in Requests
          PROVE  request'[q] = request[q] \/ request'[q].stage = "preparing"
        <3>1. CASE request' = request
            BY <3>1
        <3>2. CASE Carry(r, "preparing", f, None, None)
            BY <3>2, TypedParts DEF Carry
        <3> QED BY <1>1, <3>1, <3>2 DEF BeginAuthorize
    <2>6. CarriedContext'
        <3>1. ASSUME NEW q \in Requests, request[q].stage = "exchange", request[q].of \in Flows
              PROVE  flow'[request[q].of] = flow[request[q].of]
            BY <2>1, <2>2, <3>1 DEF Granted, RequestsOfBegun
        <3> QED BY <2>2, <2>5, <3>1 DEF Met, CarriedContext
    <2> QED BY <2>4, <2>6 DEF Met
<1>2. ASSUME NEW r \in Requests, Authorized(r) PROVE Met'
    <2> DEFINE f == request[r].of
    <2>1. /\ f \in Flows
          /\ End(r)
          /\ flow' = [flow EXCEPT ![f].stage = "consent"]
          /\ crossed' = crossed \cup (OpenFlows \ {f})
          /\ UNCHANGED <<login, refused, done>>
        BY <1>2, TypedParts DEF Authorized, RequestsFit, Crosses
    <2>2. cookies'.state = cookies.state /\ cookies'.context = f
        BY <1>2, TypedParts DEF Authorized, WithContext, Cookies
    <2> HIDE DEF f
    <2>3. ASSUME NEW g \in Flows
          PROVE  /\ flow'[g].service = flow[g].service
                 /\ flow'[g].stage = IF g = f THEN "consent" ELSE flow[g].stage
        BY <2>1, TypedParts DEF FlowRecord
    <2>4. \A g \in OpenFlows' \ crossed' : g = f
        BY <2>1, <2>3 DEF OpenFlows
    <2>5. CookieOfOpen'
        BY <2>1, <2>2, <2>4 DEF Met, CookieOfOpen, OpenLogins
    <2>6. ASSUME NEW q \in Requests
          PROVE  request'[q] = request[q] \/ request'[q].stage = "idle"
        BY <2>1, EndAt DEF Idle
    <2>7. CarriedContext'
        BY <2>1, <2>3, <2>6 DEF Met, CarriedContext
    <2>8. RefusedOnlyWhenCrossed'
        BY <2>1 DEF Met, RefusedOnlyWhenCrossed
    <2> QED BY <2>5, <2>7, <2>8 DEF Met
<1>3. ASSUME NEW r \in Requests, FailAuthorize(r) PROVE Met'
    <2> DEFINE f == request[r].of
    <2>1. /\ f \in Flows
          /\ End(r)
          /\ flow' = [flow EXCEPT ![f].stage = "failed"]
          /\ UNCHANGED <<cookies, login, refused, done, crossed>>
        BY <1>3, TypedParts DEF FailAuthorize, RequestsFit
    <2> HIDE DEF f
    <2>3. ASSUME NEW g \in Flows
          PROVE  /\ flow'[g].service = flow[g].service
                 /\ flow'[g].stage = IF g = f THEN "failed" ELSE flow[g].stage
        BY <2>1, TypedParts DEF FlowRecord
    <2>4. OpenFlows' \subseteq OpenFlows /\ OpenLogins' = OpenLogins
        BY <2>1, <2>3 DEF OpenFlows, OpenLogins
    <2>5. CookieOfOpen'
        BY <2>1, <2>4 DEF Met, CookieOfOpen
    <2>6. ASSUME NEW q \in Requests
          PROVE  request'[q] = request[q] \/ request'[q].stage = "idle"
        BY <2>1, EndAt DEF Idle
    <2>7. CarriedContext'
        BY <2>1, <2>3, <2>6 DEF Met, CarriedContext
    <2>8. RefusedOnlyWhenCrossed'
        BY <2>1 DEF Met, RefusedOnlyWhenCrossed
    <2> QED BY <2>5, <2>7, <2>8 DEF Met
<1>4. ASSUME NEW r \in Requests, NEW f \in Flows, ConnectCallback(r, f) PROVE Met'
    <2>1. /\ flow[f].stage \in {"consent", "returned"}
          /\ flow' = [flow EXCEPT ![f].stage = "returned"]
          /\ UNCHANGED <<cookies, login, done, crossed>>
        BY <1>4 DEF ConnectCallback
    <2>2. ASSUME NEW g \in Flows
          PROVE  /\ flow'[g].service = flow[g].service
                 /\ flow'[g].stage = IF g = f THEN "returned" ELSE flow[g].stage
        BY <2>1, TypedParts DEF FlowRecord
    <2>3. OpenFlows' = OpenFlows /\ OpenLogins' = OpenLogins
        BY <2>1, <2>2 DEF OpenFlows, OpenLogins
    <2>4. CookieOfOpen'
        BY <2>1, <2>3 DEF Met, CookieOfOpen
    <2>5. flow[f].service \in Hosted => cookies.context = f \/ f \in crossed \cup done
        BY <2>1 DEF Met, CookieOfOpen, OpenFlows
    <2>6. CarriedContext'
        <3>1. CASE request' = request
            BY <2>1, <2>2, <3>1 DEF Met, CarriedContext
        <3>2. CASE Carry(r, "exchange", f, None, cookies.context)
            <4>1. ASSUME NEW q \in Requests
                  PROVE  \/ request'[q] = request[q]
                         \/ request'[q].of = f /\ request'[q].context = cookies.context
                BY <3>2, TypedParts DEF Carry
            <4> QED BY <2>1, <2>2, <2>5, <4>1 DEF Met, CarriedContext
        <3> QED BY <1>4, <3>1, <3>2 DEF ConnectCallback
    <2>7. RefusedOnlyWhenCrossed'
        <3>1. CASE refused' = refused
            BY <2>1, <3>1 DEF Met, RefusedOnlyWhenCrossed
        <3>2. CASE flow[f].service \in Hosted /\ cookies.context = None /\ refused' = refused \cup {f}
            BY <2>1, <2>5, <3>2 DEF Met, RefusedOnlyWhenCrossed
        <3> QED BY <1>4, <3>1, <3>2 DEF ConnectCallback
    <2> QED BY <2>4, <2>6, <2>7 DEF Met
<1>5. ASSUME NEW r \in Requests, ExchangeCode(r) PROVE Met'
    <2> DEFINE f == request[r].of
    <2>1. f \in Flows /\ request[r].stage = "exchange"
          /\ UNCHANGED <<cookies, login, flow, done, crossed>>
        BY <1>5 DEF ExchangeCode
    <2>2. CookieOfOpen'
        BY <2>1 DEF Met, CookieOfOpen, OpenLogins, OpenFlows
    <2>3. ASSUME NEW q \in Requests
          PROVE  request'[q] = request[q] \/ request'[q].stage # "exchange"
        <3>1. CASE End(r)
            BY <3>1, EndAt DEF Idle
        <3>2. CASE request' = [request EXCEPT ![r].stage = "answer"]
            BY <3>2, TypedParts DEF Request
        <3> QED BY <1>5, <3>1, <3>2 DEF ExchangeCode
    <2>4. CarriedContext'
        BY <2>1, <2>3 DEF Met, CarriedContext
    <2>5. RefusedOnlyWhenCrossed'
        <3>1. CASE refused' = refused
            BY <2>1, <3>1 DEF Met, RefusedOnlyWhenCrossed
        <3>2. CASE flow[f].service \in Hosted /\ request[r].context # f /\ refused' = refused \cup {f}
            BY <2>1, <3>2 DEF Met, CarriedContext, RefusedOnlyWhenCrossed
        <3> QED BY <1>5, <3>1, <3>2 DEF ExchangeCode
    <2> QED BY <2>2, <2>4, <2>5 DEF Met
<1>6. ASSUME NEW r \in Requests, AnswerConnect(r) PROVE Met'
    <2> DEFINE f == request[r].of
    <2>1. /\ f \in Flows
          /\ End(r)
          /\ done' = done \cup {f}
          /\ crossed \subseteq crossed'
          /\ UNCHANGED <<login, flow, refused>>
        BY <1>6 DEF AnswerConnect, Crosses
    <2> HIDE DEF f
    <2>2. OpenLogins' = OpenLogins /\ OpenFlows' = OpenFlows \ {f}
        BY <2>1 DEF OpenLogins, OpenFlows
    <2>3. CookieOfOpen'
        <3>1. CASE UNCHANGED <<cookies, crossed>>
            BY <2>2, <3>1 DEF Met, CookieOfOpen
        <3>2. CASE /\ cookies' = [cookies EXCEPT !.context = None]
                   /\ crossed' = crossed \cup (OpenFlows \ {f})
            <4>1. cookies'.state = cookies.state
                BY <3>2, TypedParts DEF Cookies
            <4> QED BY <2>2, <3>2, <4>1 DEF Met, CookieOfOpen
        <3> QED BY <1>6, <3>1, <3>2 DEF AnswerConnect, Crosses, f
    <2>4. ASSUME NEW q \in Requests
          PROVE  request'[q] = request[q] \/ request'[q].stage = "idle"
        BY <2>1, EndAt DEF Idle
    <2>5. CarriedContext'
        BY <2>1, <2>4 DEF Met, CarriedContext
    <2>6. RefusedOnlyWhenCrossed'
        BY <2>1 DEF Met, RefusedOnlyWhenCrossed
    <2> QED BY <2>3, <2>5, <2>6 DEF Met
<1> QED BY <1>1, <1>2, <1>3, <1>4, <1>5, <1>6 DEF Connecting

LEMMA MetExpire == Typed /\ Met /\ (Expire \/ UNCHANGED vars) => Met'
<1> SUFFICES ASSUME Typed, Met, Expire \/ UNCHANGED vars PROVE Met'
    OBVIOUS
<1>1. UNCHANGED <<login, flow, request, refused, done>> /\ crossed \subseteq crossed'
    BY DEF Expire, Crosses, vars
<1>2. OpenLogins' = OpenLogins /\ OpenFlows' = OpenFlows
    BY <1>1 DEF OpenLogins, OpenFlows
<1>3. /\ cookies'.state = cookies.state \/ OpenLogins \ {None} \subseteq crossed'
      /\ cookies'.context = cookies.context \/ OpenFlows \ {None} \subseteq crossed'
    BY TypedParts DEF Expire, Crosses, Cookies, vars
<1>4. None \notin OpenLogins /\ None \notin OpenFlows
    BY NoneAssumption DEF OpenLogins, OpenFlows
<1>5. CookieOfOpen'
    BY <1>1, <1>2, <1>3, <1>4 DEF Met, CookieOfOpen
<1>6. CarriedContext' /\ RefusedOnlyWhenCrossed'
    BY <1>1 DEF Met, CarriedContext, RefusedOnlyWhenCrossed
<1> QED BY <1>5, <1>6 DEF Met

\* A callback answers 400 for the sake of a cookie only where the answer to
\* another tab, or ten minutes, took that cookie, or to the reload of a callback
\* that had succeeded: no user is refused on their own (discord_callback,
\* oauth_callback).
THEOREM RefusalsAreCrossings == Spec => []RefusedOnlyWhenCrossed
<1>1. Init => Typed /\ Granted /\ Met
    BY TypedInit, GrantedInit, MetInit
<1>2. Typed /\ Granted /\ Met /\ [Next]_vars => Typed' /\ Granted' /\ Met'
    BY NextTyped, GrantedLoggingIn, GrantedConnecting, MetLoggingIn, MetConnecting, MetExpire
       DEF Next
<1>3. Met => RefusedOnlyWhenCrossed
    BY DEF Met
<1> QED BY <1>1, <1>2, <1>3, PTL DEF Spec
=============================================================================
