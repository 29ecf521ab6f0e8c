-------------------------- MODULE ConnectionsProofs -------------------------
(***************************************************************************)
(* Theorems about module Connections, for any users, any of the services,  *)
(* any number of requests and turns, with crashes or without, and any      *)
(* bounds: types, who owns a server, what a toolset accounts for, what     *)
(* becomes of refresh tokens, and that the store is a register of          *)
(* connections.                                                            *)
(***************************************************************************)
EXTENDS Connections, SequenceTheorems, TLAPS

-----------------------------------------------------------------------------
(* The service a turn is at.                                               *)

AllServices == {"airtable", "fireflies", "github", "notion", "posthog", "vercel"}

LEMMA Ranks ==
    /\ Rank("airtable") = 1 /\ Rank("fireflies") = 2 /\ Rank("github") = 3
    /\ Rank("notion") = 4 /\ Rank("posthog") = 5 /\ Rank("vercel") = 6
<1>1. DOMAIN Order = 1..6
    BY DEF Order
<1>2. /\ Order[1] = "airtable" /\ Order[2] = "fireflies" /\ Order[3] = "github"
      /\ Order[4] = "notion" /\ Order[5] = "posthog" /\ Order[6] = "vercel"
    BY DEF Order
<1>3. \A i \in DOMAIN Order : i = 1 \/ i = 2 \/ i = 3 \/ i = 4 \/ i = 5 \/ i = 6
    BY <1>1
<1>a. Rank("airtable") = 1
    <2>1. \A i \in DOMAIN Order : Order[i] = "airtable" <=> i = 1
        BY <1>2, <1>3
    <2> QED BY <1>1, <2>1 DEF Rank
<1>b. Rank("fireflies") = 2
    <2>1. \A i \in DOMAIN Order : Order[i] = "fireflies" <=> i = 2
        BY <1>2, <1>3
    <2> QED BY <1>1, <2>1 DEF Rank
<1>c. Rank("github") = 3
    <2>1. \A i \in DOMAIN Order : Order[i] = "github" <=> i = 3
        BY <1>2, <1>3
    <2> QED BY <1>1, <2>1 DEF Rank
<1>d. Rank("notion") = 4
    <2>1. \A i \in DOMAIN Order : Order[i] = "notion" <=> i = 4
        BY <1>2, <1>3
    <2> QED BY <1>1, <2>1 DEF Rank
<1>e. Rank("posthog") = 5
    <2>1. \A i \in DOMAIN Order : Order[i] = "posthog" <=> i = 5
        BY <1>2, <1>3
    <2> QED BY <1>1, <2>1 DEF Rank
<1>f. Rank("vercel") = 6
    <2>1. \A i \in DOMAIN Order : Order[i] = "vercel" <=> i = 6
        BY <1>2, <1>3
    <2> QED BY <1>1, <2>1 DEF Rank
<1> QED BY <1>a, <1>b, <1>c, <1>d, <1>e, <1>f

\* A set of services that is not empty has a first one.
LEMMA FirstService ==
    ASSUME NEW todo \in SUBSET AllServices, todo # {}
    PROVE  \E s \in todo : \A x \in todo : Rank(s) <= Rank(x)
<1>1. CASE "airtable" \in todo
    BY <1>1, Ranks DEF AllServices
<1>2. CASE "airtable" \notin todo /\ "fireflies" \in todo
    BY <1>2, Ranks DEF AllServices
<1>3. CASE "airtable" \notin todo /\ "fireflies" \notin todo /\ "github" \in todo
    BY <1>3, Ranks DEF AllServices
<1>4. CASE /\ "airtable" \notin todo /\ "fireflies" \notin todo /\ "github" \notin todo
           /\ "notion" \in todo
    BY <1>4, Ranks DEF AllServices
<1>5. CASE /\ "airtable" \notin todo /\ "fireflies" \notin todo /\ "github" \notin todo
           /\ "notion" \notin todo /\ "posthog" \in todo
    BY <1>5, Ranks DEF AllServices
<1>6. CASE todo = {"vercel"}
    BY <1>6, Ranks
<1> QED BY <1>1, <1>2, <1>3, <1>4, <1>5, <1>6 DEF AllServices

LEMMA CurrentInTodo ==
    ASSUME TypeOK, NEW t \in Turns, turn[t].todo # {}
    PROVE  Current(t) \in turn[t].todo /\ Current(t) \in Services
<1>1. turn[t].todo \in SUBSET Services
    BY DEF TypeOK
<1>2. turn[t].todo \in SUBSET AllServices
    BY <1>1, ServicesAssumption DEF AllServices
<1>3. \E s \in turn[t].todo : \A x \in turn[t].todo : Rank(s) <= Rank(x)
    BY <1>2, FirstService
<1>4. Current(t) \in turn[t].todo
    BY <1>3 DEF Current
<1> QED BY <1>1, <1>4

-----------------------------------------------------------------------------
(* Types.  A request knows its user and service when it needs them, and a  *)
(* turn that is at work is at a service it found connected.                *)

Asked(r) ==
    /\ request[r].stage \in {"lookup", "insert", "update", "exchange", "claimed"}
           => request[r].user \in Users
    /\ request[r].stage = "exchange" => request[r].service \in Services

AtWork(t) ==
    /\ turn[t].stage \in Busy => turn[t].todo # {}
    /\ \A s \in turn[t].todo : turn[t].held[s].grant # NoGrant
    /\ turn[t].stage \in {"refreshing", "reloading"} => Current(t) \in Refreshers

Stored(s) == connections[s] = NoConnection \/ connections[s].credentials.grant # NoGrant

Typed ==
    /\ TypeOK
    /\ \A r \in Requests : Asked(r)
    /\ \A t \in Turns : AtWork(t)
    /\ \A s \in Services : Stored(s)

USE DEF Resting, Stages, Busy

LEMMA NoneTyped ==
    /\ NoCredentials \in Credentials
    /\ NoConnection \in [credentials : Credentials, used : BOOLEAN]
    /\ NoTurn \in [stage : Busy \cup {"idle", "ready"}, todo : SUBSET Services,
                   held : [Services -> Credentials], tools : SUBSET Services,
                   missing : SUBSET Services]
    /\ NoRequest \in [stage : Stages, user : Users \cup {NoUser},
                      service : Services \cup {NoService}, name : Names \cup {NoName}]
BY DEF NoCredentials, NoConnection, NoTurn, NoRequest, Credentials, NoGrant, NoToken

LEMMA TypedInit == Init => Typed
<1> SUFFICES ASSUME Init PROVE Typed
    OBVIOUS
<1>1. TypeOK
    <2>1. grants \in Seq(Grant) /\ stranded \subseteq DOMAIN grants
        BY DEF Init
    <2> QED BY <2>1, NoneTyped DEF Init, TypeOK, Unclaimed
<1>2. \A r \in Requests : Asked(r)
    BY DEF Init, Asked, NoRequest
<1>3. \A t \in Turns : AtWork(t)
    BY DEF Init, AtWork, NoTurn
<1>4. \A s \in Services : Stored(s)
    BY DEF Init, Stored
<1> QED BY <1>1, <1>2, <1>3, <1>4 DEF Typed

\* What a step that leaves the turns and the grants alone must show.
LEMMA RequestStep ==
    ASSUME Typed,
           UNCHANGED <<turn, grants, stranded>>,
           server' \in [owner : Users \cup {NoUser}, name : Names \cup {NoName}],
           connections' \in [Services -> [credentials : Credentials, used : BOOLEAN]],
           request' \in [Requests -> [stage : Stages, user : Users \cup {NoUser},
                                      service : Services \cup {NoService},
                                      name : Names \cup {NoName}]],
           authorized' \subseteq Users \X Services,
           \A r \in Requests : Asked(r)',
           \A s \in Services : Stored(s)'
    PROVE  Typed'
<1>1. TypeOK'
    BY DEF Typed, TypeOK, Credentials
<1>2. \A t \in Turns : AtWork(t)'
    BY DEF Typed, AtWork, Current
<1> QED BY <1>1, <1>2 DEF Typed

\* What a step of one turn must show.
LEMMA TurnStep ==
    ASSUME Typed, NEW t \in Turns,
           UNCHANGED <<server, request, authorized>>,
           Len(grants') = Len(grants),
           grants' \in Seq(Grant),
           connections' \in [Services -> [credentials : Credentials, used : BOOLEAN]],
           NEW new \in [stage : Busy \cup {"idle", "ready"}, todo : SUBSET Services,
                        held : [Services -> Credentials], tools : SUBSET Services,
                        missing : SUBSET Services],
           turn' = [turn EXCEPT ![t] = new],
           stranded' \subseteq DOMAIN grants',
           AtWork(t)',
           \A s \in Services : Stored(s)'
    PROVE  Typed'
<1>0. Credentials' = Credentials
    BY DEF Credentials
<1>1. TypeOK'
    BY <1>0 DEF Typed, TypeOK
<1>2. \A r \in Requests : Asked(r)'
    BY DEF Typed, Asked
<1>3. \A x \in Turns : x # t => turn'[x] = turn[x]
    BY DEF Typed, TypeOK
<1>4. ASSUME NEW x \in Turns, x # t PROVE AtWork(x)'
    <2>1. Current(x)' = Current(x)
        BY <1>3, <1>4 DEF Current
    <2>2. AtWork(x)
        BY DEF Typed
    <2> QED BY <1>3, <1>4, <2>1, <2>2 DEF AtWork
<1> QED BY <1>1, <1>2, <1>4 DEF Typed

\* A busy turn holds credentials of the service it is at.
LEMMA HeldTyped ==
    ASSUME Typed, NEW t \in Turns, turn[t].stage \in Busy
    PROVE  /\ Current(t) \in turn[t].todo /\ Current(t) \in Services
           /\ Held(t) \in Credentials /\ Held(t).grant \in DOMAIN grants
           /\ grants[Held(t).grant] \in Grant
<1>1. Current(t) \in turn[t].todo /\ Current(t) \in Services
    BY CurrentInTodo DEF Typed, AtWork
<1>2. Held(t) \in Credentials
    BY <1>1 DEF Typed, TypeOK, Held
<1>3. Held(t).grant \in DOMAIN grants
    BY <1>1, <1>2 DEF Typed, TypeOK, AtWork, Held, Credentials, NoGrant
<1>4. grants[Held(t).grant] \in Grant
    BY <1>3 DEF Typed, TypeOK
<1> QED BY <1>1, <1>2, <1>3, <1>4

\* Going on to the next service.
LEMMA GoesOn ==
    ASSUME Typed, NEW t \in Turns, turn[t].stage \in Busy,
           turn' = [turn EXCEPT ![t] = WithTools(t)] \/ turn' = [turn EXCEPT ![t] = WithFailure(t)]
    PROVE  /\ \E new \in [stage : Busy \cup {"idle", "ready"}, todo : SUBSET Services,
                          held : [Services -> Credentials], tools : SUBSET Services,
                          missing : SUBSET Services] : turn' = [turn EXCEPT ![t] = new]
           /\ AtWork(t)'
           /\ turn'[t].held = turn[t].held
           /\ turn'[t].todo = turn[t].todo \ {Current(t)}
           /\ turn'[t].stage \in {"loading", "ready"}
           /\ \A x \in Turns : x # t => turn'[x] = turn[x]
<1>1. Current(t) \in Services
    BY HeldTyped
<1>2. turn[t] \in [stage : Busy \cup {"idle", "ready"}, todo : SUBSET Services,
                   held : [Services -> Credentials], tools : SUBSET Services,
                   missing : SUBSET Services]
    BY DEF Typed, TypeOK
<1>3. WithTools(t) \in [stage : Busy \cup {"idle", "ready"}, todo : SUBSET Services,
                   held : [Services -> Credentials], tools : SUBSET Services,
                   missing : SUBSET Services]
    BY <1>1, <1>2 DEF WithTools, Onward
<1>4. WithFailure(t) \in [stage : Busy \cup {"idle", "ready"}, todo : SUBSET Services,
                   held : [Services -> Credentials], tools : SUBSET Services,
                   missing : SUBSET Services]
    BY <1>1, <1>2 DEF WithFailure, Onward
<1>5. \/ turn'[t] = WithTools(t)
      \/ turn'[t] = WithFailure(t)
    BY DEF Typed, TypeOK
<1>6. /\ turn'[t].held = turn[t].held
      /\ turn'[t].todo = turn[t].todo \ {Current(t)}
      /\ turn'[t].stage = Onward(turn[t].todo \ {Current(t)})
    BY <1>2, <1>5 DEF WithTools, WithFailure
<1>7. AtWork(t)'
    BY <1>6 DEF AtWork, Onward, Typed
<1>8. \A x \in Turns : x # t => turn'[x] = turn[x]
    BY DEF Typed, TypeOK
<1> QED BY <1>3, <1>4, <1>6, <1>7, <1>8 DEF Onward

\* Answering a request, and taking down the name on the way.
LEMMA AnswerTyped ==
    ASSUME Typed, NEW r \in Requests, NEW stage \in Stages, NEW name \in Names \cup {NoName},
           \/ request' = [request EXCEPT ![r].stage = stage]
           \/ request' = [request EXCEPT ![r] =
                  [user |-> request[r].user, service |-> request[r].service,
                   name |-> name, stage |-> stage]]
    PROVE  /\ request' \in [Requests -> [stage : Stages, user : Users \cup {NoUser},
                                         service : Services \cup {NoService},
                                         name : Names \cup {NoName}]]
           /\ request'[r].stage = stage
           /\ request'[r].user = request[r].user
           /\ request'[r].service = request[r].service
           /\ \A x \in Requests : x # r => request'[x] = request[x]
<1>1. PICK q \in Names \cup {NoName} :
          request' = [request EXCEPT ![r] = [stage |-> stage, user |-> request[r].user,
                                             service |-> request[r].service, name |-> q]]
    <2>1. request[r] \in [stage : Stages, user : Users \cup {NoUser},
                          service : Services \cup {NoService}, name : Names \cup {NoName}]
        BY DEF Typed, TypeOK
    <2>2. [request[r] EXCEPT !.stage = stage] =
              [stage |-> stage, user |-> request[r].user,
               service |-> request[r].service, name |-> request[r].name]
        BY <2>1
    <2>3. \/ request' = [request EXCEPT ![r] = [request[r] EXCEPT !.stage = stage]]
          \/ request' = [request EXCEPT ![r] =
                 [user |-> request[r].user, service |-> request[r].service,
                  name |-> name, stage |-> stage]]
        OBVIOUS
    <2> QED BY <2>1, <2>2, <2>3
<1> QED BY <1>1 DEF Typed, TypeOK

LEMMA ClaimingTyped ==
    ASSUME Typed, NEW r \in Requests, Claiming(r)
    PROVE  Typed'
<1> USE DEF Typed, TypeOK
<1>1. ASSUME NEW u \in Users, BeginClaim(r, u) PROVE Typed'
    <2>1. request'[r].stage = "lookup" /\ request'[r].user = u
        BY <1>1 DEF BeginClaim, NoRequest
    <2>2. \A x \in Requests : Asked(x)'
        BY <1>1, <2>1 DEF BeginClaim, Asked
    <2>3. request' \in [Requests -> [stage : Stages, user : Users \cup {NoUser},
                             service : Services \cup {NoService},
                             name : Names \cup {NoName}]]
        BY <1>1, NoneTyped DEF BeginClaim, NoRequest
    <2>4. \A s \in Services : Stored(s)'
        BY <1>1 DEF BeginClaim, Stored
    <2> QED BY <1>1, <2>2, <2>3, <2>4, RequestStep DEF BeginClaim
<1>2. ASSUME NEW name \in Names \cup {NoName}, ReadServer(r, name) PROVE Typed'
    <2>1. NextName(name) \in Names \cup {NoName}
        BY DEF NextName
    <2>2. PICK stage \in {"insert", "conflict", "update", "claimed"} :
              request' = [request EXCEPT ![r] =
                  [user |-> request[r].user, service |-> request[r].service,
                   name |-> NextName(name), stage |-> stage]]
        BY <1>2 DEF ReadServer
    <2>3. request' \in [Requests -> [stage : Stages, user : Users \cup {NoUser},
                             service : Services \cup {NoService},
                             name : Names \cup {NoName}]]
        BY <2>1, <2>2, AnswerTyped
    <2>4. \A x \in Requests : Asked(x)'
        BY <1>2, <2>2 DEF ReadServer, Asked
    <2>5. \A s \in Services : Stored(s)'
        BY <1>2 DEF ReadServer, Stored
    <2> QED BY <1>2, <2>3, <2>4, <2>5, RequestStep DEF ReadServer
<1>3. ASSUME InsertServer(r) PROVE Typed'
    <2>1. /\ request[r].user \in Users
          /\ request[r].name \in Names \cup {NoName}
        BY <1>3 DEF InsertServer, Asked
    <2>2. PICK stage \in {"claimed", "error"} : request' = [request EXCEPT ![r].stage = stage]
        BY <1>3 DEF InsertServer, Answer
    <2>3. \A x \in Requests : Asked(x)'
        BY <1>3, <2>1, <2>2 DEF Asked
    <2>4. server' \in [owner : Users \cup {NoUser}, name : Names \cup {NoName}]
        BY <1>3, <2>1 DEF InsertServer
    <2>5. \A s \in Services : Stored(s)'
        BY <1>3 DEF InsertServer, Stored
    <2> QED BY <1>3, <2>2, <2>3, <2>4, <2>5, NoneTyped, AnswerTyped, RequestStep DEF InsertServer
<1>4. ASSUME UpdateServer(r) PROVE Typed'
    <2>2. request' = [request EXCEPT ![r].stage = "claimed"]
        BY <1>4 DEF UpdateServer, Answer
    <2>3. \A x \in Requests : Asked(x)'
        BY <1>4, <2>2 DEF Asked, UpdateServer
    <2>4. server' \in [owner : Users \cup {NoUser}, name : Names \cup {NoName}]
        BY <1>4 DEF UpdateServer
    <2>5. \A s \in Services : Stored(s)'
        BY <1>4 DEF UpdateServer, Stored
    <2> QED BY <1>4, <2>2, <2>3, <2>4, <2>5, AnswerTyped, RequestStep DEF UpdateServer
<1> QED BY <1>1, <1>2, <1>3, <1>4 DEF Claiming

LEMMA AuthorizeTyped ==
    ASSUME Typed, NEW u \in Users, NEW s \in Services, Authorize(u, s)
    PROVE  Typed'
<1>1. authorized' \subseteq Users \X Services
    BY DEF Authorize, Typed, TypeOK
<1>2. (\A r \in Requests : Asked(r)') /\ (\A x \in Services : Stored(x)')
    BY DEF Authorize, Typed, Asked, Stored
<1> QED BY <1>1, <1>2, RequestStep DEF Authorize, Typed, TypeOK

\* A new grant, stored by the request that asked for it.
LEMMA FinishConnectTyped ==
    ASSUME Typed, NEW r \in Requests, NEW refresh \in {NoToken, 1}, NEW rotates \in BOOLEAN,
           FinishConnect(r, refresh, rotates)
    PROVE  /\ Typed'
           /\ request[r].user \in Users /\ request[r].service \in Services
           /\ Len(grants') = Len(grants) + 1
           /\ \A g \in DOMAIN grants : grants'[g] = grants[g]
           /\ grants'[Len(grants) + 1] =
                  [service |-> request[r].service, user |-> request[r].user, access |-> 1,
                   refresh |-> refresh, dead |-> 0, rotates |-> rotates]
           /\ DOMAIN grants' = DOMAIN grants \cup {Len(grants) + 1}
<1> USE DEF Typed, TypeOK
<1> DEFINE s == request[r].service
           grant == [service |-> s, user |-> request[r].user, access |-> 1,
                     refresh |-> refresh, dead |-> 0, rotates |-> rotates]
<1>1. s \in Services /\ request[r].user \in Users
    BY DEF FinishConnect, Asked
<1>2. grant \in Grant
    BY <1>1 DEF Grant, NoToken
<1>3. grants' = Append(grants, grant)
    BY DEF FinishConnect
<1>4. /\ grants' \in Seq(Grant) /\ Len(grants') = Len(grants) + 1
      /\ \A g \in 1..Len(grants) : grants'[g] = grants[g]
      /\ grants'[Len(grants) + 1] = grant
    BY <1>2, <1>3, AppendProperties
<1>5. Len(grants) \in Nat /\ DOMAIN grants = 1..Len(grants)
    OBVIOUS
<1>6. DOMAIN grants' = 1..(Len(grants) + 1)
    BY <1>4
<1>7. Credentials \subseteq Credentials'
    BY <1>4, <1>5 DEF Credentials
<1>8. [grant |-> Len(grants'), access |-> 1, refresh |-> refresh] \in Credentials'
    BY <1>4, <1>5 DEF Credentials, NoToken
<1>9. connections' = [connections EXCEPT ![s] =
          [credentials |-> [grant |-> Len(grants'), access |-> 1, refresh |-> refresh],
           used |-> connections[s].used]]
    BY <1>1 DEF FinishConnect, Upsert
<1>10. connections' \in [Services -> [credentials : Credentials', used : BOOLEAN]]
    <2>1. connections[s].used \in BOOLEAN
        BY <1>1
    <2>2. connections \in [Services -> [credentials : Credentials', used : BOOLEAN]]
        BY <1>7
    <2> QED BY <1>1, <1>8, <1>9, <2>1, <2>2
<1>11. turn' \in [Turns -> [stage : Busy \cup {"idle", "ready"},
                            todo : SUBSET Services, held : [Services -> Credentials'],
                            tools : SUBSET Services, missing : SUBSET Services]]
    <2>1. turn' = turn
        BY DEF FinishConnect
    <2>2. \A t \in Turns : turn[t].held \in [Services -> Credentials']
        BY <1>7
    <2>3. \A t \in Turns : turn[t] \in [stage : Busy \cup {"idle", "ready"},
                            todo : SUBSET Services, held : [Services -> Credentials'],
                            tools : SUBSET Services, missing : SUBSET Services]
        BY <2>2
    <2> QED BY <2>1, <2>3
<1>12. request' = [request EXCEPT ![r].stage = "connected"]
    BY DEF FinishConnect, Answer
<1>13. request' \in [Requests -> [stage : Stages, user : Users \cup {NoUser},
                             service : Services \cup {NoService},
                             name : Names \cup {NoName}]]
    BY <1>12, AnswerTyped
<1>14. stranded' \subseteq DOMAIN grants'
    BY <1>5, <1>6 DEF FinishConnect
<1>15. TypeOK'
    BY <1>4, <1>10, <1>11, <1>13, <1>14 DEF FinishConnect
<1>16. \A x \in Requests : Asked(x)'
    BY <1>12 DEF Asked
<1>17. \A t \in Turns : AtWork(t)'
    BY DEF FinishConnect, AtWork, Current
<1>18. \A x \in Services : Stored(x)'
    BY <1>4, <1>5, <1>9 DEF Stored, NoGrant
<1> QED BY <1>1, <1>4, <1>5, <1>6, <1>15, <1>16, <1>17, <1>18

LEMMA ConnectingTyped ==
    ASSUME Typed, NEW r \in Requests, Connecting(r)
    PROVE  Typed'
<1>1. ASSUME NEW refresh \in {NoToken, 1}, NEW rotates \in BOOLEAN,
             FinishConnect(r, refresh, rotates)
      PROVE  Typed'
    BY <1>1, FinishConnectTyped
<1> USE DEF Typed, TypeOK
<1>2. ASSUME NEW u \in Users, NEW s \in Services, BeginConnect(r, u, s) PROVE Typed'
    <2>1. PICK stage \in {"exchange", "refused"} : request' = [request EXCEPT ![r] =
              [stage |-> stage, user |-> u, service |-> s, name |-> NoName]]
        BY <1>2 DEF BeginConnect
    <2>2. request' \in [Requests -> [stage : Stages, user : Users \cup {NoUser},
                             service : Services \cup {NoService},
                             name : Names \cup {NoName}]]
        BY <2>1
    <2>3. \A x \in Requests : Asked(x)'
        BY <2>1 DEF Asked
    <2>4. \A x \in Services : Stored(x)'
        BY <1>2 DEF BeginConnect, Stored
    <2> QED BY <1>2, <2>2, <2>3, <2>4, RequestStep DEF BeginConnect
<1>3. ASSUME NEW u \in Users, NEW s \in Services, Disconnect(r, u, s) PROVE Typed'
    <2>1. PICK stage \in {"disconnected", "refused"} : request' = [request EXCEPT ![r] =
              [stage |-> stage, user |-> u, service |-> s, name |-> NoName]]
        BY <1>3 DEF Disconnect
    <2>2. request' \in [Requests -> [stage : Stages, user : Users \cup {NoUser},
                             service : Services \cup {NoService},
                             name : Names \cup {NoName}]]
        BY <2>1
    <2>3. \A x \in Requests : Asked(x)'
        BY <2>1 DEF Asked
    <2>4. connections' = connections \/ connections' = [connections EXCEPT ![s] = NoConnection]
        BY <1>3 DEF Disconnect, Delete
    <2>5. connections' \in [Services -> [credentials : Credentials, used : BOOLEAN]]
        BY <2>4, NoneTyped
    <2>6. \A x \in Services : Stored(x)'
        BY <2>4 DEF Stored
    <2> QED BY <1>3, <2>2, <2>3, <2>5, <2>6, RequestStep DEF Disconnect
<1>4. ASSUME FailConnect(r) PROVE Typed'
    <2>1. request' = [request EXCEPT ![r].stage = "error"]
        BY <1>4 DEF FailConnect, Answer
    <2>2. \A x \in Requests : Asked(x)'
        BY <1>4, <2>1 DEF Asked
    <2>3. \A x \in Services : Stored(x)'
        BY <1>4 DEF FailConnect, Stored
    <2> QED BY <1>4, <2>1, <2>2, <2>3, AnswerTyped, RequestStep DEF FailConnect
<1> QED BY <1>2, <1>3, <1>1, <1>4 DEF Connecting

\* What a refresh that succeeds changes: the tokens of one grant, and the
\* credentials the turn holds for the service it is at.
Refreshes(t) ==
    /\ turn[t].stage = "refreshing"
    /\ Held(t).refresh # NoToken
    /\ Held(t).refresh = grants[Held(t).grant].refresh
    /\ grants' = [grants EXCEPT ![Held(t).grant] = Issued(@)]
    /\ turn' = [turn EXCEPT ![t] = WithTokens(t, Payload(grants[Held(t).grant]))]
    /\ UNCHANGED <<server, connections, request, authorized, stranded>>

LEMMA RefreshCases ==
    ASSUME NEW t \in Turns, Refresh(t)
    PROVE  \/ Refreshes(t)
           \/ /\ turn[t].stage = "refreshing"
              /\ turn' = [turn EXCEPT ![t] = WithFailure(t)]
              /\ UNCHANGED <<server, connections, request, authorized, grants, stranded>>
BY DEF Refresh, Refreshes

\* What a provider keeps of a grant it issues new tokens for.
LEMMA IssuedTyped ==
    ASSUME NEW grant \in Grant
    PROVE  /\ Issued(grant) \in Grant
           /\ Issued(grant).service = grant.service /\ Issued(grant).user = grant.user
           /\ Issued(grant).rotates = grant.rotates
           /\ Issued(grant).refresh = IF grant.rotates THEN grant.refresh + 1
                                                      ELSE grant.refresh
<1> DEFINE a == grant.access + 1
           r == IF grant.rotates THEN grant.refresh + 1 ELSE grant.refresh
<1>1. a \in Nat /\ r \in Nat
    BY DEF Grant
<1>2. Issued(grant) = [grant EXCEPT !.access = a, !.refresh = r]
    BY DEF Issued
<1> HIDE DEF a, r
<1> DEFINE new == [grant EXCEPT !.access = a, !.refresh = r]
<1>3. grant \in [service : Services, user : Users, access : Nat, refresh : Nat,
                 dead : Nat, rotates : BOOLEAN]
    BY DEF Grant
<1>4. new \in Grant
    BY <1>1, <1>3 DEF Grant
<1>5. /\ new.service = grant.service /\ new.user = grant.user
      /\ new.rotates = grant.rotates /\ new.refresh = r
    BY <1>3
<1> QED BY <1>2, <1>4, <1>5 DEF r

LEMMA RefreshesTyped ==
    ASSUME Typed, NEW t \in Turns, Refreshes(t)
    PROVE  /\ Typed'
           /\ DOMAIN grants' = DOMAIN grants
           /\ grants'[Held(t).grant] = Issued(grants[Held(t).grant])
           /\ \A g \in DOMAIN grants : g # Held(t).grant => grants'[g] = grants[g]
           /\ turn'[t].stage = "reloading"
           /\ turn'[t].todo = turn[t].todo
           /\ Current(t)' = Current(t)
           /\ turn'[t].held[Current(t)] = Merged(Held(t), Payload(grants[Held(t).grant]))
           /\ \A s \in Services : s # Current(t) => turn'[t].held[s] = turn[t].held[s]
           /\ \A x \in Turns : x # t => turn'[x] = turn[x]
<1> DEFINE g == Held(t).grant
           c == Merged(Held(t), Payload(grants[g]))
           held == [turn[t].held EXCEPT ![Current(t)] = c]
           new == [turn[t] EXCEPT !.stage = "reloading", !.held = held]
<1>1. /\ Current(t) \in turn[t].todo /\ Current(t) \in Services
      /\ Held(t) \in Credentials /\ g \in DOMAIN grants /\ grants[g] \in Grant
    BY HeldTyped DEF Refreshes
<1>2. /\ Issued(grants[g]) \in Grant
      /\ Payload(grants[g]).access \in Nat /\ Payload(grants[g]).refresh \in Nat
    <2>1. grants[g].access \in Nat /\ grants[g].refresh \in Nat /\ grants[g].rotates \in BOOLEAN
        BY <1>1 DEF Grant
    <2>2. Issued(grants[g]) \in Grant
        BY <1>1, IssuedTyped
    <2>3. Payload(grants[g]).access \in Nat /\ Payload(grants[g]).refresh \in Nat
        BY <2>1 DEF Payload, NoToken
    <2> QED BY <2>2, <2>3
<1>3. c \in Credentials /\ c.grant = g
    BY <1>1, <1>2 DEF Merged, Credentials
<1>4. /\ grants' = [grants EXCEPT ![g] = Issued(grants[g])]
      /\ turn' = [turn EXCEPT ![t] = new]
    <2>1. grants' = [grants EXCEPT ![g] = Issued(grants[g])]
        BY DEF Refreshes
    <2>2. turn' = [turn EXCEPT ![t] = new]
        BY DEF Refreshes, WithTokens
    <2> QED BY <2>1, <2>2
<1>5. /\ grants' \in Seq(Grant) /\ Len(grants') = Len(grants)
      /\ DOMAIN grants' = DOMAIN grants
      /\ grants'[g] = Issued(grants[g])
      /\ \A h \in DOMAIN grants : h # g => grants'[h] = grants[h]
    <2>1. grants \in Seq(Grant) /\ g \in 1..Len(grants)
        BY <1>1 DEF Typed, TypeOK
    <2> QED BY <1>2, <1>4, <2>1, ExceptSeq
<1>6. held \in [Services -> Credentials]
    BY <1>1, <1>3 DEF Typed, TypeOK
<1>7. new \in [stage : Busy \cup {"idle", "ready"}, todo : SUBSET Services,
               held : [Services -> Credentials], tools : SUBSET Services,
               missing : SUBSET Services]
    <2>1. turn[t] \in [stage : Busy \cup {"idle", "ready"}, todo : SUBSET Services,
                       held : [Services -> Credentials], tools : SUBSET Services,
                       missing : SUBSET Services]
        BY DEF Typed, TypeOK
    <2> HIDE DEF held
    <2> QED BY <1>6, <2>1
<1>8. /\ turn'[t] = new
      /\ \A x \in Turns : x # t => turn'[x] = turn[x]
    BY <1>4 DEF Typed, TypeOK
<1>9. turn'[t].stage = "reloading" /\ turn'[t].todo = turn[t].todo /\ turn'[t].held = held
    BY <1>8 DEF Typed, TypeOK
<1>10. Current(t)' = Current(t)
    BY <1>9 DEF Current
<1>11. /\ held[Current(t)] = c
       /\ \A s \in Services : s # Current(t) => held[s] = turn[t].held[s]
    BY <1>1 DEF Typed, TypeOK
<1>12. AtWork(t)'
    <2>1. AtWork(t)
        BY DEF Typed
    <2>2. turn[t].todo \subseteq Services
        BY DEF Typed, TypeOK
    <2>3. turn[t].held[Current(t)].grant = g
        BY DEF Held
    <2>4. \A s \in turn[t].todo : held[s].grant # NoGrant
        BY <1>1, <1>3, <1>11, <2>1, <2>2, <2>3 DEF AtWork
    <2>5. turn[t].stage = "refreshing"
        BY DEF Refreshes
    <2> QED BY <1>9, <1>10, <2>1, <2>4, <2>5 DEF AtWork
<1>13. Typed'
    <2>1. UNCHANGED <<server, connections, request, authorized, stranded>>
        BY DEF Refreshes
    <2>2. connections' \in [Services -> [credentials : Credentials, used : BOOLEAN]]
        BY <2>1 DEF Typed, TypeOK
    <2>3. stranded' \subseteq DOMAIN grants'
        BY <1>5, <2>1 DEF Typed, TypeOK
    <2>4. \A s \in Services : Stored(s)'
        BY <2>1 DEF Typed, Stored
    <2> HIDE DEF new
    <2> QED BY <1>4, <1>5, <1>7, <1>12, <2>1, <2>2, <2>3, <2>4, TurnStep
<1> QED BY <1>5, <1>8, <1>9, <1>10, <1>11, <1>13

\* A turn that goes on while the grants stay as they are.
LEMMA GoesOnTyped ==
    ASSUME Typed, NEW t \in Turns, turn[t].stage \in Busy,
           turn' = [turn EXCEPT ![t] = WithTools(t)] \/ turn' = [turn EXCEPT ![t] = WithFailure(t)],
           UNCHANGED <<server, request, authorized, grants>>,
           connections' \in [Services -> [credentials : Credentials, used : BOOLEAN]],
           stranded' \subseteq DOMAIN grants,
           \A s \in Services : Stored(s)'
    PROVE  Typed'
<1>1. PICK new \in [stage : Busy \cup {"idle", "ready"}, todo : SUBSET Services,
                    held : [Services -> Credentials], tools : SUBSET Services,
                    missing : SUBSET Services] : turn' = [turn EXCEPT ![t] = new]
    BY GoesOn
<1>2. AtWork(t)'
    BY GoesOn
<1>3. grants' \in Seq(Grant) /\ Len(grants') = Len(grants) /\ stranded' \subseteq DOMAIN grants'
    BY DEF Typed, TypeOK
<1> QED BY <1>1, <1>2, <1>3, TurnStep

LEMMA ToolsetTyped ==
    ASSUME Typed, NEW t \in Turns, Toolset(t)
    PROVE  Typed'
<1>c. connections \in [Services -> [credentials : Credentials, used : BOOLEAN]]
    BY DEF Typed, TypeOK
<1>g. grants \in Seq(Grant) /\ stranded \subseteq DOMAIN grants
    BY DEF Typed, TypeOK
<1>1. ASSUME Initialize(t) PROVE Typed'
    <2> DEFINE held == [s \in Services |-> connections[s].credentials]
               new == [stage |-> Onward(Listed), todo |-> Listed, held |-> held,
                       tools |-> {}, missing |-> {}]
    <2>1. new \in [stage : Busy \cup {"idle", "ready"}, todo : SUBSET Services,
                   held : [Services -> Credentials], tools : SUBSET Services,
                   missing : SUBSET Services]
        BY <1>c DEF Onward, Listed
    <2>2. turn' = [turn EXCEPT ![t] = new]
        BY <1>1 DEF Initialize
    <2>3. turn'[t] = new
        BY <2>2 DEF Typed, TypeOK
    <2>4. \A s \in Listed : held[s].grant # NoGrant
        BY DEF Listed, Connected, Typed, Stored
    <2>5. AtWork(t)'
        BY <2>3, <2>4 DEF AtWork, Onward
    <2>6. \A s \in Services : Stored(s)'
        BY <1>1 DEF Initialize, Typed, Stored
    <2> HIDE DEF new
    <2> QED BY <1>1, <1>c, <1>g, <2>1, <2>2, <2>5, <2>6, TurnStep DEF Initialize
<1>2. ASSUME LoadTools(t) PROVE Typed'
    <2>1. turn[t].stage = "loading"
        BY <1>2 DEF LoadTools
    <2>2. UNCHANGED <<server, connections, request, authorized, grants, stranded>>
        BY <1>2 DEF LoadTools
    <2>3. \A s \in Services : Stored(s)'
        BY <2>2 DEF Typed, Stored
    <2>4. CASE \/ turn' = [turn EXCEPT ![t] = WithTools(t)]
               \/ turn' = [turn EXCEPT ![t] = WithFailure(t)]
        BY <1>c, <1>g, <2>1, <2>2, <2>3, <2>4, GoesOnTyped
    <2>5. CASE /\ Current(t) \in Refreshers
               /\ turn' = [turn EXCEPT ![t].stage = "refreshing"]
        <3> DEFINE new == [turn[t] EXCEPT !.stage = "refreshing"]
        <3>1. turn' = [turn EXCEPT ![t] = new]
            BY <2>5
        <3>2. turn[t] \in [stage : Busy \cup {"idle", "ready"}, todo : SUBSET Services,
                   held : [Services -> Credentials], tools : SUBSET Services,
                   missing : SUBSET Services]
            BY DEF Typed, TypeOK
        <3>3. new \in [stage : Busy \cup {"idle", "ready"}, todo : SUBSET Services,
                   held : [Services -> Credentials], tools : SUBSET Services,
                   missing : SUBSET Services]
            BY <3>2
        <3>4. turn'[t] = new
            BY <3>1 DEF Typed, TypeOK
        <3>5. /\ turn'[t].stage = "refreshing" /\ turn'[t].todo = turn[t].todo
              /\ turn'[t].held = turn[t].held
            BY <3>2, <3>4
        <3>6. Current(t)' = Current(t)
            BY <3>5 DEF Current
        <3>7. AtWork(t)
            BY DEF Typed
        <3>8. AtWork(t)'
            BY <2>1, <2>5, <3>5, <3>6, <3>7 DEF AtWork
        <3> HIDE DEF new
        <3> QED BY <1>c, <1>g, <2>2, <2>3, <3>1, <3>3, <3>8, TurnStep
    <2> QED BY <1>2, <2>4, <2>5 DEF LoadTools
<1>3. ASSUME Refresh(t) PROVE Typed'
    <2>1. CASE Refreshes(t)
        BY <2>1, RefreshesTyped
    <2>2. CASE /\ turn[t].stage = "refreshing"
               /\ turn' = [turn EXCEPT ![t] = WithFailure(t)]
               /\ UNCHANGED <<server, connections, request, authorized, grants, stranded>>
        <3>1. \A s \in Services : Stored(s)'
            BY <2>2 DEF Typed, Stored
        <3> QED BY <1>c, <1>g, <2>2, <3>1, GoesOnTyped
    <2> QED BY <1>3, <2>1, <2>2, RefreshCases
<1>4. ASSUME Reload(t) PROVE Typed'
    <2>1. /\ Current(t) \in turn[t].todo /\ Current(t) \in Services
          /\ Held(t) \in Credentials /\ Held(t).grant \in DOMAIN grants
        BY <1>4, HeldTyped DEF Reload
    <2>2. AtWork(t)
        BY DEF Typed
    <2>3. Held(t).grant # NoGrant
        BY <2>1, <2>2 DEF AtWork, Held
    <2>4. CASE UNCHANGED stranded /\ Upsert(Current(t), Held(t))
               /\ turn' = [turn EXCEPT ![t] = WithTools(t)]
        <3>1. connections' = [connections EXCEPT ![Current(t)] =
                  [credentials |-> Held(t), used |-> connections[Current(t)].used]]
            BY <2>1, <2>4 DEF Upsert
        <3>2. connections' \in [Services -> [credentials : Credentials, used : BOOLEAN]]
            BY <1>c, <2>1, <3>1
        <3>3. \A s \in Services : Stored(s)'
            BY <1>c, <2>1, <2>3, <3>1 DEF Typed, Stored
        <3> QED BY <1>4, <1>g, <2>4, <3>2, <3>3, GoesOnTyped DEF Reload
    <2>5. CASE UNCHANGED connections /\ stranded' = stranded \cup Unsaved(t)
               /\ turn' = [turn EXCEPT ![t] = WithFailure(t)]
        <3>1. stranded' \subseteq DOMAIN grants
            BY <1>g, <2>1, <2>5 DEF Unsaved
        <3>2. \A s \in Services : Stored(s)'
            BY <2>5 DEF Typed, Stored
        <3> QED BY <1>4, <1>c, <2>5, <3>1, <3>2, GoesOnTyped DEF Reload
    <2> QED BY <1>4, <2>4, <2>5 DEF Reload
<1>5. ASSUME NEW s \in Services, UseTool(t, s) PROVE Typed'
    <2>1. \/ connections' = connections
          \/ /\ Connected(s)
             /\ connections' = [connections EXCEPT ![s] =
                   [credentials |-> connections[s].credentials, used |-> TRUE]]
        BY <1>5 DEF UseTool, Touch
    <2>c. connections[s] \in [credentials : Credentials, used : BOOLEAN]
              /\ connections[s].credentials \in Credentials
        BY <1>c
    <2>2. connections' \in [Services -> [credentials : Credentials, used : BOOLEAN]]
        <3> DEFINE touched == [credentials |-> connections[s].credentials, used |-> TRUE]
        <3>1. touched \in [credentials : Credentials, used : BOOLEAN]
            BY <2>c
        <3>2. connections' = connections \/ connections' = [connections EXCEPT ![s] = touched]
            BY <2>1
        <3> HIDE DEF touched
        <3> QED BY <1>c, <3>1, <3>2
    <2>3. \A x \in Services : Stored(x)'
        BY <1>c, <2>1 DEF Typed, Stored, Connected
    <2>4. \A r \in Requests : Asked(r)'
        BY <1>5 DEF UseTool, Typed, Asked
    <2> QED BY <1>5, <2>2, <2>3, <2>4, RequestStep DEF UseTool, Typed, TypeOK
<1>6. ASSUME Finish(t) PROVE Typed'
    <2>1. turn' = [turn EXCEPT ![t] = NoTurn] /\ turn'[t] = NoTurn
        BY <1>6 DEF Finish, Typed, TypeOK
    <2>2. AtWork(t)'
        BY <2>1 DEF AtWork, NoTurn
    <2>3. \A s \in Services : Stored(s)'
        BY <1>6 DEF Finish, Typed, Stored
    <2> QED BY <1>6, <1>c, <1>g, <2>1, <2>2, <2>3, NoneTyped, TurnStep DEF Finish
<1> QED BY <1>1, <1>2, <1>3, <1>4, <1>5, <1>6 DEF Toolset

LEMMA ExpireTyped ==
    ASSUME Typed, NEW g \in DOMAIN grants, Expire(g)
    PROVE  /\ Typed'
           /\ DOMAIN grants' = DOMAIN grants /\ Len(grants') = Len(grants)
           /\ \A h \in DOMAIN grants : /\ grants'[h].service = grants[h].service
                                       /\ grants'[h].user = grants[h].user
                                       /\ grants'[h].refresh = grants[h].refresh
                                       /\ grants'[h].rotates = grants[h].rotates
<1> DEFINE new == [grants[g] EXCEPT !.dead = grants[g].access]
<1>1. grants \in Seq(Grant) /\ g \in 1..Len(grants)
    BY DEF Typed, TypeOK
<1>2. grants[g] \in [service : Services, user : Users, access : Nat, refresh : Nat,
                     dead : Nat, rotates : BOOLEAN]
    <2>1. grants[g] \in Grant
        BY <1>1
    <2> QED BY <2>1 DEF Grant
<1>3. /\ new \in Grant
      /\ new.service = grants[g].service /\ new.user = grants[g].user
      /\ new.refresh = grants[g].refresh /\ new.rotates = grants[g].rotates
    BY <1>2 DEF Grant
<1>4. grants' = [grants EXCEPT ![g] = new]
    BY DEF Expire
<1> HIDE DEF new
<1>5. /\ grants' \in Seq(Grant) /\ Len(grants') = Len(grants)
      /\ DOMAIN grants' = DOMAIN grants
      /\ \A h \in 1..Len(grants) : grants'[h] = IF h = g THEN new ELSE grants[h]
    BY <1>1, <1>3, <1>4, ExceptSeq
<1>6. UNCHANGED <<server, connections, request, authorized, turn, stranded>>
    BY DEF Expire
<1>7. TypeOK'
    <2>1. Credentials' = Credentials
        BY <1>5 DEF Credentials
    <2> QED BY <1>5, <1>6, <2>1 DEF Typed, TypeOK
<1>8. /\ \A r \in Requests : Asked(r)'
      /\ \A t \in Turns : AtWork(t)'
      /\ \A s \in Services : Stored(s)'
    BY <1>6 DEF Typed, Asked, AtWork, Current, Stored
<1> QED BY <1>1, <1>3, <1>5, <1>7, <1>8 DEF Typed

LEMMA CrashTyped ==
    ASSUME Typed, Crash
    PROVE  Typed'
<1>1. stranded' \subseteq DOMAIN grants
    <2>1. \A t \in Reloading : Unsaved(t) \subseteq DOMAIN grants
        BY HeldTyped DEF Reloading, Unsaved
    <2> QED BY <2>1 DEF Crash, Typed, TypeOK
<1>2. TypeOK'
    <2>1. Credentials' = Credentials
        BY DEF Crash, Credentials
    <2> QED BY <1>1, <2>1, NoneTyped DEF Crash, Typed, TypeOK
<1>3. \A r \in Requests : Asked(r)'
    BY DEF Crash, Asked, NoRequest
<1>4. \A t \in Turns : AtWork(t)'
    BY DEF Crash, AtWork, NoTurn
<1>5. \A s \in Services : Stored(s)'
    BY DEF Crash, Typed, Stored
<1> QED BY <1>2, <1>3, <1>4, <1>5 DEF Typed

LEMMA TypedStep == Typed /\ [Next]_vars => Typed'
<1> SUFFICES ASSUME Typed, [Next]_vars PROVE Typed'
    OBVIOUS
<1>1. CASE \E r \in Requests : Claiming(r) \/ Connecting(r)
    BY <1>1, ClaimingTyped, ConnectingTyped
<1>2. CASE \E u \in Users, s \in Services : Authorize(u, s)
    BY <1>2, AuthorizeTyped
<1>3. CASE \E t \in Turns : Toolset(t)
    BY <1>3, ToolsetTyped
<1>4. CASE \E g \in DOMAIN grants : Expire(g)
    BY <1>4, ExpireTyped
<1>5. CASE Crash
    BY <1>5, CrashTyped
<1>6. CASE UNCHANGED vars
    <2>1. TypeOK'
        BY <1>6 DEF vars, Typed, TypeOK, Credentials
    <2>2. \A r \in Requests : Asked(r)'
        BY <1>6 DEF vars, Typed, Asked
    <2>3. \A t \in Turns : AtWork(t)'
        BY <1>6 DEF vars, Typed, AtWork, Current
    <2>4. \A s \in Services : Stored(s)'
        BY <1>6 DEF vars, Typed, Stored
    <2> QED BY <2>1, <2>2, <2>3, <2>4 DEF Typed
<1> QED BY <1>1, <1>2, <1>3, <1>4, <1>5, <1>6 DEF Next

\* Every variable of Connections keeps its type, a request knows its user and
\* service when it needs them, and a turn at work is at a service it found
\* connected (claim_server, oauth_callback, initialize).
THEOREM ConnectionsTyped == Spec => []Typed
BY TypedInit, TypedStep, PTL DEF Spec

\* Every variable of Connections keeps its type, and no credentials are of a
\* grant that no provider gave (upsert_connection).
THEOREM TypeCorrect == Spec => []TypeOK
<1>1. Typed => TypeOK
    BY DEF Typed
<1> QED BY <1>1, ConnectionsTyped, PTL

-----------------------------------------------------------------------------
(* A request that has passed the store's or the route's check is of the    *)
(* owner, and stays so while it waits for Discord or a provider.           *)

Backed(r) ==
    /\ request[r].stage \in {"claimed", "update", "exchange"} => server.owner = request[r].user
    /\ request[r].stage = "update" => request[r].name # NoName

Owned ==
    /\ Typed
    /\ server.owner = NoUser => server = Unclaimed
    /\ \A r \in Requests : Backed(r)
    /\ GrantsFromOwner

\* What a server keeps once it is claimed.
Settled ==
    server # Unclaimed => /\ server'.owner = server.owner
                          /\ server.name # NoName => server'.name # NoName

LEMMA OwnedInit == Init => Owned
<1> SUFFICES ASSUME Init PROVE Owned
    OBVIOUS
<1>1. \A r \in Requests : Backed(r)
    BY DEF Init, Backed, NoRequest
<1>2. GrantsFromOwner
    BY DEF Init, GrantsFromOwner
<1> QED BY <1>1, <1>2, TypedInit DEF Init, Owned, Unclaimed

\* The users of the grants are real ones.
LEMMA GrantUsers ==
    ASSUME Owned, NEW g \in DOMAIN grants
    PROVE  server.owner = grants[g].user /\ grants[g].user \in Users /\ server # Unclaimed
<1>1. grants[g] \in Grant
    BY DEF Owned, Typed, TypeOK
<1> QED BY <1>1, NoneAssumption DEF Owned, GrantsFromOwner, Grant, Unclaimed

\* A step that leaves server and grants alone must show its request only.
LEMMA RequestOwned ==
    ASSUME Owned, Typed', NEW r \in Requests, UNCHANGED <<server, grants>>,
           \A x \in Requests : x # r => request'[x] = request[x],
           Backed(r)'
    PROVE  Owned' /\ Settled
BY DEF Owned, Backed, GrantsFromOwner, Settled

\* Steps of the bot, the providers and the process leave requests and owners alone.
LEMMA OthersOwned ==
    ASSUME Owned, Typed', UNCHANGED <<server, request>>,
           DOMAIN grants' = DOMAIN grants,
           \A g \in DOMAIN grants : grants'[g].user = grants[g].user
    PROVE  Owned' /\ Settled
BY DEF Owned, Backed, GrantsFromOwner, Settled

LEMMA ClaimingOwned ==
    ASSUME Owned, NEW r \in Requests, Claiming(r)
    PROVE  Owned' /\ Settled
<1>t. Typed' /\ Typed /\ TypeOK
    BY ClaimingTyped DEF Owned, Typed
<1>1. ASSUME NEW u \in Users, BeginClaim(r, u) PROVE Owned' /\ Settled
    <2>1. /\ request'[r].stage = "lookup"
          /\ \A x \in Requests : x # r => request'[x] = request[x]
        BY <1>1, <1>t DEF BeginClaim, NoRequest, TypeOK
    <2> QED BY <1>1, <1>t, <2>1, RequestOwned DEF BeginClaim, Backed
<1>2. ASSUME NEW name \in Names \cup {NoName}, ReadServer(r, name) PROVE Owned' /\ Settled
    <2> DEFINE stage == IF server = Unclaimed THEN "insert"
                        ELSE IF server.owner # request[r].user THEN "conflict"
                        ELSE IF NextName(name) # server.name THEN "update"
                        ELSE "claimed"
    <2>1. request' = [request EXCEPT ![r] =
              [user |-> request[r].user, service |-> request[r].service,
               name |-> NextName(name), stage |-> stage]]
        BY <1>2 DEF ReadServer
    <2>2. /\ request'[r].user = request[r].user /\ request'[r].name = NextName(name)
          /\ request'[r].stage = stage
          /\ \A x \in Requests : x # r => request'[x] = request[x]
        BY <1>t, <2>1 DEF TypeOK
    <2>3. stage = "update" => NextName(name) # NoName
        BY DEF NextName
    <2>4. Backed(r)'
        BY <1>2, <2>2, <2>3 DEF ReadServer, Backed
    <2> QED BY <1>2, <1>t, <2>2, <2>4, RequestOwned DEF ReadServer
<1>3. ASSUME InsertServer(r) PROVE Owned' /\ Settled
    <2>1. request[r].user \in Users
        BY <1>3, <1>t DEF InsertServer, Typed, Asked
    <2>2. CASE server # Unclaimed
        <3>1. /\ request'[r].stage = "error"
              /\ \A x \in Requests : x # r => request'[x] = request[x]
            BY <1>3, <1>t, <2>2 DEF InsertServer, Answer, TypeOK
        <3> QED BY <1>3, <1>t, <2>2, <3>1, RequestOwned DEF InsertServer, Backed
    <2>3. CASE server = Unclaimed
        <3>1. /\ server' = [owner |-> request[r].user, name |-> request[r].name]
              /\ request' = [request EXCEPT ![r].stage = "claimed"]
              /\ grants' = grants
            BY <1>3, <2>3 DEF InsertServer, Answer
        <3>2. /\ request'[r].stage = "claimed" /\ request'[r].user = request[r].user
              /\ \A x \in Requests : x # r => request'[x] = request[x]
            BY <1>t, <3>1, AnswerTyped
        <3>3. \A x \in Requests : x # r => Backed(x)'
            <4>1. \A x \in Requests : request[x].stage \notin {"claimed", "update", "exchange"}
                BY <1>t, <2>3, NoneAssumption DEF Owned, Backed, Typed, Asked, Unclaimed
            <4> QED BY <3>2, <4>1 DEF Backed
        <3>4. Backed(r)'
            BY <3>1, <3>2 DEF Backed
        <3>5. GrantsFromOwner'
            BY <2>3, <3>1, GrantUsers DEF GrantsFromOwner
        <3>6. server'.owner # NoUser
            BY <2>1, <3>1, NoneAssumption
        <3> QED BY <1>t, <2>3, <3>3, <3>4, <3>5, <3>6 DEF Owned, Settled
    <2> QED BY <2>2, <2>3
<1>4. ASSUME UpdateServer(r) PROVE Owned' /\ Settled
    <2>1. /\ request[r].user \in Users /\ server.owner = request[r].user
          /\ request[r].name # NoName
        BY <1>4, <1>t DEF UpdateServer, Typed, Asked, Owned, Backed
    <2>2. /\ server'.owner = server.owner /\ server'.name = request[r].name
          /\ request' = [request EXCEPT ![r].stage = "claimed"]
          /\ grants' = grants
        BY <1>4, <1>t DEF UpdateServer, Answer, TypeOK
    <2>3. /\ request'[r].stage = "claimed" /\ request'[r].user = request[r].user
          /\ \A x \in Requests : x # r => request'[x] = request[x]
        BY <1>t, <2>2, AnswerTyped
    <2>4. \A x \in Requests : Backed(x)'
        BY <2>1, <2>2, <2>3 DEF Owned, Backed
    <2>5. GrantsFromOwner'
        BY <2>2 DEF Owned, GrantsFromOwner
    <2>6. server'.owner # NoUser
        BY <2>1, <2>2, NoneAssumption
    <2> QED BY <1>t, <2>1, <2>2, <2>4, <2>5, <2>6 DEF Owned, Settled
<1> QED BY <1>1, <1>2, <1>3, <1>4 DEF Claiming

LEMMA ConnectingOwned ==
    ASSUME Owned, NEW r \in Requests, Connecting(r)
    PROVE  Owned' /\ Settled
<1>t. Typed' /\ Typed /\ TypeOK
    BY ConnectingTyped DEF Owned, Typed
<1>1. ASSUME NEW u \in Users, NEW s \in Services, BeginConnect(r, u, s)
      PROVE  Owned' /\ Settled
    <2>1. /\ request'[r].user = u
          /\ request'[r].stage = IF Owns(u) THEN "exchange" ELSE "refused"
          /\ \A x \in Requests : x # r => request'[x] = request[x]
        BY <1>1, <1>t DEF BeginConnect, TypeOK
    <2>2. Backed(r)'
        BY <1>1, <2>1 DEF BeginConnect, Backed, Owns
    <2> QED BY <1>1, <1>t, <2>1, <2>2, RequestOwned DEF BeginConnect
<1>2. ASSUME NEW u \in Users, NEW s \in Services, Disconnect(r, u, s)
      PROVE  Owned' /\ Settled
    <2>1. /\ request'[r].stage \in {"disconnected", "refused"}
          /\ \A x \in Requests : x # r => request'[x] = request[x]
        BY <1>2, <1>t DEF Disconnect, TypeOK
    <2> QED BY <1>2, <1>t, <2>1, RequestOwned DEF Disconnect, Backed
<1>3. ASSUME NEW refresh \in {NoToken, 1}, NEW rotates \in BOOLEAN,
             FinishConnect(r, refresh, rotates)
      PROVE  Owned' /\ Settled
    <2>1. /\ request[r].stage = "exchange" /\ server' = server
          /\ request' = [request EXCEPT ![r].stage = "connected"]
        BY <1>3 DEF FinishConnect, Answer
    <2>2. /\ request'[r].stage = "connected"
          /\ \A x \in Requests : x # r => request'[x] = request[x]
        BY <1>t, <2>1, AnswerTyped
    <2>3. server.owner = request[r].user
        BY <2>1 DEF Owned, Backed
    <2>4. \A g \in DOMAIN grants' : grants'[g].user = server.owner
        <3>1. /\ DOMAIN grants' = DOMAIN grants \cup {Len(grants) + 1}
              /\ \A g \in DOMAIN grants : grants'[g] = grants[g]
              /\ grants'[Len(grants) + 1] =
                     [service |-> request[r].service, user |-> request[r].user, access |-> 1,
                      refresh |-> refresh, dead |-> 0, rotates |-> rotates]
            BY <1>3, <1>t, FinishConnectTyped
        <3>2. grants'[Len(grants) + 1].user = request[r].user
            BY <3>1
        <3> QED BY <2>3, <3>1, <3>2 DEF Owned, GrantsFromOwner
    <2>5. \A x \in Requests : Backed(x)'
        BY <2>1, <2>2 DEF Owned, Backed
    <2> QED BY <1>t, <2>1, <2>4, <2>5 DEF Owned, GrantsFromOwner, Settled
<1>4. ASSUME FailConnect(r) PROVE Owned' /\ Settled
    <2>1. request' = [request EXCEPT ![r].stage = "error"]
        BY <1>4 DEF FailConnect, Answer
    <2>2. /\ request'[r].stage = "error"
          /\ \A x \in Requests : x # r => request'[x] = request[x]
        BY <1>t, <2>1, AnswerTyped
    <2> QED BY <1>4, <1>t, <2>2, RequestOwned DEF FailConnect, Backed
<1> QED BY <1>1, <1>2, <1>3, <1>4 DEF Connecting

LEMMA ToolsetOwned ==
    ASSUME Owned, NEW t \in Turns, Toolset(t)
    PROVE  Owned' /\ Settled
<1>t. Typed' /\ Typed
    BY ToolsetTyped DEF Owned
<1>1. CASE Refreshes(t)
    <2>1. Held(t).grant \in DOMAIN grants /\ grants[Held(t).grant] \in Grant
        BY <1>1, <1>t, HeldTyped DEF Refreshes
    <2>2. DOMAIN grants' = DOMAIN grants
        BY <1>1, <1>t, RefreshesTyped
    <2>3. \A g \in DOMAIN grants : grants'[g].user = grants[g].user
        BY <1>1, <1>t, <2>1, RefreshesTyped, IssuedTyped
    <2> QED BY <1>1, <1>t, <2>2, <2>3, OthersOwned DEF Refreshes
<1>2. CASE UNCHANGED <<server, request, grants>>
    BY <1>2, <1>t, OthersOwned
<1> QED BY <1>1, <1>2, RefreshCases
        DEF Toolset, Initialize, LoadTools, Reload, UseTool, Finish

LEMMA OwnedStep == Owned /\ [Next]_vars => Owned' /\ Settled
<1> SUFFICES ASSUME Owned, [Next]_vars PROVE Owned' /\ Settled
    OBVIOUS
<1>t. Typed'
    BY TypedStep DEF Owned
<1>1. CASE \E r \in Requests : Claiming(r) \/ Connecting(r)
    BY <1>1, ClaimingOwned, ConnectingOwned
<1>2. CASE \E u \in Users, s \in Services : Authorize(u, s)
    BY <1>2, <1>t, OthersOwned DEF Authorize
<1>3. CASE \E t \in Turns : Toolset(t)
    BY <1>3, ToolsetOwned
<1>4. CASE \E g \in DOMAIN grants : Expire(g)
    <2>1. PICK g \in DOMAIN grants : Expire(g)
        BY <1>4
    <2> QED BY <1>t, <2>1, ExpireTyped, OthersOwned DEF Owned, Expire
<1>5. CASE Crash
    <2>1. \A r \in Requests : Backed(r)'
        BY <1>5 DEF Crash, Backed, NoRequest
    <2> QED BY <1>t, <1>5, <2>1 DEF Crash, Owned, GrantsFromOwner, Settled
<1>6. CASE UNCHANGED vars
    BY <1>t, <1>6, OthersOwned DEF vars
<1> QED BY <1>1, <1>2, <1>3, <1>4, <1>5, <1>6 DEF Next

\* A request that has passed its check is of the owner of the server until it
\* ends, and only owners obtain grants (claim_server, _get_owned_server).
THEOREM OwnersKept == Spec => []Owned
BY OwnedInit, OwnedStep, PTL DEF Spec

\* A user whose claim was answered with success owns the server, however
\* claims interleave (claim_server).
THEOREM ClaimersAreOwners == Spec => []ClaimersOwn
<1>1. Owned => ClaimersOwn
    BY DEF Owned, Backed, ClaimersOwn
<1> QED BY <1>1, OwnersKept, PTL

\* Credentials are only ever obtained for the owner of the server
\* (_get_owned_server, oauth_callback).
THEOREM GrantsAreOwners == Spec => []GrantsFromOwner
<1>1. Owned => GrantsFromOwner
    BY DEF Owned
<1> QED BY <1>1, OwnersKept, PTL

\* The owner of a server never changes, and a name once known is not forgotten
\* (claim_server).
THEOREM ClaimsAreFinal == Spec => ClaimsSettle
<1>1. Owned /\ [Next]_vars =>
          [server # Unclaimed => /\ server'.owner = server.owner
                                 /\ server.name # NoName => server'.name # NoName]_server
    BY OwnedStep DEF Settled
<1> QED BY <1>1, OwnersKept, PTL DEF Spec, ClaimsSettle

-----------------------------------------------------------------------------
(* What a toolset accounts for: a service found connected is still to do,  *)
(* has its tools in the toolset, or is missing from it.                    *)

Found(t) == {s \in Services : turn[t].held[s] # NoCredentials}
Accounted(t) ==
    turn[t].stage # "idle" =>
        /\ turn[t].todo \cup turn[t].tools \cup turn[t].missing = Found(t)
        /\ turn[t].todo \cap (turn[t].tools \cup turn[t].missing) = {}
        /\ turn[t].tools \cap turn[t].missing = {}
        /\ turn[t].stage = "ready" => turn[t].todo = {}

Accounts == Typed /\ \A t \in Turns : Accounted(t)

LEMMA AccountsInit == Init => Accounts
BY TypedInit DEF Init, Accounts, Accounted, NoTurn

\* A turn that goes on moves one service from those to do.
LEMMA GoesOnAccounted ==
    ASSUME Accounts, NEW t \in Turns, turn[t].stage \in Busy,
           turn' = [turn EXCEPT ![t] = WithTools(t)] \/ turn' = [turn EXCEPT ![t] = WithFailure(t)]
    PROVE  /\ Accounted(t)'
           /\ \A x \in Turns : x # t => turn'[x] = turn[x]
<1>1. Typed /\ Accounted(t) /\ turn[t].stage # "idle"
    BY DEF Accounts
<1>2. /\ turn'[t].held = turn[t].held
      /\ turn'[t].todo = turn[t].todo \ {Current(t)}
      /\ \A x \in Turns : x # t => turn'[x] = turn[x]
    BY <1>1, GoesOn
<1>3. Current(t) \in turn[t].todo
    BY <1>1, HeldTyped
<1>4. /\ turn[t] \in [stage : Busy \cup {"idle", "ready"}, todo : SUBSET Services,
                      held : [Services -> Credentials], tools : SUBSET Services,
                      missing : SUBSET Services]
      /\ turn'[t] = WithTools(t) \/ turn'[t] = WithFailure(t)
    BY <1>1 DEF Typed, TypeOK
<1>5. /\ turn'[t].stage = Onward(turn[t].todo \ {Current(t)})
      /\ \/ /\ turn'[t].tools = turn[t].tools \cup {Current(t)}
            /\ turn'[t].missing = turn[t].missing
         \/ /\ turn'[t].missing = turn[t].missing \cup {Current(t)}
            /\ turn'[t].tools = turn[t].tools
    BY <1>4 DEF WithTools, WithFailure
<1>6. Found(t)' = Found(t)
    BY <1>2 DEF Found
<1>7. turn'[t].stage = "ready" => turn'[t].todo = {}
    BY <1>2, <1>5 DEF Onward
<1>8. /\ turn[t].todo \cup turn[t].tools \cup turn[t].missing = Found(t)
      /\ turn[t].todo \cap (turn[t].tools \cup turn[t].missing) = {}
      /\ turn[t].tools \cap turn[t].missing = {}
    BY <1>1 DEF Accounted
<1>9. /\ turn'[t].todo \cup turn'[t].tools \cup turn'[t].missing = Found(t)
      /\ turn'[t].todo \cap (turn'[t].tools \cup turn'[t].missing) = {}
      /\ turn'[t].tools \cap turn'[t].missing = {}
    BY <1>2, <1>3, <1>5, <1>8
<1> QED BY <1>2, <1>6, <1>7, <1>9 DEF Accounted

LEMMA ToolsetAccounted ==
    ASSUME Accounts, NEW t \in Turns, Toolset(t)
    PROVE  Accounted(t)' /\ \A x \in Turns : x # t => turn'[x] = turn[x]
<1>t. Typed /\ TypeOK /\ Accounted(t)
    BY DEF Accounts, Typed
<1>1. CASE Initialize(t)
    <2> DEFINE held == [s \in Services |-> connections[s].credentials]
               new == [stage |-> Onward(Listed), todo |-> Listed, held |-> held,
                       tools |-> {}, missing |-> {}]
    <2>1. turn'[t] = new /\ \A x \in Turns : x # t => turn'[x] = turn[x]
        BY <1>t, <1>1 DEF Initialize, TypeOK
    <2>2. Found(t)' = {s \in Services : connections[s].credentials # NoCredentials}
        BY <2>1 DEF Found
    <2>3. \A s \in Services : Connected(s) <=> connections[s].credentials # NoCredentials
        <3>1. NoConnection.credentials = NoCredentials /\ NoCredentials.grant = NoGrant
            BY DEF NoConnection, NoCredentials
        <3>2. \A s \in Services : connections[s] = NoConnection
                                 \/ connections[s].credentials.grant # NoGrant
            BY <1>t DEF Typed, Stored
        <3> QED BY <3>1, <3>2 DEF Connected
    <2>4. Found(t)' = Listed
        BY <2>2, <2>3 DEF Listed
    <2> QED BY <2>1, <2>4 DEF Accounted, Onward
<1>2. CASE /\ turn[t].stage \in Busy
           /\ \/ turn' = [turn EXCEPT ![t] = WithTools(t)]
              \/ turn' = [turn EXCEPT ![t] = WithFailure(t)]
    BY <1>2, GoesOnAccounted
<1>3. CASE LoadTools(t) /\ turn' = [turn EXCEPT ![t].stage = "refreshing"]
    <2>1. /\ turn'[t] = [turn[t] EXCEPT !.stage = "refreshing"]
          /\ \A x \in Turns : x # t => turn'[x] = turn[x]
        BY <1>t, <1>3 DEF TypeOK
    <2>2. /\ turn'[t].stage = "refreshing" /\ turn'[t].todo = turn[t].todo
          /\ turn'[t].held = turn[t].held /\ turn'[t].tools = turn[t].tools
          /\ turn'[t].missing = turn[t].missing
        BY <1>t, <2>1 DEF TypeOK
    <2>3. turn[t].stage = "loading"
        BY <1>3 DEF LoadTools
    <2> QED BY <1>t, <2>1, <2>2, <2>3 DEF Accounted, Found
<1>4. CASE Refreshes(t)
    <2>1. /\ turn'[t].stage = "reloading" /\ turn'[t].todo = turn[t].todo
          /\ turn'[t].held[Current(t)] = Merged(Held(t), Payload(grants[Held(t).grant]))
          /\ \A s \in Services : s # Current(t) => turn'[t].held[s] = turn[t].held[s]
          /\ \A x \in Turns : x # t => turn'[x] = turn[x]
        BY <1>t, <1>4, RefreshesTyped
    <2>2. turn'[t].tools = turn[t].tools /\ turn'[t].missing = turn[t].missing
        BY <1>t, <1>4 DEF Refreshes, WithTokens, TypeOK
    <2>3. /\ Current(t) \in turn[t].todo /\ Current(t) \in Services /\ Held(t) \in Credentials
          /\ Held(t).grant \in DOMAIN grants
        BY <1>t, <1>4, HeldTyped DEF Refreshes
    <2>4. /\ turn'[t].held[Current(t)].grant = Held(t).grant
          /\ Held(t).grant # NoGrant
        <3>1. Held(t).grant # NoGrant
            BY <1>t, <2>3 DEF TypeOK, NoGrant
        <3> QED BY <2>1, <2>3, <3>1 DEF Merged, Credentials
    <2>5. turn'[t].held[Current(t)] # NoCredentials /\ turn[t].held[Current(t)] # NoCredentials
        BY <2>4 DEF NoCredentials, Held
    <2>6. Found(t)' = Found(t)
        BY <2>1, <2>3, <2>5 DEF Found
    <2>7. turn[t].stage = "refreshing"
        BY <1>4 DEF Refreshes
    <2> QED BY <1>t, <2>1, <2>2, <2>6, <2>7 DEF Accounted
<1>5. CASE turn' = turn
    BY <1>t, <1>5 DEF Accounted, Found
<1>6. CASE Finish(t)
    BY <1>t, <1>6 DEF Finish, Accounted, NoTurn, TypeOK
<1> QED BY <1>1, <1>2, <1>3, <1>4, <1>5, <1>6, RefreshCases
        DEF Toolset, LoadTools, Reload, UseTool

LEMMA AccountsStep == Accounts /\ [Next]_vars => Accounts'
<1> SUFFICES ASSUME Accounts, [Next]_vars PROVE Accounts'
    OBVIOUS
<1>t. Typed'
    BY TypedStep DEF Accounts
<1>1. CASE \E t \in Turns : Toolset(t)
    BY <1>1, <1>t, ToolsetAccounted DEF Accounts, Accounted, Found
<1>2. CASE turn' = turn
    BY <1>2, <1>t DEF Accounts, Accounted, Found
<1>3. CASE Crash
    BY <1>3, <1>t DEF Crash, Accounts, Accounted, NoTurn
<1> QED BY <1>1, <1>2, <1>3
        DEF Next, vars, Claiming, Connecting, Authorize, Expire, BeginClaim, ReadServer,
            InsertServer, UpdateServer, BeginConnect, FinishConnect, FailConnect, Disconnect

\* Every turn keeps account of the services it found connected
\* (IntegrationToolsetInitializer.initialize).
THEOREM AccountsKept == Spec => []Accounts
BY AccountsInit, AccountsStep, PTL DEF Spec

\* The toolset of a turn has the tools of every service that was connected or
\* says that it failed (IntegrationToolsetInitializer.initialize).
THEOREM NoServiceUnaccounted == Spec => []ToolsetAccountsForAll
<1>1. Accounts => ToolsetAccountsForAll
    BY DEF Accounts, Accounted, Found, ToolsetAccountsForAll
<1> QED BY <1>1, AccountsKept, PTL

-----------------------------------------------------------------------------
(* Which refresh tokens are lost.  Credentials that are kept somewhere are *)
(* of a grant for their service and no newer than what the provider has.   *)
(* A turn that has refreshed a grant and not yet saved it is the only one  *)
(* to have the newest token, if the provider rotates them.                 *)

Dated(s, credentials) ==
    LET g == credentials.grant
    IN  g # NoGrant => /\ grants[g].service = s
                       /\ credentials.refresh <= grants[g].refresh
                       /\ ~grants[g].rotates => credentials.refresh = grants[g].refresh

Behind(g, credentials) ==
    credentials.grant = g => credentials.refresh < grants[g].refresh

OnlyNewest(t) ==
    LET g == Held(t).grant
    IN  /\ Held(t).refresh = grants[g].refresh
        /\ grants[g].rotates =>
               /\ \A s \in Services : Behind(g, connections[s].credentials)
               /\ \A x \in Turns, s \in Services : x # t => Behind(g, turn[x].held[s])

Kept(s) ==
    LET g == connections[s].credentials.grant
    IN  \/ connections[s].credentials.refresh = grants[g].refresh
        \/ AboutToSave(g)
        \/ g \in stranded

Saved ==
    /\ Typed
    /\ \A s \in Services : Dated(s, connections[s].credentials)
    /\ \A t \in Turns, s \in Services : Dated(s, turn[t].held[s])
    /\ \A t \in Turns : turn[t].stage = "reloading" => OnlyNewest(t)
    /\ \A s \in Services : connections[s].credentials.grant # NoGrant => Kept(s)

LEMMA ConnectedHasGrant ==
    ASSUME Typed, NEW s \in Services
    PROVE  Connected(s) <=> connections[s].credentials.grant # NoGrant
<1>1. NoConnection.credentials.grant = NoGrant
    BY DEF NoConnection, NoCredentials
<1>2. connections[s] = NoConnection \/ connections[s].credentials.grant # NoGrant
    BY DEF Typed, Stored
<1> QED BY <1>1, <1>2 DEF Connected

\* The credentials a store or a turn has are of grants that were given.
LEMMA CopiesTyped ==
    ASSUME Typed
    PROVE  /\ \A s \in Services :
                  /\ connections[s].credentials \in Credentials
                  /\ connections[s].credentials.refresh \in Nat
                  /\ connections[s].credentials.grant # NoGrant =>
                         /\ connections[s].credentials.grant \in DOMAIN grants
                         /\ grants[connections[s].credentials.grant] \in Grant
           /\ \A t \in Turns, s \in Services :
                  /\ turn[t].held[s] \in Credentials
                  /\ turn[t].held[s].refresh \in Nat
                  /\ turn[t].held[s].grant # NoGrant =>
                         /\ turn[t].held[s].grant \in DOMAIN grants
                         /\ grants[turn[t].held[s].grant] \in Grant
<1>1. \A c \in Credentials : /\ c.refresh \in Nat
                             /\ c.grant # NoGrant => /\ c.grant \in DOMAIN grants
                                                     /\ grants[c.grant] \in Grant
    BY DEF Typed, TypeOK, Credentials, NoGrant
<1>2. \A s \in Services : connections[s].credentials \in Credentials
    BY DEF Typed, TypeOK
<1>3. \A t \in Turns, s \in Services : turn[t].held[s] \in Credentials
    BY DEF Typed, TypeOK
<1> QED BY <1>1, <1>2, <1>3

LEMMA SavedInit == Init => Saved
<1> SUFFICES ASSUME Init PROVE Saved
    OBVIOUS
<1>1. \A s \in Services : connections[s].credentials.grant = NoGrant
    BY DEF Init, NoConnection, NoCredentials
<1>2. \A t \in Turns, s \in Services : turn[t].held[s].grant = NoGrant
    BY DEF Init, NoTurn, NoCredentials
<1>3. \A t \in Turns : turn[t].stage = "idle"
    BY DEF Init, NoTurn
<1> QED BY <1>1, <1>2, <1>3, TypedInit DEF Saved, Dated

\* A step after which the store and the turns have copies of what was in the
\* store or with that turn, and that drops no token unnoticed.
LEMMA CopyingSaved ==
    ASSUME Saved, Typed',
           DOMAIN grants' = DOMAIN grants,
           \A g \in DOMAIN grants : /\ grants'[g].service = grants[g].service
                                    /\ grants'[g].refresh = grants[g].refresh
                                    /\ grants'[g].rotates = grants[g].rotates,
           \A s \in Services :
               connections'[s].credentials \in {connections[s].credentials, NoCredentials},
           \A t \in Turns, s \in Services :
               turn'[t].held[s] \in
                   {turn[t].held[s], connections[s].credentials, NoCredentials},
           \A t \in Turns : turn'[t].stage = "reloading" =>
                                turn[t].stage = "reloading" /\ turn'[t] = turn[t],
           stranded \subseteq stranded',
           \A t \in Turns : turn[t].stage = "reloading" =>
                                turn'[t] = turn[t] \/ Unsaved(t) \subseteq stranded'
    PROVE  Saved'
<1>t. Typed
    BY DEF Saved
<1>n. NoCredentials.grant = NoGrant /\ NoCredentials.refresh = NoToken
    BY DEF NoCredentials
<1>c. /\ \A s \in Services : connections[s].credentials.grant # NoGrant =>
             connections[s].credentials.grant \in DOMAIN grants
      /\ \A t \in Turns, s \in Services : turn[t].held[s].grant # NoGrant =>
             turn[t].held[s].grant \in DOMAIN grants
    BY <1>t, CopiesTyped
<1>1. \A s \in Services : Dated(s, connections[s].credentials)'
    BY <1>n, <1>c DEF Saved, Dated
<1>2. ASSUME NEW t \in Turns, NEW s \in Services PROVE Dated(s, turn[t].held[s])'
    <2>1. /\ Dated(s, turn[t].held[s]) /\ Dated(s, connections[s].credentials)
          /\ turn'[t].held[s] \in {turn[t].held[s], connections[s].credentials, NoCredentials}
        BY DEF Saved
    <2>2. CASE turn'[t].held[s] = turn[t].held[s]
        BY <1>c, <2>1, <2>2 DEF Dated
    <2>3. CASE turn'[t].held[s] = connections[s].credentials
        BY <1>c, <2>1, <2>3 DEF Dated
    <2>4. CASE turn'[t].held[s] = NoCredentials
        BY <1>n, <2>4 DEF Dated
    <2> QED BY <2>1, <2>2, <2>3, <2>4
<1>3. ASSUME NEW t \in Turns, turn'[t].stage = "reloading"
      PROVE  OnlyNewest(t)' /\ Held(t)' = Held(t)
    <2>1. OnlyNewest(t) /\ turn'[t] = turn[t] /\ turn[t].stage = "reloading"
        BY <1>3 DEF Saved
    <2>2. Held(t)' = Held(t)
        BY <2>1 DEF Held, Current
    <2>3. Held(t).grant \in DOMAIN grants
        BY <1>t, <2>1, HeldTyped
    <2>4. Held(t).grant # NoGrant
        BY <1>t, <2>3 DEF Typed, TypeOK, NoGrant
    <2> QED BY <1>n, <2>1, <2>2, <2>3, <2>4 DEF OnlyNewest, Behind
<1>4. ASSUME NEW s \in Services, connections'[s].credentials.grant # NoGrant
      PROVE  Kept(s)'
    <2> DEFINE g == connections[s].credentials.grant
    <2>1. /\ connections'[s].credentials = connections[s].credentials
          /\ g # NoGrant /\ g \in DOMAIN grants
        BY <1>4, <1>n, <1>c
    <2>2. Kept(s)
        BY <2>1 DEF Saved
    <2>3. CASE connections[s].credentials.refresh = grants[g].refresh
        BY <2>1, <2>3 DEF Kept
    <2>4. CASE g \in stranded
        BY <2>1, <2>4 DEF Kept
    <2>5. CASE AboutToSave(g)
        <3>1. PICK t \in Turns : /\ turn[t].stage = "reloading" /\ Held(t).grant = g
                                 /\ Held(t).refresh = grants[g].refresh
            BY <2>5 DEF AboutToSave
        <3>2. CASE turn'[t] = turn[t]
            <4>1. turn'[t].stage = "reloading" /\ Held(t)' = Held(t)
                BY <1>3, <3>1, <3>2
            <4> QED BY <2>1, <3>1, <4>1 DEF Kept, AboutToSave
        <3>3. CASE Unsaved(t) \subseteq stranded' /\ grants[g].rotates
            BY <2>1, <3>1, <3>3 DEF Kept, Unsaved
        <3>4. CASE ~grants[g].rotates
            <4>1. connections[s].credentials.refresh = grants[g].refresh
                BY <2>1, <3>4 DEF Saved, Dated
            <4> QED BY <2>3, <4>1
        <3> QED BY <3>1, <3>2, <3>3, <3>4
    <2> QED BY <2>2, <2>3, <2>4, <2>5 DEF Kept
<1> QED BY <1>1, <1>2, <1>3, <1>4 DEF Saved

\* A new grant, whose tokens the store alone has.
LEMMA FinishConnectSaved ==
    ASSUME Saved, NEW r \in Requests, NEW refresh \in {NoToken, 1}, NEW rotates \in BOOLEAN,
           FinishConnect(r, refresh, rotates)
    PROVE  Saved'
<1>t. Typed /\ TypeOK
    BY DEF Saved, Typed
<1>q. PICK q \in Services : q = request[r].service
    BY <1>t, FinishConnectTyped
<1>n. PICK new \in Nat : new = Len(grants) + 1
    BY <1>t DEF TypeOK
<1> DEFINE fresh == [grant |-> new, access |-> 1, refresh |-> refresh]
<1>1. /\ Typed' /\ Len(grants') = new
      /\ \A g \in DOMAIN grants : grants'[g] = grants[g]
      /\ grants'[new].service = q /\ grants'[new].refresh = refresh
      /\ new \notin DOMAIN grants /\ new # NoGrant
    <2>1. /\ Typed' /\ Len(grants') = new
          /\ \A g \in DOMAIN grants : grants'[g] = grants[g]
          /\ grants'[new] = [service |-> q, user |-> request[r].user, access |-> 1,
                             refresh |-> refresh, dead |-> 0, rotates |-> rotates]
        BY <1>t, <1>q, <1>n, FinishConnectTyped
    <2>2. new \notin DOMAIN grants /\ new # NoGrant
        BY <1>t, <1>n DEF TypeOK, NoGrant
    <2> QED BY <2>1, <2>2
<1>2. /\ connections'[q].credentials = fresh
      /\ \A s \in Services : s # q => connections'[s] = connections[s]
      /\ turn' = turn /\ stranded' = stranded
    BY <1>t, <1>q, <1>1 DEF FinishConnect, Upsert, TypeOK
<1>3. fresh.grant = new /\ fresh.refresh = refresh
    OBVIOUS
<1> HIDE DEF fresh
<1>c. /\ \A s \in Services : connections[s].credentials.grant # NoGrant =>
             connections[s].credentials.grant \in DOMAIN grants
      /\ \A t \in Turns, s \in Services : turn[t].held[s].grant # NoGrant =>
             turn[t].held[s].grant \in DOMAIN grants
    BY <1>t, CopiesTyped
<1>4. \A s \in Services : Dated(s, connections[s].credentials)'
    <2>1. Dated(q, connections[q].credentials)'
        BY <1>1, <1>2, <1>3 DEF Dated, NoToken
    <2>2. \A s \in Services : s # q => Dated(s, connections[s].credentials)'
        BY <1>1, <1>2, <1>c DEF Saved, Dated
    <2> QED BY <2>1, <2>2
<1>5. \A t \in Turns, s \in Services : Dated(s, turn[t].held[s])'
    BY <1>1, <1>2, <1>c DEF Saved, Dated
<1>6. \A t \in Turns : Held(t)' = Held(t)
    BY <1>2 DEF Held, Current
<1>7. ASSUME NEW t \in Turns, turn'[t].stage = "reloading" PROVE OnlyNewest(t)'
    <2>1. OnlyNewest(t) /\ turn[t].stage = "reloading"
        BY <1>2, <1>7 DEF Saved
    <2>2. Held(t).grant \in DOMAIN grants /\ Held(t).grant # new
        BY <1>t, <1>1, <2>1, HeldTyped
    <2> QED BY <1>1, <1>2, <1>3, <1>6, <2>1, <2>2 DEF OnlyNewest, Behind
<1>8. ASSUME NEW s \in Services, connections'[s].credentials.grant # NoGrant PROVE Kept(s)'
    <2>1. CASE s = q
        BY <1>1, <1>2, <1>3, <2>1 DEF Kept
    <2>2. CASE s # q
        <3> DEFINE g == connections[s].credentials.grant
        <3>1. Kept(s) /\ g \in DOMAIN grants /\ connections'[s] = connections[s]
            BY <1>2, <1>8, <1>c, <2>2 DEF Saved
        <3>2. AboutToSave(g) => AboutToSave(g)'
            BY <1>1, <1>2, <1>6, <3>1 DEF AboutToSave
        <3> QED BY <1>1, <1>2, <3>1, <3>2 DEF Kept, AboutToSave
    <2> QED BY <2>1, <2>2
<1> QED BY <1>1, <1>4, <1>5, <1>7, <1>8 DEF Saved

\* A turn gets the newest token; where the provider rotates them it is the only
\* one to have it.
LEMMA RefreshesSaved ==
    ASSUME Saved, NEW t \in Turns, Refreshes(t)
    PROVE  Saved'
<1>t. Typed /\ TypeOK
    BY DEF Saved, Typed
<1>q. PICK q \in Services, g \in DOMAIN grants : q = Current(t) /\ g = Held(t).grant
    BY <1>t, HeldTyped DEF Refreshes
<1> DEFINE payload == Payload(grants[g])
           c == Merged(Held(t), payload)
<1>1. /\ Typed' /\ DOMAIN grants' = DOMAIN grants
      /\ grants'[g] = Issued(grants[g])
      /\ \A h \in DOMAIN grants : h # g => grants'[h] = grants[h]
      /\ turn'[t].stage = "reloading" /\ Current(t)' = q
      /\ turn'[t].held[q] = c
      /\ \A s \in Services : s # q => turn'[t].held[s] = turn[t].held[s]
      /\ \A x \in Turns : x # t => turn'[x] = turn[x]
    BY <1>t, <1>q, RefreshesTyped
<1>2. /\ Held(t) \in Credentials /\ grants[g] \in Grant /\ g # NoGrant /\ turn[t].stage = "refreshing"
      /\ Held(t) = turn[t].held[q] /\ Held(t).refresh = grants[g].refresh
      /\ UNCHANGED <<connections, stranded>>
    <2>1. turn[t].stage = "refreshing"
        BY DEF Refreshes
    <2>2. Held(t) \in Credentials /\ grants[g] \in Grant
        BY <1>t, <1>q, <2>1, HeldTyped
    <2>3. g # NoGrant
        BY <1>t DEF TypeOK, NoGrant
    <2> QED BY <1>q, <2>1, <2>2, <2>3 DEF Refreshes, Held
<1>3. /\ grants'[g].service = grants[g].service /\ grants'[g].rotates = grants[g].rotates
      /\ grants'[g].refresh = IF grants[g].rotates THEN grants[g].refresh + 1
                                                   ELSE grants[g].refresh
      /\ grants[g].refresh \in Nat /\ grants[g].rotates \in BOOLEAN
      /\ grants[g].service = q
    <2>1. grants[g].service = q
        BY <1>q, <1>2 DEF Saved, Dated
    <2> QED BY <1>1, <1>2, <2>1, IssuedTyped DEF Grant
<1>4. c.grant = g /\ c.refresh = grants'[g].refresh
    <2>1. payload.refresh = IF grants[g].rotates THEN grants[g].refresh + 1 ELSE NoToken
        BY DEF Payload
    <2>2. /\ c.grant = g
          /\ c.refresh = IF payload.refresh # NoToken THEN payload.refresh ELSE Held(t).refresh
        BY <1>q, <1>2 DEF Merged, Credentials
    <2>3. CASE grants[g].rotates
        <3>1. grants[g].refresh + 1 # NoToken
            BY <1>3 DEF NoToken
        <3> QED BY <1>3, <2>1, <2>2, <2>3, <3>1
    <2>4. CASE ~grants[g].rotates
        BY <1>2, <1>3, <2>1, <2>2, <2>4
    <2> QED BY <2>3, <2>4
<1> HIDE DEF c, payload
<1>c. /\ \A s \in Services :
             /\ connections[s].credentials.refresh \in Nat
             /\ connections[s].credentials.grant # NoGrant =>
                    connections[s].credentials.grant \in DOMAIN grants
      /\ \A x \in Turns, s \in Services :
             /\ turn[x].held[s].refresh \in Nat
             /\ turn[x].held[s].grant # NoGrant => turn[x].held[s].grant \in DOMAIN grants
    BY <1>t, CopiesTyped
<1>h. Held(t)' = c
    BY <1>1, <1>q DEF Held
<1>5. ASSUME NEW s \in Services PROVE Dated(s, connections[s].credentials)'
    <2>1. Dated(s, connections[s].credentials)
        BY DEF Saved
    <2> QED BY <1>1, <1>2, <1>3, <1>c, <2>1 DEF Dated
<1>6. ASSUME NEW x \in Turns, NEW s \in Services PROVE Dated(s, turn[x].held[s])'
    <2>1. Dated(s, turn[x].held[s])
        BY DEF Saved
    <2>2. CASE x = t /\ s = q
        BY <1>1, <1>2, <1>3, <1>4, <2>2 DEF Dated
    <2>3. CASE ~(x = t /\ s = q)
        <3>1. turn'[x].held[s] = turn[x].held[s]
            BY <1>1, <2>3
        <3> QED BY <1>1, <1>3, <1>c, <2>1, <3>1 DEF Dated
    <2> QED BY <2>2, <2>3
<1>7. OnlyNewest(t)'
    <2>1. Held(t)'.refresh = grants'[g].refresh /\ Held(t)'.grant = g
        BY <1>4, <1>h
    <2>2. ASSUME grants[g].rotates, NEW s \in Services PROVE Behind(g, connections[s].credentials)'
        <3>1. Dated(s, connections[s].credentials)
            BY DEF Saved
        <3> QED BY <1>2, <1>3, <1>c, <2>2, <3>1 DEF Dated, Behind
    <2>3. ASSUME grants[g].rotates, NEW x \in Turns, NEW s \in Services, x # t
          PROVE  Behind(g, turn[x].held[s])'
        <3>1. Dated(s, turn[x].held[s])
            BY DEF Saved
        <3> QED BY <1>1, <1>2, <1>3, <1>c, <2>3, <3>1 DEF Dated, Behind
    <2> QED BY <1>3, <2>1, <2>2, <2>3 DEF OnlyNewest, Behind
<1>8. ASSUME NEW x \in Turns, turn'[x].stage = "reloading", x # t PROVE OnlyNewest(x)'
    <2>1. /\ turn'[x] = turn[x] /\ turn[x].stage = "reloading" /\ OnlyNewest(x)
        BY <1>1, <1>8 DEF Saved
    <2>2. Held(x)' = Held(x)
        BY <2>1 DEF Held, Current
    <2>3. PICK h \in DOMAIN grants : h = Held(x).grant
        BY <1>t, <2>1, HeldTyped
    <2>4. CASE h # g
        <3>1. grants'[h] = grants[h]
            BY <1>1, <2>3, <2>4
        <3>2. \A y \in Turns, s \in Services : Behind(h, turn[y].held[s])
                                                => Behind(h, turn[y].held[s])'
            BY <1>1, <1>4, <2>4, <3>1 DEF Behind
        <3>3. \A s \in Services : Behind(h, connections[s].credentials)
                                    => Behind(h, connections[s].credentials)'
            BY <1>2, <3>1 DEF Behind
        <3> QED BY <2>1, <2>2, <2>3, <3>1, <3>2, <3>3 DEF OnlyNewest
    <2>5. CASE h = g /\ grants[g].rotates
        <3>1. Behind(g, turn[t].held[q])
            BY <1>2, <1>8, <2>1, <2>3, <2>5 DEF OnlyNewest
        <3> QED BY <1>q, <1>2, <1>3, <3>1 DEF Behind
    <2>6. CASE h = g /\ ~grants[g].rotates
        BY <1>3, <2>1, <2>2, <2>3, <2>6 DEF OnlyNewest
    <2> QED BY <1>3, <2>4, <2>5, <2>6
<1>9. ASSUME NEW s \in Services, connections'[s].credentials.grant # NoGrant PROVE Kept(s)'
    <2>1. Kept(s) /\ connections' = connections
        BY <1>2, <1>9 DEF Saved
    <2>h. PICK h \in DOMAIN grants : h = connections[s].credentials.grant
        BY <1>2, <1>9, <1>c
    <2>2. CASE h = g
        BY <1>1, <1>4, <1>h, <2>1, <2>h, <2>2 DEF Kept, AboutToSave
    <2>3. CASE h # g
        <3>1. AboutToSave(h) => AboutToSave(h)'
            <4> SUFFICES ASSUME AboutToSave(h) PROVE AboutToSave(h)'
                OBVIOUS
            <4>1. PICK x \in Turns : /\ turn[x].stage = "reloading" /\ Held(x).grant = h
                                     /\ Held(x).refresh = grants[h].refresh
                BY DEF AboutToSave
            <4>2. x # t
                BY <1>2, <4>1
            <4>3. turn'[x] = turn[x] /\ Held(x)' = Held(x)
                BY <1>1, <4>2 DEF Held, Current
            <4>4. grants'[h] = grants[h]
                BY <1>1, <2>1, <2>3
            <4> QED BY <4>1, <4>3, <4>4 DEF AboutToSave
        <3> QED BY <1>1, <1>2, <2>1, <2>h, <2>3, <3>1 DEF Kept, AboutToSave
    <2> QED BY <2>2, <2>3
<1> QED BY <1>1, <1>5, <1>6, <1>7, <1>8, <1>9 DEF Saved

\* A turn saves the credentials it refreshed.
LEMMA ReloadSaved ==
    ASSUME Saved, NEW t \in Turns, Reload(t),
           Upsert(Current(t), Held(t)), turn' = [turn EXCEPT ![t] = WithTools(t)],
           UNCHANGED stranded
    PROVE  Saved'
<1>t. Typed /\ TypeOK /\ turn[t].stage = "reloading"
    BY DEF Saved, Typed, Reload
<1>q. PICK q \in Services, g \in DOMAIN grants : q = Current(t) /\ g = Held(t).grant
    BY <1>t, HeldTyped
<1>1. /\ Typed' /\ grants' = grants /\ stranded' = stranded
      /\ turn'[t].held = turn[t].held /\ turn'[t].stage \in {"loading", "ready"}
      /\ \A x \in Turns : x # t => turn'[x] = turn[x]
    BY <1>t, ToolsetTyped, GoesOn DEF Reload, Toolset
<1>2. /\ connections'[q].credentials = Held(t)
      /\ \A s \in Services : s # q => connections'[s] = connections[s]
      /\ Held(t) = turn[t].held[q]
    BY <1>t, <1>q DEF Upsert, TypeOK, Held
<1>3. g # NoGrant /\ OnlyNewest(t)
    BY <1>t, <1>q DEF TypeOK, NoGrant, Saved
<1>4. /\ Dated(q, turn[t].held[q]) /\ grants[g].service = q
      /\ Held(t).refresh = grants[g].refresh
    <2>1. Dated(q, turn[t].held[q])
        BY DEF Saved
    <2> QED BY <1>q, <1>2, <1>3, <2>1 DEF Dated, OnlyNewest
<1>5. \A s \in Services : Dated(s, connections[s].credentials)'
    <2>1. Dated(q, connections[q].credentials)'
        BY <1>1, <1>2, <1>4 DEF Dated
    <2>2. \A s \in Services : s # q => Dated(s, connections[s].credentials)'
        BY <1>1, <1>2 DEF Saved, Dated
    <2> QED BY <2>1, <2>2
<1>6. ASSUME NEW x \in Turns, NEW s \in Services PROVE Dated(s, turn[x].held[s])'
    <2>1. turn'[x].held[s] = turn[x].held[s] /\ Dated(s, turn[x].held[s])
        BY <1>1 DEF Saved
    <2> QED BY <1>1, <2>1 DEF Dated
<1>7. ASSUME NEW x \in Turns, turn'[x].stage = "reloading" PROVE OnlyNewest(x)'
    <2>1. x # t
        BY <1>1, <1>7
    <2>2. /\ turn'[x] = turn[x] /\ turn[x].stage = "reloading" /\ OnlyNewest(x)
        BY <1>1, <1>7, <2>1 DEF Saved
    <2>3. Held(x)' = Held(x)
        BY <2>2 DEF Held, Current
    <2>4. PICK h \in DOMAIN grants : h = Held(x).grant
        BY <1>t, <2>2, HeldTyped
    <2>5. ASSUME grants[h].rotates, NEW s \in Services PROVE Behind(h, connections[s].credentials)'
        <3>1. Behind(h, turn[t].held[q]) /\ Behind(h, connections[s].credentials)
            BY <2>1, <2>2, <2>4, <2>5 DEF OnlyNewest
        <3>2. \/ connections'[s].credentials = turn[t].held[q]
              \/ connections'[s].credentials = connections[s].credentials
            BY <1>2
        <3> QED BY <1>1, <3>1, <3>2 DEF Behind
    <2>6. ASSUME grants[h].rotates, NEW y \in Turns, NEW s \in Services, y # x
          PROVE  Behind(h, turn[y].held[s])'
        <3>1. Behind(h, turn[y].held[s]) /\ turn'[y].held[s] = turn[y].held[s]
            BY <1>1, <2>2, <2>4, <2>6 DEF OnlyNewest
        <3> QED BY <1>1, <3>1 DEF Behind
    <2> QED BY <1>1, <2>2, <2>3, <2>4, <2>5, <2>6 DEF OnlyNewest
<1>8. ASSUME NEW s \in Services, connections'[s].credentials.grant # NoGrant PROVE Kept(s)'
    <2>1. CASE s = q
        BY <1>q, <1>1, <1>2, <1>4, <2>1 DEF Kept
    <2>2. CASE s # q
        <3>1. Kept(s) /\ Dated(s, connections[s].credentials) /\ connections'[s] = connections[s]
            BY <1>2, <1>8, <2>2 DEF Saved
        <3>h. PICK h \in DOMAIN grants : h = connections[s].credentials.grant
            BY <1>t, <1>8, <3>1, CopiesTyped
        <3>2. h # g
            BY <1>4, <1>8, <2>2, <3>1, <3>h DEF Dated
        <3>3. ASSUME AboutToSave(h) PROVE AboutToSave(h)'
            <4>1. PICK x \in Turns : /\ turn[x].stage = "reloading" /\ Held(x).grant = h
                                     /\ Held(x).refresh = grants[h].refresh
                BY <3>3 DEF AboutToSave
            <4>2. turn'[x] = turn[x] /\ Held(x)' = Held(x)
                BY <1>q, <1>1, <3>2, <4>1 DEF Held, Current
            <4> QED BY <1>1, <4>1, <4>2 DEF AboutToSave
        <3> QED BY <1>1, <3>1, <3>h, <3>3 DEF Kept
    <2> QED BY <2>1, <2>2
<1> QED BY <1>1, <1>5, <1>6, <1>7, <1>8 DEF Saved

\* A step that leaves the grants, the turns and the credentials alone.
LEMMA QuietSaved ==
    ASSUME Saved, Typed', UNCHANGED <<turn, stranded>>,
           DOMAIN grants' = DOMAIN grants,
           \A g \in DOMAIN grants : /\ grants'[g].service = grants[g].service
                                    /\ grants'[g].refresh = grants[g].refresh
                                    /\ grants'[g].rotates = grants[g].rotates,
           \A s \in Services :
               connections'[s].credentials \in {connections[s].credentials, NoCredentials}
    PROVE  Saved'
BY CopyingSaved

LEMMA ConnectingSaved ==
    ASSUME Saved, NEW r \in Requests, Connecting(r)
    PROVE  Saved'
<1>t. Typed /\ Typed' /\ TypeOK
    BY ConnectingTyped DEF Saved, Typed
<1>1. ASSUME NEW u \in Users, NEW s \in Services, Disconnect(r, u, s) PROVE Saved'
    <2>1. NoConnection.credentials = NoCredentials
        BY DEF NoConnection
    <2>2. connections' = connections \/ connections' = [connections EXCEPT ![s] = NoConnection]
        BY <1>1 DEF Disconnect, Delete
    <2>3. \A x \in Services :
              connections'[x].credentials \in {connections[x].credentials, NoCredentials}
        BY <1>t, <2>1, <2>2 DEF TypeOK
    <2> QED BY <1>t, <1>1, <2>3, QuietSaved DEF Disconnect
<1>2. CASE UNCHANGED <<connections, turn, grants, stranded>>
    BY <1>t, <1>2, QuietSaved
<1> QED BY <1>1, <1>2, FinishConnectSaved DEF Connecting, BeginConnect, FailConnect

LEMMA ToolsetSaved ==
    ASSUME Saved, NEW t \in Turns, Toolset(t)
    PROVE  Saved'
<1>t. Typed /\ Typed' /\ TypeOK
    BY ToolsetTyped DEF Saved, Typed
<1>1. CASE Initialize(t)
    <2>1. /\ turn'[t].held = [s \in Services |-> connections[s].credentials]
          /\ turn'[t].stage = Onward(Listed)
          /\ turn[t].stage = "idle"
          /\ \A x \in Turns : x # t => turn'[x] = turn[x]
          /\ UNCHANGED <<connections, grants, stranded>>
        BY <1>t, <1>1 DEF Initialize, TypeOK
    <2>2. turn'[t].stage # "reloading"
        BY <2>1 DEF Onward
    <2>3. \A x \in Turns, s \in Services :
              turn'[x].held[s] \in {turn[x].held[s], connections[s].credentials, NoCredentials}
        BY <2>1
    <2>4. \A x \in Turns : turn'[x].stage = "reloading" =>
                               turn[x].stage = "reloading" /\ turn'[x] = turn[x]
        BY <2>1, <2>2
    <2>5. \A x \in Turns : turn[x].stage = "reloading" => turn'[x] = turn[x]
        BY <2>1
    <2> QED BY <1>t, <2>1, <2>3, <2>4, <2>5, CopyingSaved
<1>2. CASE /\ turn[t].stage \in {"loading", "refreshing"}
           /\ \/ turn' = [turn EXCEPT ![t] = WithTools(t)]
              \/ turn' = [turn EXCEPT ![t] = WithFailure(t)]
           /\ UNCHANGED <<connections, grants, stranded>>
    <2>1. /\ turn'[t].held = turn[t].held /\ turn'[t].stage \in {"loading", "ready"}
          /\ \A x \in Turns : x # t => turn'[x] = turn[x]
        BY <1>t, <1>2, GoesOn
    <2>2. \A x \in Turns, s \in Services :
              turn'[x].held[s] \in {turn[x].held[s], connections[s].credentials, NoCredentials}
        BY <2>1
    <2>3. \A x \in Turns : turn'[x].stage = "reloading" =>
                               turn[x].stage = "reloading" /\ turn'[x] = turn[x]
        BY <2>1
    <2>4. \A x \in Turns : turn[x].stage = "reloading" => turn'[x] = turn[x]
        BY <1>2, <2>1
    <2> QED BY <1>t, <1>2, <2>2, <2>3, <2>4, CopyingSaved
<1>3. CASE LoadTools(t) /\ turn' = [turn EXCEPT ![t].stage = "refreshing"]
    <2>1. /\ turn'[t].held = turn[t].held /\ turn'[t].stage = "refreshing"
          /\ turn[t].stage = "loading"
          /\ \A x \in Turns : x # t => turn'[x] = turn[x]
          /\ UNCHANGED <<connections, grants, stranded>>
        BY <1>t, <1>3 DEF TypeOK, LoadTools
    <2>2. \A x \in Turns, s \in Services :
              turn'[x].held[s] \in {turn[x].held[s], connections[s].credentials, NoCredentials}
        BY <2>1
    <2>3. \A x \in Turns : turn'[x].stage = "reloading" =>
                               turn[x].stage = "reloading" /\ turn'[x] = turn[x]
        BY <2>1
    <2>4. \A x \in Turns : turn[x].stage = "reloading" => turn'[x] = turn[x]
        BY <2>1
    <2> QED BY <1>t, <2>1, <2>2, <2>3, <2>4, CopyingSaved
<1>4. CASE Refreshes(t)
    BY <1>4, RefreshesSaved
<1>5. CASE Reload(t)
    <2>1. CASE /\ turn' = [turn EXCEPT ![t] = WithFailure(t)]
               /\ stranded' = stranded \cup Unsaved(t)
               /\ UNCHANGED <<connections, grants>>
        <3>1. /\ turn'[t].held = turn[t].held /\ turn'[t].stage \in {"loading", "ready"}
              /\ \A x \in Turns : x # t => turn'[x] = turn[x]
            BY <1>t, <1>5, <2>1, GoesOn DEF Reload
        <3>2. \A x \in Turns, s \in Services :
                  turn'[x].held[s] \in {turn[x].held[s], connections[s].credentials, NoCredentials}
            BY <3>1
        <3>3. \A x \in Turns : turn'[x].stage = "reloading" =>
                                   turn[x].stage = "reloading" /\ turn'[x] = turn[x]
            BY <3>1
        <3>4. \A x \in Turns : turn'[x] = turn[x] \/ Unsaved(x) \subseteq stranded'
            BY <2>1, <3>1
        <3> QED BY <1>t, <2>1, <3>2, <3>3, <3>4, CopyingSaved
    <2> QED BY <1>5, <2>1, ReloadSaved DEF Reload
<1>6. ASSUME NEW s \in Services, UseTool(t, s) PROVE Saved'
    <2>1. connections' = connections
          \/ connections' = [connections EXCEPT ![s] =
                 [credentials |-> connections[s].credentials, used |-> TRUE]]
        BY <1>6 DEF UseTool, Touch
    <2>2. \A x \in Services : connections'[x].credentials = connections[x].credentials
        BY <1>t, <2>1 DEF TypeOK
    <2> QED BY <1>t, <1>6, <2>2, QuietSaved DEF UseTool
<1>7. CASE Finish(t)
    <2>1. /\ turn'[t] = NoTurn /\ turn[t].stage = "ready"
          /\ \A x \in Turns : x # t => turn'[x] = turn[x]
          /\ UNCHANGED <<connections, grants, stranded>>
        BY <1>t, <1>7 DEF TypeOK, Finish
    <2>2. NoTurn.stage = "idle" /\ \A s \in Services : NoTurn.held[s] = NoCredentials
        BY DEF NoTurn
    <2>3. \A x \in Turns, s \in Services :
              turn'[x].held[s] \in {turn[x].held[s], connections[s].credentials, NoCredentials}
        BY <2>1, <2>2
    <2>4. \A x \in Turns : turn'[x].stage = "reloading" =>
                               turn[x].stage = "reloading" /\ turn'[x] = turn[x]
        BY <2>1, <2>2
    <2>5. \A x \in Turns : turn[x].stage = "reloading" => turn'[x] = turn[x]
        BY <2>1
    <2> QED BY <1>t, <2>1, <2>3, <2>4, <2>5, CopyingSaved
<1> QED BY <1>1, <1>2, <1>3, <1>4, <1>5, <1>6, <1>7, RefreshCases DEF Toolset, LoadTools

LEMMA SavedStep == Saved /\ [Next]_vars => Saved'
<1> SUFFICES ASSUME Saved, [Next]_vars PROVE Saved'
    OBVIOUS
<1>t. Typed /\ Typed'
    BY TypedStep DEF Saved
<1>1. CASE \E r \in Requests : Connecting(r)
    BY <1>1, ConnectingSaved
<1>2. CASE \E t \in Turns : Toolset(t)
    BY <1>2, ToolsetSaved
<1>3. ASSUME NEW g \in DOMAIN grants, Expire(g) PROVE Saved'
    BY <1>t, <1>3, ExpireTyped, QuietSaved DEF Expire
<1>4. CASE Crash
    <2>1. /\ turn' = [t \in Turns |-> NoTurn] /\ UNCHANGED <<connections, grants>>
          /\ stranded' = stranded \cup UNION {Unsaved(t) : t \in Reloading}
        BY <1>4 DEF Crash
    <2>2. NoTurn.stage = "idle" /\ \A s \in Services : NoTurn.held[s] = NoCredentials
        BY DEF NoTurn
    <2>3. \A t \in Turns : /\ turn'[t].stage # "reloading"
                           /\ \A s \in Services : turn'[t].held[s] = NoCredentials
        BY <2>1, <2>2
    <2>4. \A t \in Turns : turn[t].stage = "reloading" => Unsaved(t) \subseteq stranded'
        BY <2>1 DEF Reloading
    <2> QED BY <1>t, <2>1, <2>3, <2>4, CopyingSaved
<1>5. CASE UNCHANGED <<connections, turn, grants, stranded>>
    BY <1>t, <1>5, QuietSaved
<1> QED BY <1>1, <1>2, <1>3, <1>4, <1>5
        DEF Next, vars, Claiming, Authorize, BeginClaim, ReadServer, InsertServer, UpdateServer

\* Credentials kept in the store or by a turn are of a grant for their service
\* and never newer than the provider's (_refresh_credentials, initialize).
THEOREM TokensAccounted == Spec => []Saved
BY SavedInit, SavedStep, PTL DEF Spec

\* The refresh token the store keeps is the one the provider still accepts,
\* unless a turn is about to write a newer one, or one was dropped
\* (_refresh_credentials, initialize).
THEOREM RefreshTokensKept == Spec => []RefreshTokenKept
<1>1. Saved => RefreshTokenKept
    <2> SUFFICES ASSUME Saved, NEW s \in Services, Connected(s) PROVE Kept(s)
        BY DEF RefreshTokenKept, Kept, StoredNewest
    <2>1. connections[s].credentials.grant # NoGrant
        BY ConnectedHasGrant DEF Saved
    <2> QED BY <2>1 DEF Saved
<1> QED BY <1>1, TokensAccounted, PTL

-----------------------------------------------------------------------------
(* The store is a register of grants.                                      *)

Given == [g \in DOMAIN grants |-> grants[g].service]
Slot == [s \in Services |-> connections[s].credentials.grant]

LEMMA ServicesOfGrants ==
    ASSUME NEW q \in Seq(Grant)
    PROVE  /\ [g \in DOMAIN q |-> q[g].service] \in Seq(Services)
           /\ Len([g \in DOMAIN q |-> q[g].service]) = Len(q)
<1>1. DOMAIN q = 1..Len(q) /\ Len(q) \in Nat
    OBVIOUS
<1>2. \A g \in 1..Len(q) : q[g] \in Grant
    BY <1>1
<1>3. \A g \in 1..Len(q) : q[g].service \in Services
    BY <1>2 DEF Grant
<1> QED BY <1>1, <1>3

LEMMA GivenIsSequence ==
    ASSUME Typed
    PROVE  Given \in Seq(Services) /\ Len(Given) = Len(grants)
BY ServicesOfGrants DEF Typed, TypeOK, Given

LEMMA RegisterInit == Init => Register!Init
<1> SUFFICES ASSUME Init PROVE Register!Init
    OBVIOUS
<1>1. Slot = [s \in Services |-> 0]
    BY DEF Init, Slot, NoConnection, NoCredentials, NoGrant
<1>2. Given = <<>>
    <2>1. Given \in Seq(Services) /\ Len(Given) = Len(grants)
        BY TypedInit, GivenIsSequence
    <2>2. Len(grants) = 0
        BY DEF Init
    <2> QED BY <2>1, <2>2, EmptySeq
<1> QED BY <1>1, <1>2 DEF Register!Init, Given, Slot

\* Steps that leave the services of the grants alone.
LEMMA RegisterSame ==
    ASSUME DOMAIN grants' = DOMAIN grants,
           \A g \in DOMAIN grants : grants'[g].service = grants[g].service
    PROVE  Given' = Given
BY DEF Given

LEMMA RegisterConnects ==
    ASSUME Typed, NEW r \in Requests, NEW refresh \in {NoToken, 1}, NEW rotates \in BOOLEAN,
           FinishConnect(r, refresh, rotates)
    PROVE  Register!Next
<1>1. PICK q \in Services : q = request[r].service
    BY FinishConnectTyped
<1>2. /\ Typed' /\ Len(grants') = Len(grants) + 1
      /\ \A g \in DOMAIN grants : grants'[g] = grants[g]
      /\ grants'[Len(grants) + 1].service = q
      /\ DOMAIN grants' = DOMAIN grants \cup {Len(grants) + 1}
      /\ DOMAIN grants = 1..Len(grants) /\ Len(grants) \in Nat
    <2>1. /\ Typed' /\ Len(grants') = Len(grants) + 1
          /\ \A g \in DOMAIN grants : grants'[g] = grants[g]
          /\ grants'[Len(grants) + 1] =
                 [service |-> q, user |-> request[r].user, access |-> 1,
                  refresh |-> refresh, dead |-> 0, rotates |-> rotates]
          /\ DOMAIN grants' = DOMAIN grants \cup {Len(grants) + 1}
        BY <1>1, FinishConnectTyped
    <2>2. DOMAIN grants = 1..Len(grants) /\ Len(grants) \in Nat
        BY DEF Typed, TypeOK
    <2> QED BY <2>1, <2>2
<1>3. Given' = Append(Given, q)
    <2>1. Given \in Seq(Services) /\ Len(Given) = Len(grants)
        BY GivenIsSequence
    <2>2. Given' \in Seq(Services) /\ Len(Given') = Len(grants) + 1
        <3>1. Given' \in Seq(Services) /\ Len(Given') = Len(grants')
            <4>1. grants' \in Seq(Grant)
                BY <1>2 DEF Typed, TypeOK
            <4> QED BY <4>1, ServicesOfGrants DEF Given
        <3> QED BY <1>2, <3>1
    <2>3. /\ Append(Given, q) \in Seq(Services) /\ Len(Append(Given, q)) = Len(grants) + 1
          /\ \A i \in 1..Len(grants) : Append(Given, q)[i] = Given[i]
          /\ Append(Given, q)[Len(grants) + 1] = q
        BY <2>1, AppendProperties
    <2>4. \A i \in 1..(Len(grants) + 1) : Given'[i] = Append(Given, q)[i]
        BY <1>2, <2>3 DEF Given
    <2> QED BY <2>2, <2>3, <2>4, SeqEqual
<1>4. Len(Given') = Len(grants')
    BY <1>2, <1>3, GivenIsSequence, AppendProperties
<1>5. Slot' = [Slot EXCEPT ![q] = Len(Given')]
    <2>1. /\ connections'[q].credentials.grant = Len(grants')
          /\ \A s \in Services : s # q => connections'[s] = connections[s]
        BY <1>1 DEF FinishConnect, Upsert, Typed, TypeOK
    <2> QED BY <1>4, <2>1 DEF Slot
<1> QED BY <1>3, <1>5 DEF Register!Next, Register!Connect, Given, Slot

LEMMA RegisterStep == Saved /\ [Next]_vars => [Register!Next]_<<Given, Slot>>
<1> SUFFICES ASSUME Saved, [Next]_vars PROVE [Register!Next]_<<Given, Slot>>
    OBVIOUS
<1>t. Typed /\ TypeOK /\ Typed'
    BY TypedStep DEF Saved, Typed
<1>1. CASE UNCHANGED <<connections, grants>>
    BY <1>1 DEF Given, Slot
<1>2. ASSUME NEW r \in Requests, NEW refresh \in {NoToken, 1}, NEW rotates \in BOOLEAN,
             FinishConnect(r, refresh, rotates)
      PROVE  Register!Next
    BY <1>t, <1>2, RegisterConnects
<1>3. ASSUME NEW r \in Requests, NEW u \in Users, NEW q \in Services, Disconnect(r, u, q)
      PROVE  [Register!Next]_<<Given, Slot>>
    <2>1. grants' = grants /\ (Delete(q) \/ connections' = connections)
        BY <1>3 DEF Disconnect
    <2>2. CASE Delete(q)
        <3>1. NoConnection.credentials.grant = 0
            BY DEF NoConnection, NoCredentials, NoGrant
        <3>2. Slot' = [Slot EXCEPT ![q] = 0] /\ Given' = Given
            BY <1>t, <2>1, <2>2, <3>1 DEF Delete, Slot, Given, TypeOK
        <3> QED BY <3>2 DEF Register!Next, Register!Disconnect, Given, Slot
    <2> QED BY <1>1, <2>1, <2>2
<1>4. ASSUME NEW t \in Turns, Refreshes(t) PROVE UNCHANGED <<Given, Slot>>
    <2>1. PICK g \in DOMAIN grants : g = Held(t).grant /\ grants[g] \in Grant
        BY <1>t, <1>4, HeldTyped DEF Refreshes
    <2>2. DOMAIN grants' = DOMAIN grants /\ grants'[g] = Issued(grants[g])
          /\ \A h \in DOMAIN grants : h # g => grants'[h] = grants[h]
        BY <1>t, <1>4, <2>1, RefreshesTyped
    <2>3. \A h \in DOMAIN grants : grants'[h].service = grants[h].service
        BY <2>1, <2>2, IssuedTyped
    <2>4. connections' = connections
        BY <1>4 DEF Refreshes
    <2> QED BY <2>2, <2>3, <2>4, RegisterSame DEF Slot
<1>5. ASSUME NEW t \in Turns, Reload(t) PROVE [Register!Next]_<<Given, Slot>>
    <2>1. grants' = grants
        BY <1>5 DEF Reload
    <2>2. CASE Upsert(Current(t), Held(t))
        <3>1. PICK q \in Services, g \in DOMAIN grants : q = Current(t) /\ g = Held(t).grant
            BY <1>t, <1>5, HeldTyped DEF Reload
        <3>2. q \in Refreshers
            BY <1>t, <1>5, <3>1 DEF Reload, Typed, AtWork
        <3>3. Dated(q, turn[t].held[q]) /\ turn[t].held[q].grant = g /\ g # NoGrant
            BY <1>t, <3>1 DEF Saved, Held, TypeOK, NoGrant
        <3>4. Given[g] = q /\ g \in DOMAIN Given
            BY <3>3 DEF Dated, Given
        <3>5. Slot' = [Slot EXCEPT ![q] = g] /\ Given' = Given
            BY <1>t, <2>1, <2>2, <3>1 DEF Upsert, TypeOK, Slot, Given
        <3> QED BY <3>2, <3>4, <3>5 DEF Register!Next, Register!Restore, Given, Slot
    <2> QED BY <1>1, <1>5, <2>1, <2>2 DEF Reload
<1>6. ASSUME NEW t \in Turns, NEW s \in Services, UseTool(t, s)
      PROVE  UNCHANGED <<Given, Slot>>
    <2>1. grants' = grants
          /\ \/ connections' = connections
             \/ connections' = [connections EXCEPT ![s] =
                    [credentials |-> connections[s].credentials, used |-> TRUE]]
        BY <1>6 DEF UseTool, Touch
    <2>2. \A x \in Services : connections'[x].credentials = connections[x].credentials
        BY <1>t, <2>1 DEF TypeOK
    <2> QED BY <2>1, <2>2 DEF Given, Slot
<1>7. ASSUME NEW g \in DOMAIN grants, Expire(g) PROVE UNCHANGED <<Given, Slot>>
    <2>1. connections' = connections
        BY <1>7 DEF Expire
    <2> QED BY <1>t, <1>7, <2>1, ExpireTyped, RegisterSame DEF Slot
<1>8. CASE \E t \in Turns : Toolset(t)
    <2>1. PICK t \in Turns : Toolset(t)
        BY <1>8
    <2> QED BY <1>1, <1>4, <1>5, <1>6, <2>1, RefreshCases
            DEF Toolset, Initialize, LoadTools, Finish
<1>9. CASE \E r \in Requests : Connecting(r)
    BY <1>1, <1>2, <1>3, <1>9 DEF Connecting, BeginConnect, FailConnect
<1> QED BY <1>1, <1>7, <1>8, <1>9
        DEF Next, vars, Claiming, Authorize, Crash, BeginClaim, ReadServer, InsertServer,
            UpdateServer

\* The store, as requests and turns change it, is a register of grants: a service
\* gets the grant just given or none, and the bot's turns may bring back an
\* earlier grant of a service they refresh (upsert_connection, initialize).
THEOREM StoreIsRegister == Spec => KeepsRegister
<1>1. Saved /\ [Next]_vars =>
          [Register!Next]_<<[g \in DOMAIN grants |-> grants[g].service],
                            [s \in Services |-> connections[s].credentials.grant]>>
    BY RegisterStep DEF Given, Slot
<1> QED BY <1>1, RegisterInit, TokensAccounted, PTL DEF Spec, KeepsRegister, Register!Spec
=============================================================================
