------------------------ MODULE ConversationsProofs -------------------------
(***************************************************************************)
(* What module Conversations keeps for any messages and any window.        *)
(***************************************************************************)
EXTENDS Conversations, TLAPS

-----------------------------------------------------------------------------
(* Types.                                                                  *)

Sent == [place : Places \cup {None}, mentions : BOOLEAN, ref : Posts \cup {None}]
Turn == [stage : {"none", "received", "ignored", "dropped", "addressed", "opening",
                  "started", "answered"},
         place : Places \cup {None}, key : Places \cup {None}]

\* A message that was not sent has no task and no turn.
SentFirst ==
    \A m \in Messages : message[m].place = None => turn[m] = NoTurn /\ read[m] = 0

LEMMA TypedParts ==
    ASSUME TypeOK
    PROVE  /\ message \in [Messages -> Sent]
           /\ log \in [Places -> Seq(Posts)]
           /\ threads \subseteq Posts
           /\ turn \in [Messages -> Turn]
           /\ read \in [Messages -> Nat]
BY DEF TypeOK, Sent, Turn

LEMMA PostsArePlaces == Posts \subseteq Places /\ Channel \in Places /\ Messages \subseteq Posts
BY DEF Posts, Places

LEMMA Appended ==
    ASSUME NEW s \in Seq(Posts), NEW x \in Posts
    PROVE  /\ Append(s, x) \in Seq(Posts)
           /\ Len(Append(s, x)) = Len(s) + 1
           /\ \A i \in DOMAIN Append(s, x) :
                  \/ i \in DOMAIN s /\ Append(s, x)[i] = s[i]
                  \/ i = Len(s) + 1 /\ Append(s, x)[i] = x
           /\ \A i \in DOMAIN s : i \in DOMAIN Append(s, x) /\ Append(s, x)[i] = s[i]
OBVIOUS

\* What Goto and Start make of a turn.
LEMMA GotoTyped ==
    ASSUME turn \in [Messages -> Turn], NEW m \in Messages,
           NEW stage \in {"received", "ignored", "dropped", "addressed", "opening", "answered"},
           Goto(m, stage)
    PROVE  /\ turn' \in [Messages -> Turn]
           /\ \A n \in Messages :
                  /\ turn'[n].place = turn[n].place
                  /\ turn'[n].key = turn[n].key
                  /\ turn'[n].stage = IF n = m THEN stage ELSE turn[n].stage
BY DEF Goto, Turn

LEMMA StartTyped ==
    ASSUME turn \in [Messages -> Turn], NEW m \in Messages, NEW place \in Places,
           Start(m, place)
    PROVE  /\ turn' \in [Messages -> Turn]
           /\ turn'[m] = AnsweredIn(m, place)
           /\ \A n \in Messages \ {m} : turn'[n] = turn[n]
<1>1. AnsweredIn(m, place) \in Turn
    BY PostsArePlaces DEF AnsweredIn, Turn
<1> QED BY <1>1 DEF Start

LEMMA ThreadIsPlace ==
    ASSUME TypeOK, NEW m \in Messages, MessageThread(m) # None
    PROVE  MessageThread(m) \in Places
<1>1. message[m].place \in Places \cup {None}
    BY TypedParts DEF Sent
<1>2. threads \subseteq Places
    BY TypedParts, PostsArePlaces
<1> QED BY <1>1, <1>2 DEF MessageThread

LEMMA TypedInit == Init => TypeOK
<1> SUFFICES ASSUME Init PROVE TypeOK
    OBVIOUS
<1>1. turn \in [Messages -> Turn]
    BY DEF Init, NoTurn, Turn
<1>2. message \in [Messages -> Sent]
    BY DEF Init, Unsent, Sent
<1>3. log \in [Places -> Seq(Posts)]
    BY DEF Init
<1> QED BY <1>1, <1>2, <1>3 DEF Init, TypeOK, Sent, Turn

\* The next stages a step of a task can choose, one way or the other.
LEMMA DecideGoes ==
    ASSUME NEW m \in Messages, NEW context, Decide(m, context)
    PROVE  Goto(m, "addressed") \/ Goto(m, "ignored")
BY DEF Decide

LEMMA TypedPost ==
    ASSUME TypeOK, NEW m \in Messages, NEW p \in Places, NEW mentions \in BOOLEAN,
           NEW ref \in Posts \cup {None}, PostMessage(m, p, mentions, ref)
    PROVE  TypeOK'
<1> DEFINE new == [place |-> p, mentions |-> mentions, ref |-> ref]
<1>1. message' \in [Messages -> Sent]
    <2>1. new \in Sent
        BY DEF Sent
    <2>2. message' = [message EXCEPT ![m] = new]
        BY DEF PostMessage
    <2> QED BY <2>1, <2>2, TypedParts
<1>2. log' \in [Places -> Seq(Posts)]
    BY TypedParts, Appended, PostsArePlaces DEF PostMessage
<1>3. threads' \subseteq Posts /\ read' = read
    BY TypedParts, PostsArePlaces DEF PostMessage
<1>4. turn' \in [Messages -> Turn]
    BY TypedParts, GotoTyped DEF PostMessage
<1> QED BY <1>1, <1>2, <1>3, <1>4, TypedParts DEF TypeOK, Sent, Turn

LEMMA TypedTask ==
    ASSUME TypeOK, SentFirst, NEW m \in Messages, OnMessage(m)
    PROVE  TypeOK'
<1>0. message' = message
    BY DEF OnMessage, Receive, ReceiveUnread, ChooseChannel, OpenThread, FailToOpenThread, Respond
<1>1. CASE Receive(m)
    <2>1. Goto(m, "addressed") \/ Goto(m, "ignored")
        BY <1>1, DecideGoes DEF Receive
    <2>2. turn' \in [Messages -> Turn]
        BY <2>1, TypedParts, GotoTyped
    <2>3. read' \in [Messages -> Nat]
        <3>1. message[m].place \in Places
            BY <1>1, TypedParts DEF Receive, At, NoTurn, SentFirst, Sent
        <3>2. Len(log[message[m].place]) \in Nat
            BY <3>1, TypedParts
        <3> QED BY <1>1, <3>2, TypedParts DEF Receive
    <2> QED BY <1>0, <1>1, <2>2, <2>3, TypedParts DEF Receive, TypeOK, Sent, Turn
<1>2. CASE ReceiveUnread(m)
    <2>1. turn' \in [Messages -> Turn]
        BY <1>2, DecideGoes, TypedParts, GotoTyped DEF ReceiveUnread, Drop
    <2> QED BY <1>0, <1>2, <2>1, TypedParts DEF ReceiveUnread, TypeOK, Sent, Turn
<1>3. CASE ChooseChannel(m)
    <2>1. turn' \in [Messages -> Turn]
        BY <1>3, ThreadIsPlace, TypedParts, GotoTyped, StartTyped DEF ChooseChannel
    <2> QED BY <1>0, <1>3, <2>1, TypedParts DEF ChooseChannel, TypeOK, Sent, Turn
<1>4. CASE OpenThread(m)
    <2>1. turn' \in [Messages -> Turn]
        BY <1>4, TypedParts, StartTyped, PostsArePlaces DEF OpenThread
    <2>2. threads' \subseteq Posts
        BY <1>4, TypedParts, PostsArePlaces DEF OpenThread
    <2> QED BY <1>0, <1>4, <2>1, <2>2, TypedParts DEF OpenThread, TypeOK, Sent, Turn
<1>5. CASE FailToOpenThread(m)
    <2>1. turn' \in [Messages -> Turn]
        BY <1>5, ThreadIsPlace, TypedParts, GotoTyped, StartTyped, PostsArePlaces
           DEF FailToOpenThread, WithoutThread, Drop
    <2>2. threads' \subseteq Posts
        BY <1>5, TypedParts, PostsArePlaces DEF FailToOpenThread
    <2> QED BY <1>0, <1>5, <2>1, <2>2, TypedParts DEF FailToOpenThread, TypeOK, Sent, Turn
<1>6. CASE Respond(m)
    <2>1. turn' \in [Messages -> Turn]
        BY <1>6, TypedParts, GotoTyped DEF Respond
    <2>2. log' \in [Places -> Seq(Posts)]
        <3>1. Answer(m) \in Posts
            BY DEF Posts, Answers
        <3>2. CASE log' = log
            BY <3>2, TypedParts
        <3>3. CASE log' = [log EXCEPT ![turn[m].place] = Append(@, Answer(m))]
            <4>1. turn[m].place \in Places => Append(log[turn[m].place], Answer(m)) \in Seq(Posts)
                BY <3>1, TypedParts, Appended
            <4> QED BY <3>3, <4>1, TypedParts
        <3> QED BY <1>6, <3>2, <3>3 DEF Respond
    <2> QED BY <1>0, <1>6, <2>1, <2>2, TypedParts DEF Respond, TypeOK, Sent, Turn
<1> QED BY <1>1, <1>2, <1>3, <1>4, <1>5, <1>6 DEF OnMessage

LEMMA TypedNext == TypeOK /\ SentFirst /\ [Next]_vars => TypeOK'
<1>1. ASSUME TypeOK, NEW post \in Posts, UserOpensThread(post) PROVE TypeOK'
    BY <1>1 DEF UserOpensThread, TypeOK
<1>2. TypeOK /\ UNCHANGED vars => TypeOK'
    BY DEF TypeOK, vars
<1> QED BY <1>1, <1>2, TypedPost, TypedTask DEF Next

-----------------------------------------------------------------------------
(* Where messages, threads and turns come from.                            *)

LEMMA SentFirstInit == Init => SentFirst
BY DEF Init, SentFirst, Unsent

LEMMA SentFirstNext == TypeOK /\ SentFirst /\ [Next]_vars => SentFirst'
<1> SUFFICES ASSUME TypeOK, SentFirst, [Next]_vars PROVE SentFirst'
    OBVIOUS
<1>1. ASSUME NEW m \in Messages, NEW p \in Places, NEW mentions \in BOOLEAN,
             NEW ref \in Posts \cup {None}, PostMessage(m, p, mentions, ref)
      PROVE  SentFirst'
    <2>1. message'[m].place = p /\ \A n \in Messages \ {m} : message'[n] = message[n]
        BY <1>1, TypedParts DEF PostMessage
    <2>2. p # None
        BY <1>1, TypedParts, PlacesAssumption, AnswersAssumption DEF PostMessage, Posts
    <2>3. read' = read /\ \A n \in Messages \ {m} : turn'[n] = turn[n]
        BY <1>1, TypedParts DEF PostMessage, Goto
    <2> QED BY <2>1, <2>2, <2>3 DEF SentFirst
<1>2. ASSUME NEW m \in Messages, OnMessage(m) PROVE SentFirst'
    <2>1. message' = message /\ turn[m] # NoTurn
        <3>1. message' = message
            BY <1>2 DEF OnMessage, Receive, ReceiveUnread, ChooseChannel, OpenThread,
                        FailToOpenThread, Respond
        <3>2. turn[m].stage # "none"
            BY <1>2 DEF OnMessage, Receive, ReceiveUnread, ChooseChannel, OpenThread,
                        FailToOpenThread, Respond, At
        <3> QED BY <3>1, <3>2 DEF NoTurn
    <2>2. \A n \in Messages \ {m} : turn'[n] = turn[n] /\ read'[n] = read[n]
        BY <1>2, TypedParts
           DEF OnMessage, Receive, ReceiveUnread, ChooseChannel, OpenThread, FailToOpenThread,
               Respond, Decide, WithoutThread, Drop, Start, Goto
    <2> QED BY <2>1, <2>2 DEF SentFirst
<1>3. CASE UNCHANGED vars \/ \E post \in Posts : UserOpensThread(post)
    BY <1>3 DEF vars, UserOpensThread, SentFirst
<1> QED BY <1>1, <1>2, <1>3 DEF Next

\* Every variable of Conversations keeps its type, for any messages and window.
THEOREM TypeCorrect == Spec => []TypeOK
BY TypedInit, TypedNext, SentFirstInit, SentFirstNext, PTL DEF Spec

-----------------------------------------------------------------------------
(* What is remembered where.                                               *)

\* A turn's key is what AnsweredIn made of its place.
KeyKnown ==
    \A m \in Messages :
        turn[m].place # None =>
            turn[m].key = IF turn[m].place = Channel /\ RepliesToBot(m) THEN m ELSE turn[m].place

LEMMA KeyKnownInit == Init => KeyKnown
BY DEF Init, KeyKnown, NoTurn

\* A step of a task leaves what users wrote, the other tasks and, but where it
\* starts the turn, the turn's place and key.
LEMMA TaskSteps ==
    ASSUME TypeOK, NEW m \in Messages, OnMessage(m)
    PROVE  /\ message' = message
           /\ \A n \in Messages \ {m} : turn'[n] = turn[n]
           /\ \/ turn'[m].place = turn[m].place /\ turn'[m].key = turn[m].key
              \/ \E place \in Places : turn'[m] = AnsweredIn(m, place)
<1>0. message' = message
    BY DEF OnMessage, Receive, ReceiveUnread, ChooseChannel, OpenThread, FailToOpenThread, Respond
<1>2. CASE \E stage \in {"ignored", "dropped", "addressed", "opening", "answered"} : Goto(m, stage)
    <2>1. \A n \in Messages \ {m} : turn'[n] = turn[n]
        BY <1>2, TypedParts DEF Goto
    <2> QED BY <1>0, <1>2, <2>1, TypedParts, GotoTyped
<1>1. CASE Receive(m) \/ ReceiveUnread(m)
    BY <1>1, <1>2, DecideGoes DEF Receive, ReceiveUnread, Drop
<1>3. CASE \E place \in Places : Start(m, place)
    <2>1. PICK place \in Places : Start(m, place)
        BY <1>3
    <2>2. turn'[m] = AnsweredIn(m, place) /\ \A n \in Messages \ {m} : turn'[n] = turn[n]
        BY <2>1, TypedParts, StartTyped
    <2> QED BY <1>0, <2>2
<1>4. CASE ChooseChannel(m)
    BY <1>2, <1>3, <1>4, ThreadIsPlace DEF ChooseChannel
<1>5. CASE OpenThread(m)
    BY <1>3, <1>5, PostsArePlaces DEF OpenThread
<1>6. CASE FailToOpenThread(m)
    BY <1>2, <1>3, <1>6, ThreadIsPlace, PostsArePlaces DEF FailToOpenThread, WithoutThread, Drop
<1>7. CASE Respond(m)
    BY <1>2, <1>7 DEF Respond
<1> QED BY <1>1, <1>4, <1>5, <1>6, <1>7 DEF OnMessage

\* A new message changes nothing of the others, and is received.
LEMMA PostSteps ==
    ASSUME TypeOK, SentFirst, NEW m \in Messages, NEW p \in Places, NEW mentions \in BOOLEAN,
           NEW ref \in Posts \cup {None}, PostMessage(m, p, mentions, ref)
    PROVE  /\ turn[m] = NoTurn
           /\ turn'[m].place = None
           /\ turn'[m].stage = "received"
           /\ \A n \in Messages \ {m} : message'[n] = message[n] /\ turn'[n] = turn[n]
<1>1. turn[m] = NoTurn
    BY DEF PostMessage, Unsent, SentFirst
<1>2. turn'[m].place = turn[m].place /\ turn'[m].stage = "received"
    BY TypedParts, GotoTyped DEF PostMessage
<1>3. \A n \in Messages \ {m} : message'[n] = message[n] /\ turn'[n] = turn[n]
    BY TypedParts DEF PostMessage, Goto
<1> QED BY <1>1, <1>2, <1>3 DEF NoTurn

LEMMA KeyKnownNext == TypeOK /\ SentFirst /\ KeyKnown /\ [Next]_vars => KeyKnown'
<1> SUFFICES ASSUME TypeOK, SentFirst, KeyKnown, [Next]_vars PROVE KeyKnown'
    OBVIOUS
<1>1. ASSUME NEW m \in Messages, NEW p \in Places, NEW mentions \in BOOLEAN,
             NEW ref \in Posts \cup {None}, PostMessage(m, p, mentions, ref)
      PROVE  KeyKnown'
    BY <1>1, PostSteps DEF KeyKnown, RepliesToBot
<1>2. ASSUME NEW m \in Messages, OnMessage(m) PROVE KeyKnown'
    <2>1. \A n \in Messages : RepliesToBot(n)' <=> RepliesToBot(n)
        BY <1>2, TaskSteps DEF RepliesToBot
    <2>2. ASSUME NEW place \in Places, turn'[m] = AnsweredIn(m, place)
          PROVE  turn'[m].place = place
                 /\ turn'[m].key = IF place = Channel /\ RepliesToBot(m) THEN m ELSE place
        BY <2>2 DEF AnsweredIn
    <2> QED BY <1>2, <2>1, <2>2, TaskSteps DEF KeyKnown
<1>3. CASE UNCHANGED vars \/ \E post \in Posts : UserOpensThread(post)
    BY <1>3 DEF vars, UserOpensThread, KeyKnown, RepliesToBot
<1> QED BY <1>1, <1>2, <1>3 DEF Next

LEMMA KeysArePlaces == TypeOK /\ KeyKnown => MemoryFollowsPlace
<1> SUFFICES ASSUME TypeOK, KeyKnown, NEW m \in Started, NEW n \in Started
             PROVE  (turn[m].key = turn[n].key) <=>
                        \/ m = n
                        \/ turn[m].place = turn[n].place /\ turn[m].place # Channel
                        \/ ShareChannel(m, n)
                        \/ ContinuesThread(m, n) \/ ContinuesThread(n, m)
    BY DEF MemoryFollowsPlace
<1> DEFINE Own(x) == turn[x].place = Channel /\ RepliesToBot(x)
<1>1. /\ m \in Messages /\ n \in Messages /\ Channel \notin Messages
      /\ turn[m].key = IF Own(m) THEN m ELSE turn[m].place
      /\ turn[n].key = IF Own(n) THEN n ELSE turn[n].place
    BY PlacesAssumption DEF Started, KeyKnown
<1>2. CASE ~Own(m) /\ ~Own(n)
    BY <1>1, <1>2 DEF ShareChannel, ContinuesThread
<1>3. CASE Own(m) /\ ~Own(n)
    BY <1>1, <1>3 DEF ShareChannel, ContinuesThread
<1>4. CASE ~Own(m) /\ Own(n)
    BY <1>1, <1>4 DEF ShareChannel, ContinuesThread
<1>5. CASE Own(m) /\ Own(n)
    BY <1>1, <1>5 DEF ShareChannel, ContinuesThread
<1> QED BY <1>2, <1>3, <1>4, <1>5

\* However tasks, users and refusals interleave, two turns have one memory exactly
\* where MemoryFollowsPlace says: a conversation is never mixed with another's
\* and never split (on_message, _message_thread_key).
THEOREM OneMemoryPerPlace == Spec => []MemoryFollowsPlace
<1>1. Init => TypeOK /\ SentFirst /\ KeyKnown
    BY TypedInit, SentFirstInit, KeyKnownInit
<1>2. TypeOK /\ SentFirst /\ KeyKnown /\ [Next]_vars => TypeOK' /\ SentFirst' /\ KeyKnown'
    BY TypedNext, SentFirstNext, KeyKnownNext
<1> QED BY <1>1, <1>2, KeysArePlaces, PTL DEF Spec

-----------------------------------------------------------------------------
(* Follow-ups that are passed over.                                        *)

Here == {Channel} \cup threads

\* What is written is written somewhere that exists, and by someone who wrote.
Placed ==
    /\ \A m \in Messages : message[m].place # None => message[m].place \in Here
    /\ \A m \in Messages : turn[m].place # None => turn[m].place \in Here
    /\ \A m \in threads \cap Messages : message[m].place # None
    /\ \A p \in Places : \A j \in DOMAIN log[p] :
           log[p][j] \in Messages => message[log[p][j]].place # None

\* A thread begins with its starter, if that is in it at all.
StarterFirst ==
    /\ \A p \in Places \ Here : log[p] = <<>>
    /\ \A m \in Messages : message[m].place = m =>
           \A j \in DOMAIN log[m] : log[m][j] = m => j = 1

\* A message that was passed over was there when the thread was read.
ReadBefore ==
    \A m \in Messages :
        /\ turn[m].stage \in {"none", "received"} => read[m] = 0
        /\ At(m, "ignored") /\ InThread(m) /\ read[m] > 0 =>
               \A j \in DOMAIN log[message[m].place] : log[message[m].place][j] = m => j <= read[m]

History == Placed /\ StarterFirst /\ ReadBefore /\ FollowUpsHeard

LEMMA HistoryInit == Init => History
<1> SUFFICES ASSUME Init PROVE History
    OBVIOUS
<1>1. Placed /\ StarterFirst
    <2>1. \A m \in Messages : message[m].place = None /\ turn[m].place = None
        BY DEF Init, Unsent, NoTurn
    <2>2. \A p \in Places : log[p] = <<>>
        BY DEF Init
    <2>3. \A m \in Messages : m # None /\ m \in Places
        BY PlacesAssumption, PostsArePlaces
    <2> QED BY <2>1, <2>2, <2>3 DEF Init, Placed, StarterFirst, Here
<1>2. \A m \in Messages : turn[m].stage = "none" /\ read[m] = 0
    BY DEF Init, NoTurn
<1>3. ReadBefore /\ FollowUpsHeard
    BY <1>2 DEF ReadBefore, FollowUpsHeard, At
<1> QED BY <1>1, <1>3 DEF History

\* A post is put at the end of its place; a message only when it is sent.
Written ==
    \A p \in Places :
        \/ log'[p] = log[p]
        \/ \E x \in Posts :
               /\ log'[p] = Append(log[p], x)
               /\ p \in Here'
               /\ x \in Messages => message[x].place = None /\ message'[x].place = p

LEMMA TaskWrites ==
    ASSUME TypeOK, Placed, NEW m \in Messages, OnMessage(m)
    PROVE  Written
<1>1. CASE Respond(m)
    <2>1. Answer(m) \in Posts /\ Answer(m) \notin Messages
        BY AnswersAssumption DEF Posts, Answers
    <2>2. threads' = threads
        BY <1>1 DEF Respond
    <2>3. CASE log' = log
        BY <2>3 DEF Written
    <2>4. CASE log' = [log EXCEPT ![turn[m].place] = Append(@, Answer(m))]
        <3>1. ASSUME NEW p \in Places, p # turn[m].place PROVE log'[p] = log[p]
            BY <2>4, <3>1, TypedParts
        <3>2. ASSUME NEW p \in Places, p = turn[m].place
              PROVE  log'[p] = Append(log[p], Answer(m)) /\ p \in Here'
            <4>1. p # None
                BY <3>2, PlacesAssumption, AnswersAssumption DEF Places, Posts
            <4>2. p \in Here'
                BY <2>2, <3>2, <4>1 DEF Placed, Here
            <4> QED BY <2>4, <3>2, <4>2, TypedParts
        <3> QED BY <2>1, <3>1, <3>2 DEF Written
    <2> QED BY <1>1, <2>3, <2>4 DEF Respond
<1>2. CASE ~Respond(m)
    <2>1. log' = log
        BY <1>2 DEF OnMessage, Receive, ReceiveUnread, ChooseChannel, OpenThread, FailToOpenThread
    <2> QED BY <2>1 DEF Written
<1> QED BY <1>1, <1>2

LEMMA PostWrites ==
    ASSUME TypeOK, NEW m \in Messages, NEW p \in Places, NEW mentions \in BOOLEAN,
           NEW ref \in Posts \cup {None}, PostMessage(m, p, mentions, ref)
    PROVE  /\ Written
           /\ message[m].place = None
           /\ message'[m].place = p
           /\ p \in Here'
<1>1. message[m].place = None /\ p \in {Channel, m} \cup threads
    BY DEF PostMessage, Unsent
<1>2. message'[m].place = p
    BY TypedParts DEF PostMessage
<1>3. p \in Here'
    BY <1>1 DEF PostMessage, Here
<1>4. ASSUME NEW q \in Places PROVE log'[q] = IF q = p THEN Append(log[q], m) ELSE log[q]
    BY TypedParts DEF PostMessage
<1>5. Written
    BY <1>1, <1>2, <1>3, <1>4, PostsArePlaces DEF Written
<1> QED BY <1>1, <1>2, <1>3, <1>5

\* What a place had, it has; what it gets is at the end.
LEMMA WrittenAt ==
    ASSUME TypeOK, Written, NEW p \in Places
    PROVE  /\ \A j \in DOMAIN log[p] : j \in DOMAIN log'[p] /\ log'[p][j] = log[p][j]
           /\ \A j \in DOMAIN log'[p] :
                  \/ j \in DOMAIN log[p]
                  \/ /\ p \in Here'
                     /\ j = Len(log[p]) + 1
                     /\ log'[p][j] \in Messages =>
                            message[log'[p][j]].place = None /\ message'[log'[p][j]].place = p
           /\ Len(log[p]) \in Nat /\ DOMAIN log[p] = 1 .. Len(log[p])
<1>0. log[p] \in Seq(Posts)
    BY TypedParts
<1>1. CASE log'[p] = log[p]
    BY <1>0, <1>1
<1>2. CASE log'[p] # log[p]
    <2>1. PICK x \in Posts :
              /\ log'[p] = Append(log[p], x)
              /\ p \in Here'
              /\ x \in Messages => message[x].place = None /\ message'[x].place = p
        BY <1>2 DEF Written
    <2> QED BY <1>0, <2>1, Appended
<1> QED BY <1>1, <1>2

\* What was said of a message that was passed over.
HeardOrFar(n) ==
    At(n, "ignored") /\ InThread(n) /\ read[n] > 0 =>
        LET posts == log[message[n].place]
        IN  /\ \A j \in DOMAIN posts : posts[j] = n => j <= read[n]
            /\ \A i, j \in DOMAIN posts :
                   posts[i] \in Answers /\ posts[j] = n /\ i < j => read[n] - i >= Window

LEMMA HeardOrFarIs ==
    /\ ReadBefore /\ FollowUpsHeard => \A n \in Messages : HeardOrFar(n)
    /\ /\ \A n \in Messages : turn[n].stage \in {"none", "received"} => read[n] = 0
       /\ \A n \in Messages : HeardOrFar(n)
       => ReadBefore /\ FollowUpsHeard
BY DEF HeardOrFar, ReadBefore, FollowUpsHeard

\* Later posts come after it, and change nothing.
LEMMA PassedOverStays ==
    ASSUME TypeOK, SentFirst, Written, NEW n \in Messages, HeardOrFar(n),
           message'[n] = message[n], turn'[n] = turn[n], read'[n] = read[n]
    PROVE  HeardOrFar(n)'
<1> DEFINE p == message[n].place
<1> SUFFICES ASSUME turn[n].stage = "ignored", InThread(n), read[n] > 0
             PROVE  /\ \A j \in DOMAIN log'[p] : log'[p][j] = n => j <= read[n]
                    /\ \A i, j \in DOMAIN log'[p] :
                           log'[p][i] \in Answers /\ log'[p][j] = n /\ i < j
                               => read[n] - i >= Window
    BY DEF HeardOrFar, At, InThread
<1>1. p # None
    BY DEF SentFirst, NoTurn
<1>2. p \in Places
    BY <1>1, TypedParts DEF Sent
<1>3. /\ \A j \in DOMAIN log[p] : log[p][j] = n => j <= read[n]
      /\ \A i, j \in DOMAIN log[p] :
             log[p][i] \in Answers /\ log[p][j] = n /\ i < j => read[n] - i >= Window
    BY DEF HeardOrFar, At
<1> HIDE DEF p
<1>4. ASSUME NEW j \in DOMAIN log'[p], log'[p][j] = n
      PROVE  j \in DOMAIN log[p] /\ log[p][j] = n
    <2>1. j \in DOMAIN log[p]
        BY <1>1, <1>2, <1>4, WrittenAt DEF p
    <2> QED BY <1>2, <1>4, <2>1, WrittenAt
<1>5. ASSUME NEW i \in DOMAIN log'[p], NEW j \in DOMAIN log[p], i < j
      PROVE  i \in DOMAIN log[p] /\ log'[p][i] = log[p][i]
    <2>1. i \in DOMAIN log[p]
        BY <1>2, <1>5, WrittenAt
    <2> QED BY <1>2, <2>1, WrittenAt
<1> QED BY <1>3, <1>4, <1>5

LEMMA HistoryPost ==
    ASSUME TypeOK, SentFirst, History,
           NEW m \in Messages, NEW p \in Places, NEW mentions \in BOOLEAN,
           NEW ref \in Posts \cup {None}, PostMessage(m, p, mentions, ref)
    PROVE  History'
<1>1. /\ Written
      /\ message[m].place = None /\ message'[m].place = p /\ p \in Here'
      /\ p # None
    BY PostWrites, PlacesAssumption, AnswersAssumption DEF Places, Posts
<1>2. /\ turn'[m].place = None /\ turn'[m].stage = "received"
      /\ \A n \in Messages \ {m} : message'[n] = message[n] /\ turn'[n] = turn[n]
    BY PostSteps
<1>3. read' = read /\ Here \subseteq Here' /\ threads' \subseteq threads \cup {m}
      /\ p \in {Channel, m} \cup threads
    BY DEF PostMessage, Here
<1>4. Placed'
    <2>1. \A n \in Messages : message'[n].place # None => message'[n].place \in Here'
        BY <1>1, <1>2, <1>3 DEF History, Placed
    <2>2. \A n \in Messages : turn'[n].place # None => turn'[n].place \in Here'
        BY <1>2, <1>3 DEF History, Placed
    <2>3. \A n \in threads' \cap Messages : message'[n].place # None
        BY <1>1, <1>2, <1>3 DEF History, Placed
    <2>4. \A q \in Places : \A j \in DOMAIN log'[q] :
              log'[q][j] \in Messages => message'[log'[q][j]].place # None
        <3> SUFFICES ASSUME NEW q \in Places, NEW j \in DOMAIN log'[q], log'[q][j] \in Messages
                     PROVE  message'[log'[q][j]].place # None
            OBVIOUS
        <3>1. CASE j \in DOMAIN log[q]
            <4>1. log'[q][j] = log[q][j]
                BY <1>1, <3>1, WrittenAt
            <4>2. message[log[q][j]].place # None
                BY <3>1, <4>1 DEF History, Placed
            <4> QED BY <1>1, <1>2, <4>1, <4>2
        <3>2. CASE j \notin DOMAIN log[q]
            <4>1. message'[log'[q][j]].place = q
                BY <1>1, <3>2, WrittenAt
            <4> QED BY <4>1, PlacesAssumption, AnswersAssumption DEF Places, Posts
        <3> QED BY <3>1, <3>2
    <2> QED BY <2>1, <2>2, <2>3, <2>4 DEF Placed
<1>5. StarterFirst'
    <2>1. ASSUME NEW q \in Places \ Here' PROVE log'[q] = <<>>
        BY <1>1, <1>3, <2>1 DEF Written, History, StarterFirst
    <2>2. ASSUME NEW n \in Messages, message'[n].place = n,
                 NEW j \in DOMAIN log'[n], log'[n][j] = n
          PROVE  j = 1
        <3>0. n \in Places
            BY PostsArePlaces
        <3>1. CASE n = m
            <4>1. m \notin Here
                BY <1>1, PlacesAssumption DEF History, Placed, Here
            <4>2. log[m] = <<>>
                BY <3>0, <3>1, <4>1 DEF History, StarterFirst
            <4>3. Len(log[m]) = 0 /\ DOMAIN log[m] = {}
                BY <4>2
            <4> QED BY <1>1, <2>2, <3>0, <3>1, <4>3, WrittenAt
        <3>2. CASE n # m
            <4>1. message[n].place = n /\ n # None
                BY <1>2, <2>2, <3>2, PlacesAssumption
            <4>2. j \in DOMAIN log[n]
                BY <1>1, <2>2, <3>0, <4>1, WrittenAt
            <4>3. log'[n][j] = log[n][j]
                BY <1>1, <3>0, <4>2, WrittenAt
            <4> QED BY <2>2, <4>1, <4>2, <4>3 DEF History, StarterFirst
        <3> QED BY <3>1, <3>2
    <2> QED BY <2>1, <2>2 DEF StarterFirst
<1>6. ReadBefore' /\ FollowUpsHeard'
    <2>1. ASSUME NEW n \in Messages
          PROVE  turn'[n].stage \in {"none", "received"} => read'[n] = 0
        BY <1>1, <1>2, <1>3 DEF History, ReadBefore, SentFirst
    <2>3. ASSUME NEW n \in Messages PROVE HeardOrFar(n)'
        <3>1. CASE n = m
            BY <1>2, <3>1 DEF HeardOrFar, At
        <3>2. CASE n # m
            <4>1. HeardOrFar(n)
                BY HeardOrFarIs DEF History
            <4> QED BY <1>1, <1>2, <1>3, <3>2, <4>1, PassedOverStays
        <3> QED BY <3>1, <3>2
    <2> QED BY <2>1, <2>3, HeardOrFarIs DEF ReadBefore, FollowUpsHeard, HeardOrFar, At, InThread
<1> QED BY <1>4, <1>5, <1>6 DEF History

\* A turn is answered in a thread that exists, or in the channel.
LEMMA AnsweredHere ==
    ASSUME TypeOK, SentFirst, Placed, NEW m \in Messages, OnMessage(m)
    PROVE  /\ message[m].place # None
           /\ turn[m].stage \notin {"none", "ignored"}
           /\ threads \subseteq threads' /\ threads' \subseteq threads \cup {m}
           /\ turn'[m].place # None => turn'[m].place \in Here'
<1>1. turn[m].stage \notin {"none", "ignored"}
    BY DEF OnMessage, Receive, ReceiveUnread, ChooseChannel, OpenThread, FailToOpenThread, Respond,
           At
<1>2. message[m].place # None
    BY <1>1 DEF SentFirst, NoTurn
<1>3. threads \subseteq threads' /\ threads' \subseteq threads \cup {m}
    BY DEF OnMessage, Receive, ReceiveUnread, ChooseChannel, OpenThread, FailToOpenThread, Respond
<1>4. Here \subseteq Here'
    BY <1>3 DEF Here
<1>5. ASSUME MessageThread(m) # None PROVE MessageThread(m) \in Here
    BY <1>2, <1>5 DEF MessageThread, InThread, Placed, Here
<1>6. ASSUME NEW place \in Here', Start(m, place) PROVE turn'[m].place \in Here'
    <2>1. turn'[m] = AnsweredIn(m, place)
        BY <1>6, TypedParts DEF Start
    <2> QED BY <2>1 DEF AnsweredIn
<1>7. ASSUME NEW stage \in {"addressed", "ignored", "dropped", "opening", "answered"}, Goto(m, stage)
      PROVE  turn'[m].place = turn[m].place
    BY <1>7, TypedParts, GotoTyped
<1>8. turn'[m].place = turn[m].place \/ turn'[m].place \in Here'
    <2>1. CASE Receive(m) \/ ReceiveUnread(m) \/ Respond(m)
        BY <1>7, <2>1 DEF Receive, ReceiveUnread, Respond, Decide, Drop
    <2>2. CASE ChooseChannel(m)
        BY <1>4, <1>5, <1>6, <1>7, <2>2 DEF ChooseChannel
    <2>3. CASE OpenThread(m)
        BY <1>6, <2>3 DEF OpenThread, Here
    <2>4. CASE FailToOpenThread(m)
        <3>1. Channel \in Here'
            BY DEF Here
        <3> QED BY <1>4, <1>5, <1>6, <1>7, <2>4, <3>1 DEF FailToOpenThread, WithoutThread, Drop
    <2> QED BY <2>1, <2>2, <2>3, <2>4 DEF OnMessage
<1>9. turn[m].place # None => turn[m].place \in Here
    BY DEF Placed
<1> QED BY <1>1, <1>2, <1>3, <1>4, <1>8, <1>9

\* The message that is just being passed over.
LEMMA PassedOverNow ==
    ASSUME TypeOK, SentFirst, History, NEW m \in Messages, OnMessage(m),
           turn'[m].stage = "ignored", InThread(m), read'[m] > 0
    PROVE  LET posts == log'[message[m].place]
           IN  /\ \A j \in DOMAIN posts : posts[j] = m => j <= read'[m]
               /\ \A i, j \in DOMAIN posts :
                      posts[i] \in Answers /\ posts[j] = m /\ i < j => read'[m] - i >= Window
<1> DEFINE p == message[m].place
<1>1. turn[m].stage \notin {"none", "ignored"} /\ p \in Places
    <2>1. turn[m].stage \notin {"none", "ignored"} /\ p # None
        BY AnsweredHere DEF History
    <2> QED BY <2>1, TypedParts DEF Sent
<1>2. ASSUME NEW stage \in {"addressed", "dropped", "opening", "answered"} PROVE ~Goto(m, stage)
    BY <1>2, TypedParts, GotoTyped
<1>3. ASSUME NEW place \in Places PROVE ~Start(m, place)
    <2>1. Start(m, place) => turn'[m] = AnsweredIn(m, place)
        BY TypedParts, StartTyped
    <2>2. turn'[m] = AnsweredIn(m, place) => turn'[m].stage = "started"
        BY DEF AnsweredIn
    <2> QED BY <2>1, <2>2
<1>4. Receive(m) \/ ReceiveUnread(m)
    <2>1. ~ChooseChannel(m)
        BY <1>2, <1>3, ThreadIsPlace DEF ChooseChannel
    <2>2. ~OpenThread(m)
        BY <1>3, PostsArePlaces DEF OpenThread
    <2>3. ~FailToOpenThread(m)
        BY <1>2, <1>3, ThreadIsPlace, PostsArePlaces DEF FailToOpenThread, WithoutThread, Drop
    <2>4. ~Respond(m)
        BY <1>2 DEF Respond
    <2> QED BY <2>1, <2>2, <2>3, <2>4 DEF OnMessage
<1>5. ~ReceiveUnread(m)
    <2>1. ReceiveUnread(m) => turn[m].stage = "received" /\ read' = read
        BY DEF ReceiveUnread, At
    <2>2. turn[m].stage = "received" => read[m] = 0
        BY DEF History, ReadBefore
    <2> QED BY <2>1, <2>2
<1>6. Receive(m) /\ log' = log /\ read'[m] = Len(log[p])
    <2>1. Receive(m)
        BY <1>4, <1>5
    <2> QED BY <2>1, TypedParts DEF Receive
<1>7. StartsForumPost(m) \/ ~RecentlyHere(m)
    <2>1. CASE Decide(m, InThread(m) /\ RecentlyHere(m))
        BY <1>2, <2>1 DEF Decide
    <2>2. CASE Decide(m, TRUE)
        BY <1>2, <2>2 DEF Decide
    <2> QED BY <1>6, <2>1, <2>2 DEF Receive
<1>8. log[p] \in Seq(Posts)
    BY <1>1, TypedParts
<1>9. ASSUME NEW i \in DOMAIN log[p], NEW j \in DOMAIN log[p],
             log[p][i] \in Answers, log[p][j] = m, i < j
      PROVE  Len(log[p]) - i >= Window
    <2>1. CASE StartsForumPost(m)
        <3>1. j = 1
            BY <1>9, <2>1 DEF StartsForumPost, History, StarterFirst
        <3> QED BY <1>8, <1>9, <3>1
    <2>2. CASE ~RecentlyHere(m)
        <3>1. ~(i > Len(log[p]) - Window)
            BY <1>9, <2>2 DEF RecentlyHere
        <3> QED BY <1>8, <3>1, WindowAssumption
    <2> QED BY <1>7, <2>1, <2>2
<1>10. \A j \in DOMAIN log[p] : j <= Len(log[p])
    BY <1>8
<1> QED BY <1>6, <1>9, <1>10

\* A task goes on: it is not received again.
LEMMA StageMoves ==
    ASSUME TypeOK, NEW m \in Messages, OnMessage(m)
    PROVE  turn'[m].stage \notin {"none", "received"}
<1>1. ASSUME NEW stage \in {"addressed", "ignored", "dropped", "opening", "answered"}, Goto(m, stage)
      PROVE  turn'[m].stage = stage
    BY <1>1, TypedParts, GotoTyped
<1>2. ASSUME NEW place, Start(m, place)
      PROVE  turn'[m].stage = "started"
    BY <1>2, TypedParts DEF Start, AnsweredIn
<1> QED BY <1>1, <1>2 DEF OnMessage, Receive, ReceiveUnread, Decide, ChooseChannel, OpenThread,
                          FailToOpenThread, WithoutThread, Drop, Respond

LEMMA HistoryTask ==
    ASSUME TypeOK, SentFirst, History, NEW m \in Messages, OnMessage(m)
    PROVE  History'
<1>1. /\ message' = message
      /\ \A n \in Messages \ {m} : turn'[n] = turn[n]
    BY TaskSteps
<1>2. \A n \in Messages \ {m} : read'[n] = read[n]
    BY TypedParts DEF OnMessage, Receive, ReceiveUnread, ChooseChannel, OpenThread,
                      FailToOpenThread, Respond
<1>3. /\ message[m].place # None
      /\ threads \subseteq threads' /\ threads' \subseteq threads \cup {m}
      /\ turn'[m].place # None => turn'[m].place \in Here'
    BY AnsweredHere DEF History
<1>4. Here \subseteq Here'
    BY <1>3 DEF Here
<1>5. Written
    BY TaskWrites DEF History
<1>6. Placed'
    <2>1. \A q \in Places : \A j \in DOMAIN log'[q] :
              log'[q][j] \in Messages => message[log'[q][j]].place # None
        <3> SUFFICES ASSUME NEW q \in Places, NEW j \in DOMAIN log'[q], log'[q][j] \in Messages
                     PROVE  message[log'[q][j]].place # None
            OBVIOUS
        <3>1. CASE j \in DOMAIN log[q]
            <4>1. log'[q][j] = log[q][j]
                BY <1>5, <3>1, WrittenAt
            <4> QED BY <3>1, <4>1 DEF History, Placed
        <3>2. CASE j \notin DOMAIN log[q]
            <4>1. message'[log'[q][j]].place = q
                BY <1>5, <3>2, WrittenAt
            <4> QED BY <1>1, <4>1, PlacesAssumption, AnswersAssumption DEF Places, Posts
        <3> QED BY <3>1, <3>2
    <2>2. \A n \in Messages : turn'[n].place # None => turn'[n].place \in Here'
        BY <1>1, <1>3, <1>4 DEF History, Placed
    <2> QED BY <1>1, <1>3, <1>4, <2>1, <2>2 DEF History, Placed
<1>7. StarterFirst'
    <2>1. ASSUME NEW q \in Places \ Here' PROVE log'[q] = <<>>
        BY <1>4, <1>5, <2>1 DEF Written, History, StarterFirst
    <2>2. ASSUME NEW n \in Messages, message[n].place = n,
                 NEW j \in DOMAIN log'[n], log'[n][j] = n
          PROVE  j = 1
        <3>0. n \in Places /\ n # None
            BY PostsArePlaces, PlacesAssumption
        <3>1. j \in DOMAIN log[n]
            BY <1>5, <2>2, <3>0, WrittenAt
        <3>2. log'[n][j] = log[n][j]
            BY <1>5, <3>0, <3>1, WrittenAt
        <3> QED BY <2>2, <3>1, <3>2 DEF History, StarterFirst
    <2> QED BY <1>1, <2>1, <2>2 DEF StarterFirst
<1>8. ReadBefore' /\ FollowUpsHeard'
    <2>1. turn'[m].stage \notin {"none", "received"}
        BY StageMoves
    <2>2. \A n \in Messages : turn'[n].stage \in {"none", "received"} => read'[n] = 0
        BY <1>1, <1>2, <2>1 DEF History, ReadBefore
    <2>3. ASSUME NEW n \in Messages PROVE HeardOrFar(n)'
        <3>1. CASE n = m
            BY <1>1, <3>1, PassedOverNow DEF HeardOrFar, At, InThread
        <3>2. CASE n # m
            <4>1. HeardOrFar(n)
                BY HeardOrFarIs DEF History
            <4> QED BY <1>1, <1>2, <1>5, <3>2, <4>1, PassedOverStays
        <3> QED BY <3>1, <3>2
    <2> QED BY <2>2, <2>3 DEF ReadBefore, FollowUpsHeard, HeardOrFar, At, InThread
<1> QED BY <1>6, <1>7, <1>8 DEF History

LEMMA HistoryNext == TypeOK /\ SentFirst /\ History /\ [Next]_vars => History'
<1> SUFFICES ASSUME TypeOK, SentFirst, History, [Next]_vars PROVE History'
    OBVIOUS
<1>1. ASSUME NEW post \in Posts, UserOpensThread(post) PROVE History'
    <2>1. threads' = threads \cup {post} /\ UNCHANGED <<message, log, turn, read>>
          /\ post \in ToSet(log[Channel])
        BY <1>1 DEF UserOpensThread
    <2>2. post \in Messages => message[post].place # None
        BY <2>1, PostsArePlaces DEF ToSet, History, Placed
    <2>3. Placed' /\ StarterFirst'
        BY <2>1, <2>2 DEF History, Placed, StarterFirst, Here
    <2>4. ReadBefore' /\ FollowUpsHeard'
        BY <2>1 DEF History, ReadBefore, FollowUpsHeard, At, InThread
    <2> QED BY <2>3, <2>4 DEF History
<1>2. CASE UNCHANGED vars
    BY <1>2 DEF vars, History, Placed, StarterFirst, ReadBefore, FollowUpsHeard, At, InThread, Here
<1> QED BY <1>1, <1>2, HistoryPost, HistoryTask DEF Next

\* For any window, a follow-up in a thread Pixie has written in is passed over only
\* where Discord refused the history or Pixie's last post was out of the window
\* when it was (_thread_has_bot_context).
THEOREM FollowUpsAreHeard == Spec => []FollowUpsHeard
<1>1. Init => TypeOK /\ SentFirst /\ History
    BY TypedInit, SentFirstInit, HistoryInit
<1>2. TypeOK /\ SentFirst /\ History /\ [Next]_vars => TypeOK' /\ SentFirst' /\ History'
    BY TypedNext, SentFirstNext, HistoryNext
<1>3. History => FollowUpsHeard
    BY DEF History
<1> QED BY <1>1, <1>2, <1>3, PTL DEF Spec
=============================================================================
