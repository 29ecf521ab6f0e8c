--------------------------- MODULE Conversations ---------------------------
(***************************************************************************)
(* Where Pixie answers, and what it remembers there: on_message of         *)
(* discord/bot.py up to the hand-over to the orchestrator, for one channel *)
(* of a server with its threads.                                           *)
(*                                                                         *)
(* Every message is handled by a task of its own, which waits for Discord  *)
(* between looking at the thread, opening a thread and posting; meanwhile  *)
(* users write on and open threads themselves.  A turn is represented by   *)
(* the message that asked for it, its progress message and reply by one    *)
(* post.  What a turn does between its start and its answer is Workflow's, *)
(* where the turns of one key share a checkpoint.                          *)
(***************************************************************************)
EXTENDS Naturals, FiniteSets, SequencesExt

CONSTANTS
    Messages,     \* of users
    Channel,
    Window,       \* posts of a thread that are read: 25 in the code
    None

ASSUME WindowAssumption == Window \in Nat \ {0}
ASSUME PlacesAssumption == Channel \notin Messages /\ None \notin Messages \cup {Channel}

VARIABLES
    message,      \* the users' messages: where, and to whom
    log,          \* external: the posts of each place, oldest first
    threads,      \* external: the posts a thread hangs on; its id is theirs
    turn,         \* what becomes of each message: its task and its turn
    read          \* history: posts of the place when they were read, or 0

vars == <<message, log, threads, turn, read>>

\* A post is a user's message or Pixie's answer to one.
Answer(m) == <<m>>
Answers == {Answer(m) : m \in Messages}
Posts == Messages \cup Answers
Places == {Channel} \cup Posts

ASSUME AnswersAssumption == Answers \cap (Messages \cup {Channel, None}) = {}

Unsent == [place |-> None, mentions |-> FALSE, ref |-> None]
NoTurn == [stage |-> "none", place |-> None, key |-> None]

Init ==
    /\ message = [m \in Messages |-> Unsent]
    /\ log = [p \in Places |-> <<>>]
    /\ threads = {}
    /\ turn = [m \in Messages |-> NoTurn]
    /\ read = [m \in Messages |-> 0]

At(m, stage) == turn[m].stage = stage
Goto(m, stage) == turn' = [turn EXCEPT ![m].stage = stage]

-----------------------------------------------------------------------------
(* What Discord's users do.                                                *)

\* A message in the channel, in a thread, or that starts a post of a forum,
\* which is a thread with its starter in it; it may reply to an earlier one.
PostMessage(m, p, mentions, ref) ==
    /\ message[m] = Unsent
    /\ p \in {Channel, m} \cup threads
    /\ ref \in ToSet(log[p]) \cup {None}
    /\ message' = [message EXCEPT ![m] = [place |-> p, mentions |-> mentions, ref |-> ref]]
    /\ log' = [log EXCEPT ![p] = Append(@, m)]
    /\ threads' = IF p = m THEN threads \cup {m} ELSE threads
    /\ Goto(m, "received")
    /\ UNCHANGED read

UserOpensThread(post) ==
    /\ post \in ToSet(log[Channel]) \ threads
    /\ threads' = threads \cup {post}
    /\ UNCHANGED <<message, log, turn, read>>

-----------------------------------------------------------------------------
(* on_message                                                              *)

InThread(m) == message[m].place # Channel
StartsForumPost(m) == message[m].place = m
RepliesToBot(m) == message[m].ref \in Answers
Addressed(m) == message[m].mentions \/ RepliesToBot(m)

\* Slip: one post fewer is read.
RecentlyHereShort(m) ==
    LET posts == log[message[m].place]
    IN  \E i \in DOMAIN posts : i > Len(posts) - Window + 1 /\ posts[i] \in Answers

\* The bot is among the authors of the last Window posts of the thread, of
\* which the message itself is one.
RecentlyHere(m) ==
    LET posts == log[message[m].place]
    IN  \E i \in DOMAIN posts : i > Len(posts) - Window /\ posts[i] \in Answers

\* should_dispatch_message; the starter of a forum post is never looked at.
Decide(m, context) ==
    Goto(m, IF ~StartsForumPost(m) /\ (Addressed(m) \/ context) THEN "addressed" ELSE "ignored")

\* _thread_has_bot_context: a starter by the bot counts if it is still cached,
\* else the history is read.
Receive(m) ==
    /\ At(m, "received")
    /\ \/ Decide(m, InThread(m) /\ RecentlyHere(m))
       \/ message[m].place \in Answers /\ Decide(m, TRUE)
    /\ read' = [read EXCEPT ![m] = Len(log[message[m].place])]
    /\ UNCHANGED <<message, log, threads>>

\* An error that is no HTTPException leaves on_message, which nothing catches
\* before the turn's try: the user gets no answer and no error.
Drop(m) == Goto(m, "dropped")

\* A history that Discord refuses counts as one without the bot; when the
\* connection fails while it is read, the message is dropped.
ReceiveUnread(m) ==
    /\ At(m, "received")
    /\ InThread(m)
    /\ \/ Decide(m, FALSE)
       \/ ~StartsForumPost(m) /\ Drop(m)
    /\ UNCHANGED <<message, log, threads, read>>

\* _message_thread: that of the message, or that of the one it replies to.
MessageThread(m) ==
    IF InThread(m) THEN message[m].place
    ELSE IF message[m].ref \in threads THEN message[m].ref ELSE None

\* Slip: the key of a turn is that of the message as it came in.
AnsweredInAsItCame(m, place) ==
    [stage |-> "started", place |-> place,
     key |-> IF MessageThread(m) # None THEN MessageThread(m) ELSE m]

\* Slip: without a thread, channel and message make up the key.
AnsweredInByMessage(m, place) ==
    [stage |-> "started", place |-> place,
     key |-> IF place = Channel THEN <<Channel, m>> ELSE place]

\* The id of the response channel: a thread, the message replied with, the channel.
AnsweredIn(m, place) ==
    [stage |-> "started", place |-> place,
     key |-> IF place = Channel /\ RepliesToBot(m) THEN m ELSE place]

Start(m, place) == turn' = [turn EXCEPT ![m] = AnsweredIn(m, place)]

\* _dispatch_response_channel: in a thread, or a new thread is asked for.
ChooseChannel(m) ==
    /\ At(m, "addressed")
    /\ IF MessageThread(m) # None THEN Start(m, MessageThread(m)) ELSE Goto(m, "opening")
    /\ UNCHANGED <<message, log, threads, read>>

OpenThread(m) ==
    /\ At(m, "opening")
    /\ m \notin threads
    /\ threads' = threads \cup {m}
    /\ Start(m, m)
    /\ UNCHANGED <<message, log, read>>

\* _response_channel: by now the message replied to may have a thread.
WithoutThread(m) == Start(m, IF MessageThread(m) # None THEN MessageThread(m) ELSE Channel)

\* Discord refuses, because the message has a thread, for want of permission, or
\* when an attempt whose outcome was lost is repeated; or the connection fails
\* and the message is dropped.  In either case the thread may have been opened.
FailToOpenThread(m) ==
    /\ At(m, "opening")
    /\ \/ UNCHANGED threads
       \/ threads' = threads \cup {m}
    /\ WithoutThread(m) \/ Drop(m)
    /\ UNCHANGED <<message, log, read>>

\* The turn posts its progress, reply or error, or Discord refuses them all.
Respond(m) ==
    /\ At(m, "started")
    /\ \/ log' = [log EXCEPT ![turn[m].place] = Append(@, Answer(m))]
       \/ UNCHANGED log
    /\ Goto(m, "answered")
    /\ UNCHANGED <<message, threads, read>>

-----------------------------------------------------------------------------
OnMessage(m) ==
    \/ Receive(m) \/ ReceiveUnread(m)
    \/ ChooseChannel(m)
    \/ OpenThread(m)
    \/ FailToOpenThread(m)
    \/ Respond(m)

Next ==
    \/ \E m \in Messages, p \in Places, mentions \in BOOLEAN, ref \in Posts \cup {None} :
           PostMessage(m, p, mentions, ref)
    \/ \E post \in Posts : UserOpensThread(post)
    \/ \E m \in Messages : OnMessage(m)

Spec == Init /\ [][Next]_vars
-----------------------------------------------------------------------------
\* Every variable keeps its type.
TypeOK ==
    /\ message \in [Messages -> [place : Places \cup {None}, mentions : BOOLEAN,
                                 ref : Posts \cup {None}]]
    /\ log \in [Places -> Seq(Posts)]
    /\ threads \subseteq Posts
    /\ turn \in [Messages ->
                    [stage : {"none", "received", "ignored", "dropped", "addressed", "opening",
                              "started", "answered"},
                     place : Places \cup {None}, key : Places \cup {None}]]
    /\ read \in [Messages -> Nat]

Started == {m \in Messages : turn[m].place # None}

\* Both could not get a thread, and neither replied to Pixie.
ShareChannel(m, n) == turn[m].key = Channel /\ turn[n].key = Channel
\* The thread users opened on a message Pixie had answered in the channel.
ContinuesThread(m, n) == turn[m].place = Channel /\ turn[n].place = m /\ RepliesToBot(m)

\* Turns have one memory exactly if they are answered in one thread: a thread
\* remembers all that was asked in it or answered from outside in it, and a turn
\* reads no other conversation, but for those that had no thread (on_message).
MemoryFollowsPlace ==
    \A m, n \in Started :
        (turn[m].key = turn[n].key) <=>
            \/ m = n
            \/ turn[m].place = turn[n].place /\ turn[m].place # Channel
            \/ ShareChannel(m, n)
            \/ ContinuesThread(m, n) \/ ContinuesThread(n, m)

\* A follow-up in a thread that Pixie took part in before is passed over only if
\* Discord refused the history, or Pixie's last post before it was Window or
\* more posts back when it was (_thread_has_bot_context).
FollowUpsHeard ==
    \A m \in Messages :
        At(m, "ignored") /\ InThread(m) /\ read[m] > 0 =>
            LET posts == log[message[m].place]
            IN  \A i, j \in DOMAIN posts :
                    posts[i] \in Answers /\ posts[j] = m /\ i < j => read[m] - i >= Window
=============================================================================
