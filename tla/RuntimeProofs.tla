--------------------------- MODULE RuntimeProofs ----------------------------
(***************************************************************************)
(* What module BotRuntime keeps for any guilds and any turns under way.    *)
(***************************************************************************)
EXTENDS BotRuntime, TLAPS

-----------------------------------------------------------------------------
(* Types.                                                                  *)

LEMMA TypedInit == Init => TypeOK
BY DEF Init, TypeOK, Closers, Ended, Over, Finished

LEMMA TypedRuntime ==
    ASSUME TypeOK, Running \/ TaskReturns \/ TaskRaises \/ Serving \/ BeginStop
    PROVE  TypeOK'
<1> USE DEF TypeOK, Ended, Over, life, commands, messages
<1>1. CASE Login \/ SetupHook \/ TaskReturns \/ TaskRaises \/ Disconnect \/ EndForGood
    BY <1>1 DEF Login, SetupHook, Opened, TaskReturns, TaskRaises, Disconnect, EndForGood
<1>2. CASE Ready
    BY <1>2 DEF Ready, OnReady
<1>3. CASE Resume
    BY <1>3 DEF Resume
<1>4. CASE Serving \/ BeginStop
    BY <1>4 DEF Serving, Started, StopWaits, Stopped, BeginStop, Stop
<1> QED BY <1>1, <1>2, <1>3, <1>4 DEF Running

LEMMA TypedClosing ==
    ASSUME TypeOK, NEW c \in Closers, Closing(c)
    PROVE  TypeOK'
<1> USE DEF TypeOK, life, commands, messages
<1>1. CASE CloseStore(c)
    BY <1>1 DEF CloseStore
<1>2. CASE StoreCloses(c)
    BY <1>2 DEF StoreCloses, Closed
<1>3. CASE CloseClient(c)
    BY <1>3 DEF CloseClient
<1> QED BY <1>1, <1>2, <1>3 DEF Closing

LEMMA TypedCommands ==
    ASSUME TypeOK,
           \/ Syncing
           \/ \E g \in Guilds : AddedWhileAway(g) \/ AddedOnline(g) \/ SyncJoined(g)
    PROVE  TypeOK'
<1> USE DEF TypeOK, life, messages
<1>1. CASE ClearGlobals
    BY <1>1 DEF ClearGlobals
<1>2. ASSUME NEW g \in Guilds, SyncGuild(g) PROVE TypeOK'
    BY <1>2 DEF SyncGuild
<1>3. CASE FailSync
    BY <1>3 DEF FailSync
<1>4. ASSUME NEW g \in Guilds, AddedWhileAway(g) \/ SyncJoined(g) PROVE TypeOK'
    BY <1>4 DEF AddedWhileAway, SyncJoined
<1>5. ASSUME NEW g \in Guilds, AddedOnline(g) PROVE TypeOK'
    BY <1>5 DEF AddedOnline, WithJoin
<1> QED BY <1>1, <1>2, <1>3, <1>4, <1>5 DEF Syncing

LEMMA TypedTurn ==
    ASSUME TypeOK, NEW t \in Turns, BeginTurn(t) \/ TurnStep(t)
    PROVE  TypeOK'
<1> USE DEF TypeOK, Finished, life, commands
<1>1. CASE BeginTurn(t) \/ SaveTurn(t) \/ AnswerTurn(t) \/ CancelTurn(t)
    BY <1>1 DEF BeginTurn, SaveTurn, AnswerTurn, CancelTurn
<1>2. CASE FailTurn(t)
    BY <1>2 DEF FailTurn, AfterFailure
<1>3. CASE PublishError(t)
    BY <1>3 DEF PublishError
<1> QED BY <1>1, <1>2, <1>3 DEF TurnStep

LEMMA TypedNext == TypeOK /\ [Next]_vars => TypeOK'
<1>1. TypeOK /\ UNCHANGED vars => TypeOK'
    BY DEF TypeOK, vars, life, commands, messages
<1> QED BY <1>1, TypedRuntime, TypedClosing, TypedCommands, TypedTurn DEF Next

\* Every variable of BotRuntime keeps its type, for any guilds and turns.
THEOREM TypeCorrect == Spec => []TypeOK
BY TypedInit, TypedNext, PTL DEF Spec

-----------------------------------------------------------------------------
(* No guild sees a command twice.                                          *)

ClearedFirst ==
    /\ task \in {"online", "offline"} \/ joins \cup synced # {} => ready.stage # "none"
    /\ globals = "stale" => ready.stage \in {"none", "clear"}
    /\ ready.left # {} => ready.stage = "sync"

LEMMA ClearedInit == Init => ClearedFirst
BY DEF Init, ClearedFirst

LEMMA ClearedNext == TypeOK /\ ClearedFirst /\ [Next]_vars => ClearedFirst'
<1> SUFFICES ASSUME TypeOK, ClearedFirst, [Next]_vars PROVE ClearedFirst'
    OBVIOUS
<1> USE DEF TypeOK, ClearedFirst, Ended
<1>1. CASE Ready
    BY <1>1 DEF Ready, OnReady
<1>2. CASE Resume
    BY <1>2 DEF Resume
<1>3. CASE Login \/ SetupHook \/ Disconnect \/ EndForGood \/ TaskReturns \/ TaskRaises
    BY <1>3 DEF Login, SetupHook, Disconnect, EndForGood, TaskReturns, TaskRaises, commands
<1>4. CASE Serving \/ BeginStop \/ \E c \in Closers : Closing(c)
    BY <1>4 DEF Serving, Started, StopWaits, Stopped, BeginStop, Closing, CloseStore,
                StoreCloses, CloseClient, commands
<1>5. ASSUME NEW g \in Guilds, AddedOnline(g) PROVE ClearedFirst'
    BY <1>5 DEF AddedOnline, WithJoin, life
<1>6. ASSUME NEW g \in Guilds, AddedWhileAway(g) \/ SyncJoined(g) PROVE ClearedFirst'
    BY <1>6 DEF AddedWhileAway, SyncJoined, life
<1>7. CASE ClearGlobals
    BY <1>7 DEF ClearGlobals, life
<1>8. ASSUME NEW g \in Guilds, SyncGuild(g) PROVE ClearedFirst'
    BY <1>8 DEF SyncGuild, life
<1>9. CASE FailSync
    BY <1>9 DEF FailSync, life
<1>10. ASSUME NEW t \in Turns, BeginTurn(t) \/ TurnStep(t) PROVE ClearedFirst'
    BY <1>10 DEF BeginTurn, TurnStep, SaveTurn, AnswerTurn, FailTurn, PublishError, CancelTurn,
                 life, commands
<1>11. CASE UNCHANGED vars
    BY <1>11 DEF vars, life, commands
<1> QED BY <1>1, <1>2, <1>3, <1>4, <1>5, <1>6, <1>7, <1>8, <1>9, <1>10, <1>11
        DEF Next, Running, Syncing

\* Guilds are given their commands only after the global ones of earlier versions
\* were cleared or Discord refused, or while they are being cleared, whatever
\* guilds come and go (on_ready, on_guild_join).
THEOREM CommandsAppearOnce == Spec => []NoDuplicateCommands
<1>1. ClearedFirst => NoDuplicateCommands
    BY DEF ClearedFirst, NoDuplicateCommands
<1> QED BY <1>1, TypedInit, TypedNext, ClearedInit, ClearedNext, PTL DEF Spec

-----------------------------------------------------------------------------
(* The store and the client: opened once, closed in order.                 *)

Before == {"login", "setup"}     \* the task, until the store is open

\* Before the store is open nothing has begun that could close it.
NotYet ==
    task \in Before =>
        /\ web = "starting"
        /\ ready.stage = "none"
        /\ client = "open"
        /\ \A c \in Closers : closer[c] = "none"

\* What needs the store is there only after it was opened, unless it failed.
StoreWasOpened ==
    /\ task \in {"connect", "online", "offline", "closing"} => store # "none"
    /\ ready.stage # "none" => store # "none"
    /\ web \notin {"starting", "aborted"} => store # "none"
    /\ \A c \in Closers : closer[c] # "none" => store # "none"

\* The store is closed first and the client next.
ClosedInOrder ==
    /\ \A c \in Closers :
        /\ closer[c] = "store" => store \in {"closing", "closed"}
        /\ closer[c] \in {"client", "done"} => store = "closed"
        /\ closer[c] = "done" => client = "closed"
    /\ client = "closed" => store = "closed"
    /\ store = "closing" => \E c \in Closers : closer[c] = "store"
    /\ store \in {"closing", "closed"} => \E c \in Closers : closer[c] # "none"

\* Who could not close the store left it to the other.
LeftToTheOther ==
    /\ closer["web"] = "raised" => closer["task"] \in {"store", "client", "done"}
    /\ closer["task"] = "raised" => closer["web"] \in {"store", "client", "done"}
    /\ web = "waiting" => client = "closed"

Orderly == NotYet /\ StoreWasOpened /\ ClosedInOrder /\ LeftToTheOther /\ StopClosesEverything

LEMMA OrderlyInit == Init => Orderly
BY DEF Init, Orderly, NotYet, StoreWasOpened, ClosedInOrder, LeftToTheOther,
       StopClosesEverything, Closers, Before

LEMMA OrderlyRuntime ==
    ASSUME TypeOK, Orderly, Running \/ TaskReturns \/ TaskRaises \/ Serving \/ BeginStop
    PROVE  Orderly'
<1> USE DEF Orderly, NotYet, StoreWasOpened, ClosedInOrder, LeftToTheOther,
            StopClosesEverything, Closers, Before, TypeOK, Ended, Over,
            life, commands, messages
<1>1. CASE Login
    BY <1>1 DEF Login
<1>2. CASE SetupHook
    BY <1>2 DEF SetupHook, Opened
<1>3. CASE Ready
    BY <1>3 DEF Ready, OnReady
<1>4. CASE Resume \/ Disconnect
    BY <1>4 DEF Resume, Disconnect
<1>5. CASE EndForGood
    BY <1>5 DEF EndForGood
<1>6. CASE TaskReturns \/ TaskRaises
    BY <1>6 DEF TaskReturns, TaskRaises
<1>7. CASE Started
    BY <1>7 DEF Started
<1>8. CASE StopWaits
    BY <1>8 DEF StopWaits
<1>9. CASE Stopped
    BY <1>9 DEF Stopped
<1>10. CASE BeginStop
    BY <1>10 DEF BeginStop, Stop
<1> QED BY <1>1, <1>2, <1>3, <1>4, <1>5, <1>6, <1>7, <1>8, <1>9, <1>10 DEF Running, Serving

LEMMA OrderlyClosing ==
    ASSUME TypeOK, Orderly, NEW c \in Closers, Closing(c)
    PROVE  Orderly'
<1> USE DEF Orderly, NotYet, StoreWasOpened, ClosedInOrder, LeftToTheOther,
            StopClosesEverything, Closers, Before, TypeOK, Ended, Over, commands, messages
<1>1. CASE CloseStore(c)
    BY <1>1 DEF CloseStore
<1>2. CASE StoreCloses(c)
    BY <1>2 DEF StoreCloses, Closed
<1>3. CASE CloseClient(c)
    BY <1>3 DEF CloseClient
<1> QED BY <1>1, <1>2, <1>3 DEF Closing

\* Commands and turns touch neither, but on_ready is not begun by them.
LEMMA OrderlyElsewhere ==
    ASSUME Orderly, TypeOK, UNCHANGED life, ready'.stage # "none" => ready.stage # "none"
    PROVE  Orderly'
BY DEF Orderly, NotYet, StoreWasOpened, ClosedInOrder, LeftToTheOther, StopClosesEverything,
       life

LEMMA ElsewhereKeeps ==
    ASSUME TypeOK, ClearedFirst,
           \/ Syncing
           \/ \E g \in Guilds : AddedWhileAway(g) \/ AddedOnline(g) \/ SyncJoined(g)
           \/ \E t \in Turns : BeginTurn(t) \/ TurnStep(t)
           \/ UNCHANGED vars
    PROVE  UNCHANGED life /\ (ready'.stage # "none" => ready.stage # "none")
<1>1. CASE Syncing
    BY <1>1 DEF Syncing, ClearGlobals, SyncGuild, FailSync, TypeOK, ClearedFirst
<1>2. ASSUME NEW g \in Guilds, AddedWhileAway(g) \/ AddedOnline(g) \/ SyncJoined(g)
      PROVE  UNCHANGED life /\ (ready'.stage # "none" => ready.stage # "none")
    BY <1>2 DEF AddedWhileAway, AddedOnline, SyncJoined
<1>3. ASSUME NEW t \in Turns, BeginTurn(t) \/ TurnStep(t)
      PROVE  UNCHANGED life /\ ready' = ready
    BY <1>3 DEF BeginTurn, TurnStep, SaveTurn, AnswerTurn, FailTurn, PublishError, CancelTurn,
                commands
<1>4. CASE UNCHANGED vars
    BY <1>4 DEF vars, commands
<1> QED BY <1>1, <1>2, <1>3, <1>4

LEMMA OrderlyNext == TypeOK /\ ClearedFirst /\ Orderly /\ [Next]_vars => Orderly'
BY OrderlyRuntime, OrderlyClosing, OrderlyElsewhere, ElsewhereKeeps DEF Next

\* A server that came to its end after it had started leaves neither the store nor
\* the client open, unless the bot's own task is at that moment closing them
\* (ManagedDiscordRuntime.stop, PixieDiscordBot.close).
THEOREM StopCloses == Spec => []StopClosesEverything
<1>1. Orderly => StopClosesEverything
    BY DEF Orderly
<1> QED BY <1>1, TypedInit, TypedNext, ClearedInit, ClearedNext, OrderlyInit, OrderlyNext,
           PTL DEF Spec

-----------------------------------------------------------------------------
(* Turns that end in silence.                                              *)

LEMMA SilenceInit == Init => SilenceHasReason
BY DEF Init, SilenceHasReason

\* Discord's refusals, a closed client and the end of the server are for good.
LEMMA ReasonsStay ==
    ASSUME TypeOK, [Next]_vars
    PROVE  /\ refused \subseteq refused'
           /\ client = "closed" => client' = "closed"
           /\ web \in Over => web' \in Over
BY DEF Next, Running, Login, SetupHook, Ready, Resume, Disconnect, EndForGood, TaskReturns,
       TaskRaises, Closing, CloseStore, StoreCloses, CloseClient, Serving, Started, StopWaits,
       Stopped, BeginStop, AddedWhileAway, AddedOnline, SyncJoined, Syncing, ClearGlobals,
       SyncGuild, FailSync, BeginTurn, TurnStep, SaveTurn, AnswerTurn, FailTurn, PublishError,
       CancelTurn, TypeOK, Over, vars, life, commands, messages

LEMMA SilenceNext == TypeOK /\ SilenceHasReason /\ [Next]_vars => SilenceHasReason'
<1> SUFFICES ASSUME TypeOK, SilenceHasReason, [Next]_vars PROVE SilenceHasReason'
    OBVIOUS
<1>1. ASSUME NEW t \in Turns, turn'[t] = "silent", turn[t] # "silent"
      PROVE  t \in refused' \/ client = "closed" \/ web \in Over
    <2>1. turn' # turn
        BY <1>1
    <2>2. PICK u \in Turns : BeginTurn(u) \/ TurnStep(u)
        BY <2>1 DEF Next, Running, Login, SetupHook, Ready, Resume, Disconnect, EndForGood,
                    TaskReturns, TaskRaises, Closing, CloseStore, StoreCloses, CloseClient,
                    Serving, Started, StopWaits, Stopped, BeginStop, AddedWhileAway,
                    AddedOnline, SyncJoined, Syncing, ClearGlobals, SyncGuild, FailSync,
                    vars, messages
    <2> QED BY <1>1, <2>2 DEF BeginTurn, TurnStep, SaveTurn, AnswerTurn, FailTurn, AfterFailure,
                              PublishError, CancelTurn, TypeOK
<1> QED BY <1>1, ReasonsStay DEF SilenceHasReason

\* Whoever gets no answer to a message that was taken on either met Discord's
\* refusal of the error too, or a bot on its way out (on_message, publish_error).
THEOREM NoSilenceWithoutReason == Spec => []SilenceHasReason
BY TypedInit, TypedNext, SilenceInit, SilenceNext, PTL DEF Spec
=============================================================================
