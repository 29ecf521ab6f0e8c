----------------------------- MODULE BotRuntime -----------------------------
(***************************************************************************)
(* The life of the bot inside the web application: ManagedDiscordRuntime   *)
(* and the events of PixieDiscordBot (discord/bot.py) under the lifespan   *)
(* of web/app.py.                                                          *)
(*                                                                         *)
(* Several tasks share the bot.  The bot's own logs in, opens the          *)
(* checkpoint store and keeps the connection to Discord, until Discord ends *)
(* it for good.  The web server starts it and closes it.  Every event has a *)
(* task too: on_ready and on_guild_join give guilds their commands, and    *)
(* on_message runs a turn, all of which may still be under way when the    *)
(* bot closes.                                                             *)
(***************************************************************************)
EXTENDS Naturals, FiniteSets

CONSTANTS Guilds, Turns

VARIABLES
    web,       \* the lifespan of the web application
    task,      \* the bot's own task: Client.start
    closer,    \* how far close() has come, for each task that has called it
    store,     \* the checkpoint store of the orchestrator
    client,    \* external: Discord's http client and gateway; closed for good
    guilds,    \* external: guilds the bot knows of
    away,      \* external: guilds that added the bot while it was not connected
    ready,     \* on_ready: the guilds it still has to give commands to
    joins,     \* guilds whose on_guild_join is under way
    globals,   \* external: global commands of earlier versions
    synced,    \* external: guilds that were given the commands
    excused,   \* history: guilds the program gave up, after a refusal
    turn,      \* the turns of on_message
    refused    \* history: turns whose error Discord refused to post

life == <<web, task, closer, store, client>>
commands == <<guilds, away, ready, joins, globals, synced, excused>>
messages == <<turn, refused>>
vars == <<life, commands, messages>>

Closers == {"task", "web"}
Ended == {"returned", "raised"}
Over == {"aborted", "stopped", "failed"}
Finished == {"answered", "told", "silent"}

Init ==
    /\ web = "starting"
    /\ task = "login"
    /\ closer = [c \in Closers |-> "none"]
    /\ store = "none"
    /\ client = "open"
    /\ guilds \in SUBSET Guilds
    /\ away = {}
    /\ ready = [stage |-> "none", left |-> {}]
    /\ joins = {}
    /\ globals = "stale"
    /\ synced = {}
    /\ excused = {}
    /\ turn = [t \in Turns |-> "none"]
    /\ refused = {}

-----------------------------------------------------------------------------
(* The bot's task                                                          *)

\* The token may be refused.
Login ==
    /\ task = "login"
    /\ task' \in {"setup", "raised"}
    /\ UNCHANGED <<web, closer, store, client, commands, messages>>

\* setup_hook: PixieOrchestrator.__aenter__
Opened == "open"

SetupHook ==
    /\ task = "setup"
    /\ \/ task' = "connect" /\ store' = Opened
       \/ task' = "raised" /\ UNCHANGED store
    /\ UNCHANGED <<web, closer, client, commands, messages>>

\* Slip: the guilds are given their commands at once.
OnReadySyncs == [stage |-> "sync", left |-> guilds]

\* on_ready notes that it has been done before it is, and begins with the
\* global commands.
OnReady == [stage |-> "clear", left |-> {}]

\* READY, with all guilds.  on_ready returns at once when it has run before: the
\* guilds that came in between get no on_guild_join either.
Ready ==
    /\ task \in {"connect", "offline"}
    /\ client = "open"
    /\ task' = "online"
    /\ guilds' = guilds \cup away
    /\ away' = {}
    /\ IF ready.stage = "none"
       THEN ready' = OnReady /\ UNCHANGED excused
       ELSE excused' = excused \cup away /\ UNCHANGED ready
    /\ UNCHANGED <<web, closer, store, client, joins, globals, synced, messages>>

\* RESUMED, with the events that were missed.
Resume ==
    /\ task = "offline"
    /\ client = "open"
    /\ task' = "online"
    /\ guilds' = guilds \cup away
    /\ joins' = joins \cup away
    /\ away' = {}
    /\ UNCHANGED <<web, closer, store, client, ready, globals, synced, excused, messages>>

Disconnect ==
    /\ task = "online"
    /\ client = "open"
    /\ task' = "offline"
    /\ UNCHANGED <<web, closer, store, client, commands, messages>>

\* Discord ends the connection for good: the client closes itself and raises, or
\* raises only (privileged intents).
EndForGood ==
    /\ task \in {"connect", "online", "offline"}
    /\ client = "open"
    /\ task' \in {"closing", "raised"}
    /\ UNCHANGED <<web, closer, store, client, commands, messages>>

\* The connection's loop notices that the client has been closed.
TaskReturns ==
    /\ task \in {"online", "offline"}
    /\ client = "closed"
    /\ task' = "returned"
    /\ UNCHANGED <<web, closer, store, client, commands, messages>>

-----------------------------------------------------------------------------
(* close: the store, then the client                                       *)

\* A store that is being closed cannot be closed by another at the same time,
\* which raises; one that was closed can.
CloseStore(c) ==
    /\ closer[c] = "none"
    /\ IF c = "task" THEN task = "closing" ELSE web = "closing"
    /\ IF store = "closing"
       THEN closer' = [closer EXCEPT ![c] = "raised"] /\ UNCHANGED store
       ELSE /\ closer' = [closer EXCEPT ![c] = "store"]
            /\ store' = IF store = "open" THEN "closing" ELSE store
    /\ UNCHANGED <<web, task, client, commands, messages>>

\* Slip: only the client is closed.
LeftOpen == "open"
Closed == "closed"

StoreCloses(c) ==
    /\ closer[c] = "store"
    /\ closer' = [closer EXCEPT ![c] = "client"]
    /\ store' = IF store = "closing" THEN Closed ELSE store
    /\ UNCHANGED <<web, task, client, commands, messages>>

CloseClient(c) ==
    /\ closer[c] = "client"
    /\ closer' = [closer EXCEPT ![c] = "done"]
    /\ client' = "closed"
    /\ UNCHANGED <<web, task, store, commands, messages>>

TaskRaises ==
    /\ task = "closing"
    /\ closer["task"] \in {"done", "raised"}
    /\ task' = "raised"
    /\ UNCHANGED <<web, closer, store, client, commands, messages>>

-----------------------------------------------------------------------------
(* start and stop                                                          *)

\* start: the bot's task ends, or the bot is ready, whichever comes first.  Nobody
\* stops a bot that did not start.
Started ==
    /\ web = "starting"
    /\ \/ task \in Ended /\ web' = "aborted"
       \/ ready.stage # "none" /\ task \notin Ended /\ web' = "serving"
    /\ UNCHANGED <<task, closer, store, client, commands, messages>>

\* Slip: stop only waits for the task.
StopByWaiting == "waiting"

\* stop closes the bot unless it is closed already.
Stop == IF client = "open" THEN "closing" ELSE "waiting"

BeginStop ==
    /\ web = "serving"
    /\ web' = Stop
    /\ UNCHANGED <<task, closer, store, client, commands, messages>>

StopWaits ==
    /\ web = "closing"
    /\ closer["web"] \in {"done", "raised"}
    /\ web' = IF closer["web"] = "done" THEN "waiting" ELSE "failed"
    /\ UNCHANGED <<task, closer, store, client, commands, messages>>

\* What the bot's task raised, also long before, is raised here.
Stopped ==
    /\ web = "waiting"
    /\ task \in Ended
    /\ web' = IF task = "returned" THEN "stopped" ELSE "failed"
    /\ UNCHANGED <<task, closer, store, client, commands, messages>>

-----------------------------------------------------------------------------
(* Commands of the guilds                                                  *)

AddedWhileAway(g) ==
    /\ g \notin guilds \cup away
    /\ task \in {"connect", "offline"}
    /\ away' = away \cup {g}
    /\ UNCHANGED <<life, guilds, ready, joins, globals, synced, excused, messages>>

\* Slip: only on_ready gives commands.
WithoutJoin(g) == joins

WithJoin(g) == joins \cup {g}

\* on_guild_join.  A guild that comes while on_ready goes through the guilds may
\* end that loop, if it iterates over the client's own collection.
AddedOnline(g) ==
    /\ g \notin guilds \cup away
    /\ task = "online"
    /\ guilds' = guilds \cup {g}
    /\ joins' = WithJoin(g)
    /\ \/ UNCHANGED <<ready, excused>>
       \/ /\ ready.stage = "sync"
          /\ ready' = [stage |-> "failed", left |-> {}]
          /\ excused' = excused \cup ready.left
    /\ UNCHANGED <<life, away, globals, synced, messages>>

\* _clear_global_commands: a refusal is logged, and the guilds are read after.
ClearGlobals ==
    /\ ready.stage = "clear"
    /\ globals' \in (IF client = "open" THEN {"cleared", "refused"} ELSE {"refused"})
    /\ ready' = [stage |-> "sync", left |-> guilds]
    /\ UNCHANGED <<life, guilds, away, joins, synced, excused, messages>>

SyncGuild(g) ==
    /\ client = "open"
    /\ g \in ready.left
    /\ ready' = [ready EXCEPT !.left = @ \ {g}]
    /\ synced' = synced \cup {g}
    /\ UNCHANGED <<life, guilds, away, joins, globals, excused, messages>>

\* A guild that is refused ends the loop, and it is not gone through again.
FailSync ==
    /\ ready.left # {}
    /\ ready' = [stage |-> "failed", left |-> {}]
    /\ excused' = excused \cup ready.left
    /\ UNCHANGED <<life, guilds, away, joins, globals, synced, messages>>

SyncJoined(g) ==
    /\ g \in joins
    /\ joins' = joins \ {g}
    /\ \/ client = "open" /\ synced' = synced \cup {g} /\ UNCHANGED excused
       \/ excused' = excused \cup {g} /\ UNCHANGED synced
    /\ UNCHANGED <<life, guilds, away, ready, globals, messages>>

-----------------------------------------------------------------------------
(* Turns: on_message, from the orchestrator's call on                      *)

BeginTurn(t) ==
    /\ turn[t] = "none"
    /\ task = "online"
    /\ turn' = [turn EXCEPT ![t] = "running"]
    /\ UNCHANGED <<life, commands, refused>>

\* The last checkpoint of the turn is written.
SaveTurn(t) ==
    /\ turn[t] = "running"
    /\ store = "open"
    /\ turn' = [turn EXCEPT ![t] = "saved"]
    /\ UNCHANGED <<life, commands, refused>>

AnswerTurn(t) ==
    /\ turn[t] = "saved"
    /\ client = "open"
    /\ turn' = [turn EXCEPT ![t] = "answered"]
    /\ UNCHANGED <<life, commands, refused>>

\* Slip: a failure leaves on_message.
AfterFailureUncaught == "lost"

\* Slip: a failure is only logged.
AfterFailureLogged == "silent"

\* An agent fails, the store has been closed, the reply is refused.
AfterFailure == "failed"

FailTurn(t) ==
    /\ turn[t] \in {"running", "saved"}
    /\ turn' = [turn EXCEPT ![t] = AfterFailure]
    /\ UNCHANGED <<life, commands, refused>>

\* publish_error
PublishError(t) ==
    /\ turn[t] = "failed"
    /\ \/ client = "open" /\ turn' = [turn EXCEPT ![t] = "told"] /\ UNCHANGED refused
       \/ /\ turn' = [turn EXCEPT ![t] = "silent"]
          /\ refused' = IF client = "open" THEN refused \cup {t} ELSE refused
    /\ UNCHANGED <<life, commands>>

\* The server has come to its end and with it the event loop.
CancelTurn(t) ==
    /\ web \in Over
    /\ turn[t] \notin Finished \cup {"none"}
    /\ turn' = [turn EXCEPT ![t] = "silent"]
    /\ UNCHANGED <<life, commands, refused>>

-----------------------------------------------------------------------------
Running == Login \/ SetupHook \/ Ready \/ Resume \/ Disconnect \/ EndForGood
Closing(c) == CloseStore(c) \/ StoreCloses(c) \/ CloseClient(c)
Serving == Started \/ StopWaits \/ Stopped
Syncing == ClearGlobals \/ (\E g \in Guilds : SyncGuild(g)) \/ FailSync
TurnStep(t) == SaveTurn(t) \/ AnswerTurn(t) \/ FailTurn(t) \/ PublishError(t) \/ CancelTurn(t)

Next ==
    \/ Running \/ TaskReturns \/ TaskRaises
    \/ \E c \in Closers : Closing(c)
    \/ Serving \/ BeginStop
    \/ \E g \in Guilds : AddedWhileAway(g) \/ AddedOnline(g) \/ SyncJoined(g)
    \/ Syncing
    \/ \E t \in Turns : BeginTurn(t) \/ TurnStep(t)

Spec == Init /\ [][Next]_vars

\* Every task goes on; Discord may take any time to connect, and nobody need
\* ever stop the server.
FairSpec ==
    /\ Spec
    /\ WF_vars(TaskReturns \/ TaskRaises)
    /\ \A c \in Closers : WF_vars(Closing(c))
    /\ WF_vars(Serving)
    /\ WF_vars(Syncing)
    /\ \A g \in Guilds : WF_vars(SyncJoined(g))
    /\ \A t \in Turns : WF_vars(TurnStep(t))
-----------------------------------------------------------------------------
\* Every variable keeps its type.
TypeOK ==
    /\ web \in {"starting", "serving", "closing", "waiting"} \cup Over
    /\ task \in {"login", "setup", "connect", "online", "offline", "closing"} \cup Ended
    /\ closer \in [Closers -> {"none", "store", "client", "done", "raised"}]
    /\ store \in {"none", "open", "closing", "closed"}
    /\ client \in {"open", "closed"}
    /\ guilds \subseteq Guilds /\ away \subseteq Guilds /\ joins \subseteq Guilds
    /\ ready \in [stage : {"none", "clear", "sync", "failed"}, left : SUBSET Guilds]
    /\ globals \in {"stale", "cleared", "refused"}
    /\ synced \subseteq Guilds /\ excused \subseteq Guilds
    /\ turn \in [Turns -> {"none", "running", "saved", "failed"} \cup Finished]
    /\ refused \subseteq Turns

\* A server that has stopped, or failed to after it had started, leaves neither
\* the store nor the client open, unless the bot's own task is just closing them
\* (stop, close).
StopClosesEverything ==
    web \in {"stopped", "failed"} =>
        \/ store = "closed" /\ client = "closed"
        \/ closer["task"] \in {"store", "client"}

\* A message that was taken on is answered with a reply or an error, unless
\* Discord refused even the error or the bot was on its way out (on_message).
SilenceHasReason ==
    \A t \in Turns :
        turn[t] = "silent" => t \in refused \/ client = "closed" \/ web \in Over

\* "Startup clears stale global slash commands before syncing guild copies so
\* Discord does not show duplicate entries": a guild has both only while on_ready
\* is clearing them, or after Discord refused (on_ready, on_guild_join).
NoDuplicateCommands ==
    synced # {} /\ globals = "stale" => ready.stage = "clear"

\* Every guild of a connected bot gets its commands, unless Discord refused them
\* to it or to one before it in the loop, the loop was ended by a guild that came,
\* the guild came before a reconnection, or the bot was closed (on_ready,
\* on_guild_join).
EveryGuildGetsCommands ==
    \A g \in Guilds :
        (g \in guilds /\ task = "online") ~> (g \in synced \cup excused \/ client = "closed")

\* A server that is told to stop comes to its end (stop).
StopEnds == (web = "closing" \/ web = "waiting") ~> (web \in {"stopped", "failed"})
=============================================================================
