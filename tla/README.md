# Pixie in TLA+

A model of Pixie, a Discord bot that turns a product question into work of
several LLM agents, with TLC runs on small instances and TLAPS proofs. Paths
are relative to the repository; `bot.py` is `pixie_for_pm/discord/bot.py`.

    tlc -workers 2 -config Turns.cfg MCWorkflow      # any run of the table below
    tlapm WorkflowProofs.tla # and any other module whose name ends in Proofs

## The system

| Component | State | Operations | Interacts with | Correct when |
|---|---|---|---|---|
| Agents (`agents/`) | none | one handler call per step: messages and handoffs | LLMs, tools of the turn | work alternates between the coordinator and one specialist and ends in a reply; replies claim only what was done |
| Workflow graph, orchestrator (`orchestration/`) | `WorkflowState` of a turn, SQLite checkpoint of a thread | dispatch, agent, handoff nodes; checkpoint writes | agents, reporter | no handoff lost; within the recursion limit; memory agrees with what the user saw |
| Progress reporter (`bot.py` 222-519) | placeholder, last status, stream buffer, published messages | emit, stream, publish, report an error | graph, tools, Discord | all text shown once, in order; status gives way to text; loops end |
| Conversations (`bot.py` 581-803, `routing.py`, `normalization.py`) | none of its own: threads of Discord, which users change too | decide to answer, open a thread, choose the key | Discord, orchestrator | one memory for one conversation; a follow-up is passed over for a reason only |
| Bot runtime (`bot.py` 524-580, 809-838) | tasks, sync flag, open checkpointer | start, ready, sync, close | discord.py, FastAPI lifespan | every guild gets its commands once; no turn ends in silence; stopping closes everything and ends |
| Connection store and routes (`web/store.py`, `web/routes/`) | servers and connections | claim, authorize, callback, save key, disconnect | browser, providers, toolset | one owner; a disconnected service stays so |
| Toolset (`integrations/`) | credentials read for one turn | decrypt, load, refresh, write back | store, MCP servers | the newest refresh token survives |
| Login and OAuth (`auth_routes.py`, `connection_routes.py`) | cookies of a browser | login, callback, logout, authorize | Discord, Notion | a callback completes the flow that asked for it, whatever other tabs do |
| Settings page (`web/src/pages/SettingsPage.tsx`) | lists in the page | refresh, connect, disconnect | routes | shows the state after the last operation |

What is hard here: turns of one thread run as concurrent tasks over one
checkpoint; checkpoint writes trail behind the graph; anything awaited may
raise; the process may die at any step; one reply reaches the user over three
ways; tools report status concurrently with the text stream; the web
routes and the bot change the same connection with awaits in between.
`PROJECT.json` lists each hazard at its line with the properties that cover it.

## Modules

| Module | Models |
|---|---|
| `Agents` | the five handlers, each as the set of executions it may return |
| `Workflow` | turns of one thread: `on_message`, `dispatch`, the graph, checkpoints, crashes |
| `TurnContract` | what the thread promises a user who waits for each answer (abstract) |
| `Threads` | what one turn said in a sequence of entries, shared by the two |
| `MCWorkflow` | small instances of `Workflow` |
| `Delivery` | `_DiscordProgressReporter` down to the cutting of text |
| `MCDelivery` | small texts for `Delivery` |
| `Connections` | one server in the store, the requests of the settings page and the toolsets of turns that share it |
| `ConnectionRegister` | what the page and the bot rely on when they share it (abstract) |
| `MCConnections` | symmetries for `Connections` |
| `OAuthFlow` | the logins and connect flows of one browser, with its cookies |
| `MCOAuthFlow` | a small instance of `OAuthFlow` |
| `Conversations` | `on_message` up to the hand-over: which messages are answered, where, under which key |
| `MCConversations` | symmetry for `Conversations` |
| `BotRuntime` | the bot's task, its events and turns under the lifespan of the web server |
| `WorkflowProofs` | the turns of `Workflow` |
| `MemoryProofs` | what `Workflow` shows and remembers, and the consent to what it does |
| `ContractProofs` | what the users of a thread get to see; that `Workflow` implements `TurnContract` |
| `DeliveryProofs` | the text of a turn on its way to Discord |
| `ConnectionsProofs` | `Connections`: types, owner, toolsets and refresh tokens; that it implements `ConnectionRegister` |
| `OAuthProofs`, `ConversationsProofs`, `RuntimeProofs` | the invariants of `OAuthFlow`, `Conversations`, `BotRuntime` |

The three parts of `on_message` meet at two points. `Conversations` ends where
a turn has its place and its key; `Workflow` has the turns of one key, which
share a checkpoint; `BotRuntime` has the turns of all keys, reduced to whether
they can still write to the store and post when the bot closes. `Connections`
and `OAuthFlow` meet in the callback: the first has its ownership check and its
writes, the second the cookies it needs to get there.

### Agents and Workflow

A handler reads the message, the handoff context, the last coordinator reply
and the tools of the turn. `Executions` gives the set of its results; the LLM
and the remote tools contribute the choices. Texts are reduced to what the
code reads back from them. A user message is the parsers its wording matches
(`matches`; "ok, the second one" is both a pick and an approval, and the order
of the handler's tests decides) and the outcome of `decide_dispatch` (`topic`);
a reply is its kind and the questions it asks, because "2" and "yes" of the next
turn are read against those questions; a handoff context is the stage, status and
`persisted` flag of its JSON, or `"text"`. Wording the code fixes has fixed
questions (`PrdReadyReply`); wording an LLM writes has any of `LlmAsks`.

An execution has two kinds of effects. `page` and `deployed` are calls of the
handler's own code: the PRD it writes to Notion (`_persist_prd_artifact`), the
prototype it publishes on Vercel (`_publish_demo_prototype`). They decide what
the user is told, and they are what `pages`, `deploys`, `EffectsNeedConsent`
and `HonestReplies` are about. `acted` is whatever the model does itself:
`deep_agent.py:148-154` gives each specialist's model every connected tool of
the turn (`MayAct`), on the generic paths of the designer
(`product_designer.py:72-80`, with a prompt that says to publish with the Vercel
tools when they are there, line 39) and the product manager
(`product_manager.py:151-159`, `194-205`) as on the demo path. So a model may
create a page or a deployment on a plain request, and no code asks the user
first; no property claims otherwise. The coordinator's writer has an empty
toolset (`dispatcher.py:510-526`), the placeholder of the market analyst none.

`Workflow` has one task per user message. The actions follow the awaits of
`on_message` and `dispatch`:

    Receive -> InitializeToolset -> Invoke -> DispatchNode
      -> ( RunAgent -> EmitPublicMessages -> CommitAgent [-> HandoffNode] )*
      -> PublishTranscript

`FailStep` may take the place of any of them and leads to `ReportError`.
`RunAgent` is the handler; `EmitPublicMessages` validates its handoffs and
posts acknowledgements; `CommitAgent` merges the node's result and routes.
`Superstep` counts against LangGraph's recursion limit and queues a
checkpoint; `Persist` is the SQLite saver doing one; `Saved` is `ainvoke`
waiting for the writes of its turn. `Invoke` reads the checkpoint: only
`transcript` has a reducer, so the input replaces every other channel.
`Crash` ends all tasks and drops queued writes; nothing in the code resumes a
turn. The LangGraph parts are external, modelled from how the code uses them.

Abstracted: one thread (keys are the subject of Conversations); Discord calls
of a turn are one step here and many in `Delivery`; one `deltas` flag says
whether the chat models stream; a failing SQLite write is not modelled; an effect
happens inside `RunAgent` and a failure after it is a `FailStep`
that follows; the bodies of prompts, briefs, HTML and result parsing are left
out beyond the outcome they decide.

### TurnContract

The user sees texts (`said`), the bot remembers texts (`memory`); both only
grow, and an answered turn showed exactly what is remembered of it.
`Workflow` implements it when turns do not overlap: `TurnsKeepContract`
maps `shown` to `said` and `checkpoint` to `memory`. It does not with
overlapping turns: see `overlap_memory` below.

### Delivery

One turn and one reporter. Text is a sequence of units: visible, white space,
or a piece of a table that rendering makes `Width` units long. The cuts of
`_natural_break_index` are any position within the limit, which covers the real
ones. What a reader sees of a text (`Visible`) and what rendering makes of it
(`Rendered`) both write it unit by unit (`Spelled`). A status update is `Emit` (deduplication), `DecideEdit` (after the
await on the typing indicator) and `EditStatusMessage`, since tools of one
model step run concurrently and beside the loop that posts deltas.
`PublishMessage` and `PostChunk` are acknowledgements, `StreamContent` and
`Flush` the stream, `PublishTranscript` and `Flush` the end of the turn,
`Retry` the repeated run of `run_deep_agent`. Any call may be refused; a
blank or too long content always is. When the turn fails, status updates under
way are assumed cancelled: whether they are is LangGraph's business.
Acknowledgements come before any text streams: the coordinator's own are
written without streaming, and what a specialist streams on the generic path is
in `Workflow`.
Left out: the reaction, the typing indicator and a response channel without
`send` or `edit`. Indexes into the placeholder are not needed: there is one.

### Connections and ConnectionRegister

One server, its row in `servers` and its rows in `connections`, of which the
model keeps the credentials and whether `last_used_at` is set. A statement of
the store is one step, on SQLite and Supabase alike; between two statements,
and while Discord or a provider is being called, other requests and turns run.
The web app may be several processes (`api/index.py`, `docs/discord-e2e.md`),
so the read and the write of `claim_server` are separate too.

| Code | Actions |
|---|---|
| `claim_server` of the route and the store | `BeginClaim`, `ReadServer` (Discord has answered, the row is read), `InsertServer` or `UpdateServer` |
| `authorize_connection`, `oauth_callback`, `save_api_key_connection` | `Authorize`, `BeginConnect` (ownership is checked), `FinishConnect` or `FailConnect` (the provider has answered) |
| `disconnect_connection` | `Disconnect` |
| `IntegrationToolsetInitializer.initialize` | `Initialize` (rows are read), then for one service after the other `LoadTools`, `Refresh`, `Reload`, each with its failure |
| a tool of `_wrap_tool` | `UseTool`, which sets `last_used_at` |

Providers are external. Connecting gives a new grant; its tokens are numbered
as they are issued. A grant rotates its refresh token at every refresh or
never does, and only the newest refresh token is accepted; `Expire` ends the
validity of all access tokens issued so far. The answer to a refresh that was
accepted arrives: an answer lost on its way strands the token whatever the code
does, and no property could hold the code to more. What is stored can be
decrypted, and the store does not fail. The status of a connection is always
`"active"`: no code writes another. Icons go the way of names and are left
out. OAuth states do not expire and may be used again, as in
`OAuthStateCodec`. The routes that only read are left out.

`stranded` is a history variable: the grants whose newest refresh token was
dropped because the second load failed or the process died between the
refresh and the write. `RefreshTokenKept` says that nothing else loses one: no
interleaving of turns, reconnects and disconnects does.

`ConnectionRegister` is the abstract specification: a slot per service, empty
or holding one of the grants given so far. Connecting puts a new grant in it,
disconnecting empties it, and only a service with a token refresher may return
to an earlier grant of its own. That last action, `Restore`, is what the
write-back costs, and for a refreshed service the violated run
`resurrection` shows that it happens; the refinement shows that it is
confined to such services and that no other step touches a slot.

### OAuthFlow

One browser, which has one cookie of each name whatever its tabs do: the
session, the state and next path of a login, the context of a Notion flow. A
request carries the cookies of the moment it is sent and its answer changes
them when it arrives; between the two the server awaits Discord or the
provider, and answers of other tabs arrive. `StartLogin`, `LoginCallback`,
`ExchangeLogin`, `AnswerLogin` are `discord_login` and `discord_callback` with
their awaits, `BeginAuthorize`, `Authorized`, `FailAuthorize`,
`ConnectCallback`, `ExchangeCode`, `AnswerConnect` are `authorize_connection`
and `oauth_callback`; `Expire` lets cookies end, `Logout` the session. A path
is identified by the login that asked for it. State, verifier, registered
client and code are unguessable and represented by the flow they are of, so
that using the wrong one can be seen. Signatures, encryption and PKCE are taken
to work. A user who refuses at the consent screen is a flow that goes no
further. `refused`, `done` and `crossed` are history variables.

### Conversations

One channel with the threads that hang on its posts; a forum post is a thread
whose starter is in it. Users post, reply, mention and open threads at any
time (`PostMessage`, `UserOpensThread`); each message has a task of its own
that looks at the thread (`Receive`, or `ReceiveUnread` if the history cannot
be read), chooses where to answer (`ChooseChannel`), asks for a thread
(`OpenThread`, `FailToOpenThread`, after which it looks again) and posts
(`Respond`). Reading the history and opening a thread catch
`discord.HTTPException` only (`bot.py:712`, `764`) and are awaited before the
`try` of `on_message` (lines 593 and 601, 614): any other error, of the
connection say, ends the task and drops the message in silence (`Drop`). `AnsweredIn` is the key: the id of the thread, of the message that
is replied to, or of the channel. Progress message and reply are one post.
Messages of bots and outside of servers are dropped before; archived threads
and deleted messages are left out, and so are slash commands, which only
return a link.

### BotRuntime

The bot's own task (`Client.start`: login, `setup_hook`, connect, reconnect,
the end Discord may put to it), the lifespan of `web/app.py` that starts and
stops it, `close` as the two closings it consists of, for whichever of the two
tasks calls it (`Closers`), the command sync of `on_ready` and `on_guild_join`
guild by guild, and the turns, which may be under way at any of these
moments. discord.py is external: it sends READY with all guilds after a new
connection and the missed events after a resumed one, does not close a store it
does not know, and ends a closed client's task only where it looks.
`excused` and `refused` are history variables that say where a refusal of
Discord, or a path the code gives up on, is to blame. Of the commands, the
`/settings` answer itself is left out.

## Runs

| Run | Instance | Shows |
|---|---|---|
| `turns` | 2 turns in sequence, every message class, 4 environments (all connected with and without streaming, Notion alone, nothing), either question, up to 2 unsaved checkpoints | handoffs form a chain, at most 4 handoffs and 10 supersteps, one final reply after acknowledgements only; the demo path streams no drafts; implements `TurnContract`; a yes or a pick answers the last thing that was said |
| `overlap` | 2 overlapping turns, every message class, all tools | no handoff lost; each message shown once, in order; no false claim; no acknowledgement remembered that was not shown; no deployment or PRD page by the code without consent to the last word the turn has read; a declined request touches nothing |
| `progress` | 2 overlapping turns, fairness | every accepted message comes to an end |
| `delivery` | replies of 5-6 units, window 3, limit 4, two acknowledgements, two status updates, deltas of up to 4 units | text complete and in order; the whole reply shown at the end; only tables and blanks are refused for their content; status gives way to text; flush loops advance |
| `claims` | 2 users, 3 requests, 2 names, 1 service, 1 grant, crashes | the first claim wins for good; a granted claim is of the owner; credentials are obtained for the owner only |
| `register` | 2 services (one refreshed, one not), 1 request, 2 turns, 2 grants of 2 access tokens, crashes | implements `ConnectionRegister`; the newest refresh token is kept unless a refreshed credential was dropped; a toolset accounts for every service |
| `oauth` | 2 users, 1 server, 2 logins, 2 connect flows, 2 requests at once | tokens are stored for what and whom their flow was begun; a cookie is the reason of a refusal only if another flow or time took it; a finished login's path is spent |
| `conversations` | 3 messages, window 2 | one memory for one thread; follow-ups are passed over only where the history was refused or beyond the window |
| `runtime` | 2 guilds, 1 turn, fairness | stopping closes everything and ends; no message ends in silence without a reason; every guild gets its commands, once |
| `resurrection` | violated | `specs/integration-config.md:409`: a disconnected service comes back |
| `overlap_memory` | violated | `specs/architecture.md:60`: overlapping turns overwrite each other's memory |
| `status_loss` | violated | `specs/agent-runtime-tooling.md:100`: a refused status fails the turn |

More consequences of the code can be seen in the models without a violated run
of their own, most of them as an exception a property names:

- `Delivery`: a repeated model run streams its text a second time (`Retry`),
  although `changelogs/discord-thread-first-replies.md:13` wants no duplicated
  output; a table that grows past the limit after cutting, or a remainder of
  white space, is refused by Discord (`OnlyTablesAndBlanksRefused`;
  `changelogs/discord-thread-first-replies.md:10`).
- `Workflow`: a specialist on the generic path streams its draft to the user
  (`specs/agent-runtime-tooling.md:117`); `DemoKeepsDraftsPrivate` holds for
  the demo artifacts only. A specialist's model may change, publish or delete
  with the tools it is given on any request that reaches it (`acted`); only for
  a request that is declined as out of scope is this excluded
  (`DeclinedTouchesNothing`). With overlapping turns a "yes" is judged by the
  snapshot the turn has read, when the thread may already show something
  else: `EffectsNeedConsent` holds of the snapshot only, `ConsentIsCurrent` of
  turns that do not overlap.
- `Connections`: a refresh whose second load fails leaves the store with a
  refresh token the provider no longer accepts (`stranded`); of two first
  claims made at once by two processes the later one ends in an internal error
  (`InsertServer`).
- `OAuthFlow`: the path of a login that was abandoned takes a later one without
  a path to its place (`CompletedPathIsSpent` is about completed ones), although `auth_routes.py:86` speaks of a path embedded
  in the state; a Notion flow, or a login, whose cookie a second one of the same
  browser has replaced is refused, and the callback of any other service ends a
  Notion flow that is on its way (`RefusedOnlyWhenCrossed` names these
  crossings).
- `Conversations`: `README.md:89` promises that plain follow-ups continue a
  conversation; not beyond the 25 posts that are read, nor when the history
  cannot be read, nor before the bot's first post in a thread it has just
  opened (`FollowUpsHeard`). A mention in the starter of a forum post is passed
  over (`Decide`), and a mention or a reply is dropped without an answer when
  the connection fails before the turn has begun (`Drop`). Where no thread can be opened, all such turns of a
  channel share its memory, and a reply to a bot's post there, by contrast, has
  a key of its own (`MemoryFollowsPlace`).
- `BotRuntime`: a guild Discord refuses ends the command sync for the guilds
  after it, and no reconnection repeats it; guilds that came while the bot was
  disconnected get no commands after a new READY; a guild that comes during the
  sync may end it (`excused` in `EveryGuildGetsCommands`, which promises these
  guilds nothing). One that comes while `on_ready` clears the global commands
  has both for a while (the exception of `NoDuplicateCommands`). A start that fails
  after the store was opened leaves it open, a bot whose task ends goes
  unnoticed until the server stops, and of two tasks that close at once one
  raises (`StopClosesEverything`, `web = "failed"`).

Bounds. `MaxActive` 1 means that the user waits for an answer; 2 is the least
that overlaps, and all interference is between the checkpoint reads and writes
of a pair. Two turns are enough for a question and its answer, and each
question of the demo conversation (options, prototype) is one a first turn may
ask (`LlmAsks`). `MaxUnsaved` bounds the checkpoint writes in flight, 2 in `turns` and the
violated run, 1 in the others: a turn is at most so many supersteps ahead of its
checkpoint when the process dies; the bound delays a step and disables none for
good. `RecursionLimit` is LangGraph's default,
25, which `TurnWithinBudget` shows is not reached. `Delivery`'s window and limit
are small enough to cut every reply several times, deltas longer than the
window make a flush post twice, and a table unit of width 3 exceeds the limit
together with a second one. In `Connections` three claims let two interfere
while a third of either user comes late; two turns are the least that refresh
one grant at once, two grants let a turn hold credentials that were
replaced, and the second access token is what one refresh gives; that a third
refresh changes nothing is proved (`RefreshTokensKept`). A
`FinishConnect` or `Refresh` beyond the bound does not happen; the failures
of both always may. In `OAuthFlow` two
requests, two logins and two flows are the least that cross, in either kind
and between the kinds. In `Conversations` three messages are the least that
open a thread, follow up and reply to what was answered outside it; the window
of 2 is the least that the bot's post can fall out of while the message itself
is in it. In `BotRuntime` two guilds let one come before or after a refused one
and during the sync; turns do not interfere there. Turns are
symmetric where no property distinguishes them and no liveness is checked, in
`claims` requests and users too, in `oauth` flows, logins and requests, in `conversations` messages.
`CHECK_DEADLOCK FALSE` everywhere: the system stops when all turns have ended,
and `Connections` and `OAuthFlow` once their bounds are used up.

Fairness. `FairSpec` has weak fairness for each turn's task and for the
checkpoint writer: the event loop runs every ready task, and every LLM, tool
and Discord call eventually answers or raises (their clients have timeouts).
A `Doomed` turn can only raise, and does. No fairness for `Receive`: users owe
no message; none for `FailStep` otherwise, nor for `Crash`.
`BotRuntime` has a `FairSpec` of its own: every task that has something to do
goes on (closing, stopping, the sync loop, joined guilds, turns), because each
of its awaits is a Discord call or a local one that answers or raises. There is
none for `Login`, `SetupHook`, `Ready` and `Resume`, which Discord may delay
for ever, nor for `BeginStop`: nobody need stop the server.

Every property has a mutant of the code model that violates it; the operators
marked "Slip" hold them.

## Proofs

`WorkflowProofs` proves, for any set of turns, messages and environments and
any bounds (only the named assumptions `LlmAsksAssumption`,
`MessagesAssumption`, `EnvironmentsAssumption`, `BoundsAssumption`):

- `TypeCorrect`: the type invariant.
- `TurnShape`: the inductive invariant `TurnInv`. Each safety property alone is
  not inductive: that a turn in "publish" carried out its handoffs depends on
  the superstep count at every earlier place in the code, and that there are at
  most four handoffs depends on which agent is at work on what. `Rank` counts
  the handoffs still to come for an agent and its handoff context; the lemma
  `ExecutionsWellFormed` shows that every execution either ends the turn or
  passes on to an agent of lower rank, and `Shape` ties the length of the chain,
  the rank and the superstep count to the place in the code.
- `HandoffsAlternate`, `HandoffsCarriedOut`, `BudgetKept`, `TurnsAnswered`:
  the properties `HandoffsChain`, `NoHandoffLost`, `TurnWithinBudget` and
  `FinishedTurnIsAnswered`, each from `TurnInv`.

`MemoryProofs` proves from the same assumptions, with `TypeOK` and `TurnInv`:

- `MemoryKept`: the inductive invariant `MemoryInv`. That a reply claims only
  what was done is not inductive: the coordinator claims it because a handoff
  context told it so, the context comes from a specialist's execution, and the
  text then travels through the state, a queued write and the checkpoint to
  other turns. So the invariant speaks of all of them: what the thread shows,
  checkpoint, queued writes, transcript, reply, handoff context and pending
  handoffs of every turn, and the execution about to be committed, whose
  acknowledgement is in the thread before it can be written (`Told`). What it
  is judged by only grows (`Grown`), so a step of one turn disturbs no other.
- `RepliesHonest` and `KickoffsShown`: the properties `HonestReplies` and
  `RememberedKickoffsWereShown`, from `MemoryInv`.
- `ConsentKept`: the inductive invariant `ConsentInv`, and from it
  `EffectsConsented` (`EffectsNeedConsent`). The code of a specialist publishes or saves
  because a handoff context says so, and the user's consent lies back where the
  coordinator read the message against the open question. So the invariant
  carries the consent along, from the execution to its pending handoffs and to
  the context of the agent at work. It also says that no transcript anywhere,
  in a state, a queued write or the checkpoint, has an entry of a turn that has
  not begun, since such an entry could pass for the question that is answered.
- `OutOfScopeDeclined`: the property `DeclinedTouchesNothing`. A model with tools
  is run for a handoff context only, and `ConsentInv` has none in a turn of which
  the user asked nothing in scope (`ServedInv`).

`ContractProofs` proves from the same assumptions:

- `VoiceKept`: the inductive invariant `VoiceInv`. At each place of a turn it
  relates what the thread shows of its coordinator (`Heard`, the positions of
  its messages counted out of those of all turns) to the messages the graph has
  collected, the reporter's list of published ones and whether the execution at
  hand streams. A reply reaches the user as an acknowledgement, as a stream or
  with the transcript, and the invariant says which, so that
  `RepliesShownOnce` (`ShownOnceInOrder`) follows at the end.
- `DraftsKept`: the inductive invariant `DraftInv`. Only a specialist that works on a
  request passed on as plain text streams a draft; after one, the turn
  can only hand back to the coordinator for its reply (`Replying`), so no later
  handoff can turn it into one of the demo's. `DraftsPrivate` is
  `DemoKeepsDraftsPrivate`.
- `SerialKept` and `ContractKept`: the refinement `TurnsKeepContract`, step by
  step, under the hypothesis `MaxActive = 1`, a user who waits for the answer.
  The run `turns` has that value too. The hypothesis is needed: with overlapping
  turns the contract is false, as `overlap_memory` shows.
  `SerialInv` says that the queued writes are of the turn in progress, that each
  adds at most one of its texts to the one before, and that the
  state of the turn carries on from the last of them; a crash may therefore drop
  any number of writes and what is remembered is still the beginning of what the
  turn said.
- `AnswersStand` and `ConsentsCurrent` (`ConsentIsCurrent`), under the same
  hypothesis. What a turn reads may come from any queued write that survives a
  crash, so `AnswerInv` speaks of all memories, checkpoint and queued writes: the
  last thing an answered turn said in one is in the thread, and no answered turn
  said anything after it there. A turn that ends keeps this because its reply is
  the last entry of its transcript and of the thread (`LastSaid`) and its writes
  are done by then (`Saved`).

The instances on which TLC checked the invariants before they were proved are
those of `turns` (`TurnInv`, `SerialInv`, `AnswerInv`, `ServedInv`) and
`overlap` (the others).

`DeliveryProofs` proves, for any replies, acknowledgements and statuses, any
window and limit and any bounds (`TextsAssumption`, `BoundsAssumption`):

- `TypeCorrect`, with `Quiet`, which says at which places text can
  be waiting in the outbox or in the stream buffer.
- `NothingLost`: the inductive invariant `Delivered`. The thread, the
  outbox and the rendered buffer, in this order, show what was handed to the
  reporter, up to white space and with tables rendered. Neither is rendering
  before a cut the same as after it nor stripping the chunks the same as
  stripping the text, which is why the invariant compares what is seen.
  `TextInOrder` (`DeliveredInOrder`) follows.
- `RepliesDelivered` (`DoneMeansAnswered`), with `Answered`: what was handed
  over ends with what the model has streamed in this attempt, also
  after a repeated run.
- `RefusalsExplained` (`OnlyTablesAndBlanksRefused`), `StatusYields`
  (`StatusYieldsToText`) and `FlushEnding` (`FlushAdvances`), step by step.

What these rest on are facts about texts of any length: flattening takes
concatenation to concatenation, so does `Spelled`, stripping removes what is not
seen. The library's induction theorems take an operator as a parameter and
cannot be used here; the module inducts over sets instead. A set of
naturals that is not empty has a least member (`Least`, from the well-foundedness
of `<`), hence a set with 0 and all successors is `Nat` (`NaturalsCovered`) and
a set of sequences with the empty one that is closed under appending holds them all
(`SequencesCovered`). That the recursive function inside `FlattenSeq` exists is
proved in the same way.

`ConnectionsProofs` proves, for any users, names, requests,
turns, bounds, any of the six services, with crashes or without (from
`ServicesAssumption`, `NoneAssumption` and `BoundsAssumption`):

- `TypeCorrect`: the type invariant, with `Typed` as the inductive one. That
  the credentials a turn holds are of a grant that exists needs that the turn
  is at a service it found connected (`AtWork`), which needs that a stored
  connection always has a grant (`Stored`) and that the loop's order picks a
  service it has not yet visited (`CurrentInTodo`).
- `OwnersKept`: the inductive invariant `Owned`. `ClaimersOwn` and
  `GrantsFromOwner` are not inductive: a request that has passed its check
  waits for Discord, the database or a provider, and must still be of the
  owner when it writes. `Backed` says so for each place where it may wait, and
  since a grant needs an owner, an insert that finds no row finds no grant and
  no request that has passed.
- `ClaimersAreOwners`, `GrantsAreOwners`, `ClaimsAreFinal`: the properties
  `ClaimersOwn`, `GrantsFromOwner` and `ClaimsSettle` from `Owned`.
- `AccountsKept`: the inductive invariant `Accounts`. What is "ready" accounts
  for all services only because, at every point of the loop, what is still to
  do, what has its tools and what is missing are disjoint and together what was
  found connected. `NoServiceUnaccounted` is `ToolsetAccountsForAll`.
- `TokensAccounted`: the inductive invariant `Saved`. `RefreshTokenKept` is not
  inductive: a turn that writes back must have the newest token at that
  moment, although others may have refreshed the same grant since. `OnlyNewest`
  says that, where the provider rotates tokens, a turn between refresh and
  write is the only one to have the newest; every other copy is `Behind`, so
  nobody else can refresh. `Dated` ties each copy, in the store or in a turn,
  to a grant of its service and bounds its token by the provider's.
  `RefreshTokensKept` is `RefreshTokenKept`.
- `StoreIsRegister`: `KeepsRegister`, the refinement of `ConnectionRegister`,
  step by step; that a write-back restores a grant of the same service needs
  `Saved`.

`OAuthProofs` (from `OwnerAssumption`, `NoneAssumption`, `DisjointAssumption`):

- `TypeCorrect`, and with the inductive invariant `Granted`
  `TokensStoredAsGranted` (`StoredAsGranted`): every flow that was begun was
  begun by the owner of its server, every request is of such a flow, and with
  what it carries it can only store that flow's tokens.
- `RefusalsAreCrossings` (`RefusedOnlyWhenCrossed`), with `Met`: a flow on its
  way that met no other has its own cookie, and a request carries its own
  context unless it was crossed.
- `FinishedPathsAreSpent` (`CompletedPathIsSpent`), with `NextSpent`: no
  cookie and no request carries the path of a login that a new one comes after.

`ConversationsProofs` (from `WindowAssumption`, `PlacesAssumption`,
`AnswersAssumption`): `TypeCorrect`; `OneMemoryPerPlace` (`MemoryFollowsPlace`),
with `KeyKnown`, which gives each started turn the key its place makes;
`FollowUpsAreHeard` (`FollowUpsHeard`), with `History`: what is in a log was written there by
someone who wrote, starters come first, and what was there when a thread was
read is still there.

`RuntimeProofs`: `TypeCorrect`; `CommandsAppearOnce` (`NoDuplicateCommands`),
with `ClearedFirst`; `StopCloses` (`StopClosesEverything`), with `Orderly`, which relates how far each of the two closers has come to store,
client and server; `NoSilenceWithoutReason` (`SilenceHasReason`).

Only model-checked is liveness (`EveryTurnEnds`, `EveryGuildGetsCommands`,
`StopEnds`), which is out of the prover's reach; every invariant, action property
and refinement of the passing runs is proved, `TurnsKeepContract` and
`ConsentIsCurrent` under their hypothesis. The three violated runs are
counterexamples on one instance each, which is all they need.

## Not modelled

- The break rules of `split_discord_response` and `_next_stream_chunk`:
  `Delivery` lets a cut be anywhere within the limit, so what it shows holds for
  every choice of breaks; where breaks look best is no matter of correctness.
- The settings page: each operation loads the lists again, and the library code
  it calls (`web/src/lib`) is not in the repository.
- Failures of the store and of decryption in `Connections`, and a failing SQLite
  write in `Workflow`.
- What discord.py, LangGraph, FastAPI and the providers do inside; they are
  modelled from how the code uses them.

Left out too: configuration and wiring beyond the lifespan (no changing state), provider
clients (one HTTP request each), encryption (a library call), prompts and
wording, and the evaluation harness (not part of the running program).
