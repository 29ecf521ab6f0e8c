------------------------------ MODULE Workflow ------------------------------
(***************************************************************************)
(* The turns of one Discord thread: pixie_for_pm/orchestration and the     *)
(* dispatch part of PixieDiscordBot.on_message.                            *)
(*                                                                         *)
(* Every user message is one turn, and discord.py runs its on_message in a *)
(* task of its own, so turns of the same thread may overlap.  A turn loads *)
(* the tools, invokes the LangGraph workflow under the thread's key (which *)
(* reads the last checkpoint), runs supersteps "dispatch", agent, "handoff"*)
(* until no handoff is pending, and publishes the coordinator's messages.  *)
(* LangGraph queues a checkpoint write after every superstep and goes on   *)
(* while the SQLite saver works the queue off; it waits for the writes of  *)
(* a turn before that turn's ainvoke returns or raises.                    *)
(***************************************************************************)
EXTENDS Agents, Threads, Integers

CONSTANTS
    Turns,           \* the messages users send to the bot in this thread
    Messages,        \* what such a message may say
    Environments,    \* the integrations and models a turn may find
    MaxActive,       \* bound: how many turns may be in progress at once
    RecursionLimit,  \* LangGraph's bound on the supersteps of one invocation
    MaxUnsaved       \* bound: checkpoint writes in flight

ASSUME MessagesAssumption == Messages \subseteq UserMessage
ASSUME EnvironmentsAssumption == Environments \subseteq Environment
ASSUME BoundsAssumption ==
    MaxActive \in Nat /\ RecursionLimit \in Nat /\ MaxUnsaved \in Nat

VARIABLES
    pc,          \* where the task of a turn is
    request,     \* the message of the turn
    task,        \* what the task holds beside the graph: see Task
    state,       \* the WorkflowState of the turn's graph invocation
    checkpoint,  \* the transcript channel of the thread's last checkpoint
    writes,      \* checkpoint writes queued and not done, oldest first
    shown,       \* what the thread displays, oldest first
    pages,       \* turns whose product manager saved its PRD in Notion
    deploys      \* turns whose designer published its prototype on Vercel

vars == <<pc, request, task, state, checkpoint, writes, shown, pages, deploys>>

-----------------------------------------------------------------------------
Running == {"toolset", "invoke", "dispatch", "agent", "emit", "commit",
            "handoff", "publish", "failing"}
Ended == {"done", "failed", "lost"}

Active == {t \in Turns : pc[t] \in Running}

\* What a specialist's model streams to the user is no transcript message.
Draft(role) == [agent |-> role, kind |-> "draft", asks |-> {}]
Displayed == Message \cup {Draft(role) : role \in AgentRole}

Entry == [turn : Turns, message : Message]
Entries(t, messages) ==
    [i \in DOMAIN messages |-> [turn |-> t, message |-> messages[i]]]

WorkflowState ==
    [current : AgentRole, reason : Reason, transcript : Seq(Entry),
     turn : Seq(Message), handoffs : Seq(Handoff), pending : Seq(Handoff)]

\* env: the tools of the turn; exec: the execution in progress; steps: the
\* supersteps taken; published and streamed: the progress reporter's record of
\* what it has already sent.
Task == [env : Environment, exec : Execution, steps : Nat,
         published : Seq(Message), streamed : BOOLEAN]

NoRequest == [matches |-> {}, topic |-> "general"]
NoExecution == Plain(<<>>, <<>>, FALSE)
NewTask == [env |-> [notion |-> FALSE, vercel |-> FALSE, deltas |-> FALSE],
            exec |-> NoExecution, steps |-> 0,
            published |-> <<>>, streamed |-> FALSE]

\* Slip: the transcript channel loses its reducer, so the input replaces it.
InitialStateForgets(saved) ==
    [current |-> Coordinator, reason |-> NoReason, transcript |-> <<>>,
     turn |-> <<>>, handoffs |-> <<>>, pending |-> <<>>]

\* build_initial_state, merged with the checkpoint: transcript is the only
\* channel with a reducer, the input overwrites all others.
InitialState(saved) ==
    [current |-> Coordinator, reason |-> NoReason, transcript |-> saved,
     turn |-> <<>>, handoffs |-> <<>>, pending |-> <<>>]

AfterDispatch(s) ==
    [s EXCEPT !.turn = <<>>, !.handoffs = <<>>, !.reason = NoReason]

\* Slip: the messages go into the transcript as they are.
AfterAgentUnserialized(s, t, e) ==
    [s EXCEPT !.transcript = @ \o e.messages, !.turn = @ \o e.messages,
              !.handoffs = @ \o e.handoffs, !.pending = e.handoffs]

\* The node's result: pending_handoffs is replaced, not extended.
AfterAgent(s, t, e) ==
    [s EXCEPT !.transcript = @ \o Entries(t, e.messages),
              !.turn = @ \o e.messages,
              !.handoffs = @ \o e.handoffs,
              !.pending = e.handoffs]

AfterHandoff(s) ==
    [s EXCEPT !.current = Head(s.pending).target,
              !.reason = Head(s.pending).reason,
              !.pending = Tail(s.pending)]

ValidHandoffs(role, handoffs) ==
    \A i \in DOMAIN handoffs :
        /\ handoffs[i].source = role
        /\ (role = Coordinator) <=> (handoffs[i].target # Coordinator)

\* Slip: an old question still counts.
EverAsked(transcript) ==
    UNION {transcript[i].message.asks : i \in DOMAIN transcript}

\* What the most recent coordinator reply of a conversation asks the user.
RecentAsks(transcript) ==
    LET replies == {i \in DOMAIN transcript :
                        transcript[i].message.agent = Coordinator}
    IN  IF replies = {} THEN {}
        ELSE transcript[CHOOSE i \in replies : \A j \in replies : j <= i]
                 .message.asks

\* Slip: nothing is sent before the turn is over.
AnnouncedLater(e) == <<>>

\* Messages sent at once because the agent goes on working.
Announced(e) == IF e.handoffs # <<>> THEN e.messages ELSE <<>>

\* What reaches the user while the handler runs.
Deltas(role, e) ==
    IF ~e.streamed THEN <<>>
    ELSE IF e.messages = <<>> THEN <<Draft(role)>> ELSE e.messages

\* Slip: the published prefix is sent again.
UnsentWithPrefix(messages, published, streamed) ==
    IF streamed THEN <<>> ELSE messages

\* publish_transcript: what is left of the reply when its prefix has been
\* published, and nothing of it when the reply has been streamed.
Unsent(messages, published, streamed) ==
    LET n == Len(published)
        rest == IF n <= Len(messages) /\ SubSeq(messages, 1, n) = published
                THEN SubSeq(messages, n + 1, Len(messages)) ELSE messages
    IN  IF streamed THEN <<>> ELSE rest

\* Slip: a turn is over while its writes are still queued.
SavedLater(t) == TRUE

\* ainvoke returns or raises only after the turn's writes are done.
Saved(t) == \A i \in DOMAIN writes : writes[i].turn # t

-----------------------------------------------------------------------------
Init ==
    /\ pc = [t \in Turns |-> "waiting"]
    /\ request = [t \in Turns |-> NoRequest]
    /\ task = [t \in Turns |-> NewTask]
    /\ state = [t \in Turns |-> InitialState(<<>>)]
    /\ checkpoint = <<>>
    /\ writes = <<>>
    /\ shown = <<>>
    /\ pages = {}
    /\ deploys = {}

Goto(t, label) == pc' = [pc EXCEPT ![t] = label]

\* LangGraph queues the checkpoint of the state it just reached.
Save(t, s) ==
    /\ Len(writes) < MaxUnsaved
    /\ writes' = Append(writes, [turn |-> t, transcript |-> s.transcript])

\* One superstep of the graph: it moves to state s and goes on at label.
Superstep(t, s, label) ==
    /\ task[t].steps < RecursionLimit
    /\ state' = [state EXCEPT ![t] = s]
    /\ task' = [task EXCEPT ![t].steps = @ + 1, ![t].exec = NoExecution]
    /\ Save(t, s)
    /\ Goto(t, label)

Receive(t, m) ==
    /\ pc[t] = "waiting"
    /\ Cardinality(Active) < MaxActive
    /\ request' = [request EXCEPT ![t] = m]
    /\ Goto(t, "toolset")
    /\ UNCHANGED <<task, state, checkpoint, writes, shown, pages, deploys>>

InitializeToolset(t, env) ==
    /\ pc[t] = "toolset"
    /\ task' = [task EXCEPT ![t].env = env]
    /\ Goto(t, "invoke")
    /\ UNCHANGED <<request, state, checkpoint, writes, shown, pages, deploys>>

\* Slip: one turn at a time, under a lock that a failed turn does not release.
InvokeLocked(t) ==
    /\ pc[t] = "invoke"
    /\ \A u \in Turns \ {t} : pc[u] \in {"waiting", "toolset", "invoke", "done"}
    /\ state' = [state EXCEPT ![t] = InitialState(checkpoint)]
    /\ Save(t, InitialState(checkpoint))
    /\ Goto(t, "dispatch")
    /\ UNCHANGED <<request, task, checkpoint, shown, pages, deploys>>

Invoke(t) ==
    /\ pc[t] = "invoke"
    /\ state' = [state EXCEPT ![t] = InitialState(checkpoint)]
    /\ Save(t, InitialState(checkpoint))
    /\ Goto(t, "dispatch")
    /\ UNCHANGED <<request, task, checkpoint, shown, pages, deploys>>

DispatchNode(t) ==
    /\ pc[t] = "dispatch"
    /\ Superstep(t, AfterDispatch(state[t]), "agent")
    /\ UNCHANGED <<request, checkpoint, shown, pages, deploys>>

\* The handler of the current agent runs to its result e.
RunAgent(t, e) ==
    LET role == state[t].current IN
    /\ pc[t] = "agent"
    /\ task' = [task EXCEPT ![t].exec = e, ![t].streamed = @ \/ e.streamed]
    /\ shown' = shown \o Entries(t, Deltas(role, e))
    /\ pages' = IF e.page THEN pages \cup {t} ELSE pages
    /\ deploys' = IF e.deployed THEN deploys \cup {t} ELSE deploys
    /\ Goto(t, "emit")
    /\ UNCHANGED <<request, state, checkpoint, writes>>

\* The executions the current agent of turn t may come to.
Results(t) ==
    Executions(state[t].current, request[t], state[t].reason,
               RecentAsks(state[t].transcript), task[t].env)

EmitPublicMessages(t) ==
    LET e == task[t].exec IN
    /\ pc[t] = "emit"
    /\ ValidHandoffs(state[t].current, e.handoffs)
    /\ shown' = shown \o Entries(t, Announced(e))
    /\ task' = [task EXCEPT ![t].published = @ \o Announced(e)]
    /\ Goto(t, "commit")
    /\ UNCHANGED <<request, state, checkpoint, writes, pages, deploys>>

CommitAgent(t) ==
    LET e == task[t].exec IN
    /\ pc[t] = "commit"
    /\ Superstep(t, AfterAgent(state[t], t, e),
                 IF e.handoffs # <<>> THEN "handoff" ELSE "publish")
    /\ UNCHANGED <<request, checkpoint, shown, pages, deploys>>

HandoffNode(t) ==
    /\ pc[t] = "handoff"
    /\ state[t].pending # <<>>
    /\ Superstep(t, AfterHandoff(state[t]), "agent")
    /\ UNCHANGED <<request, checkpoint, shown, pages, deploys>>

\* compose_public_reply raises on an empty transcript: the turn then fails.
PublishTranscript(t) ==
    /\ pc[t] = "publish"
    /\ Saved(t)
    /\ state[t].turn # <<>>
    /\ shown' = shown \o Entries(t, Unsent(state[t].turn, task[t].published,
                                           task[t].streamed))
    /\ task' = [task EXCEPT ![t] = NewTask]
    /\ Goto(t, "done")
    /\ UNCHANGED <<request, state, checkpoint, writes, pages, deploys>>

\* Anything a step awaits may raise: a tool, a model, Discord, a validation.
FailStep(t) ==
    /\ pc[t] \in Running \ {"failing"}
    /\ Goto(t, "failing")
    /\ UNCHANGED <<request, task, state, checkpoint, writes, shown, pages,
                   deploys>>

\* publish_error, whether or not Discord takes it, ends the task.
ReportError(t) ==
    /\ pc[t] = "failing"
    /\ Saved(t)
    /\ task' = [task EXCEPT ![t] = NewTask]
    /\ state' = [state EXCEPT ![t] = InitialState(<<>>)]
    /\ Goto(t, "failed")
    /\ UNCHANGED <<request, checkpoint, writes, shown, pages, deploys>>

\* The SQLite saver does the oldest queued write.
Persist ==
    /\ writes # <<>>
    /\ checkpoint' = Head(writes).transcript
    /\ writes' = Tail(writes)
    /\ UNCHANGED <<pc, request, task, state, shown, pages, deploys>>

\* The process dies: tasks and queued writes are gone, nothing is resumed.
Crash ==
    /\ Active # {}
    /\ pc' = [t \in Turns |-> IF t \in Active THEN "lost" ELSE pc[t]]
    /\ task' = [t \in Turns |-> NewTask]
    /\ state' = [t \in Turns |-> IF t \in Active THEN InitialState(<<>>)
                                 ELSE state[t]]
    /\ writes' = <<>>
    /\ UNCHANGED <<request, checkpoint, shown, pages, deploys>>

-----------------------------------------------------------------------------
\* What the task of turn t does when nothing goes wrong, and its way out.
Progress(t) ==
    \/ \E env \in Environments : InitializeToolset(t, env)
    \/ Invoke(t)
    \/ DispatchNode(t)
    \/ \E e \in Results(t) : RunAgent(t, e)
    \/ EmitPublicMessages(t)
    \/ CommitAgent(t)
    \/ HandoffNode(t)
    \/ PublishTranscript(t)
    \/ ReportError(t)

Next ==
    \/ \E t \in Turns :
        \/ \E m \in Messages : Receive(t, m)
        \/ Progress(t)
        \/ FailStep(t)
    \/ Persist
    \/ Crash

\* A turn that can only raise: the recursion limit, a handoff the graph rejects,
\* no reply to publish.
Doomed(t) ==
    \/ /\ pc[t] \in {"dispatch", "commit", "handoff"}
       /\ task[t].steps >= RecursionLimit
    \/ /\ pc[t] = "emit"
       /\ ~ValidHandoffs(state[t].current, task[t].exec.handoffs)
    \/ pc[t] = "publish" /\ state[t].turn = <<>>

\* The event loop runs every task that can run, every awaited call returns or
\* raises, and the saver works its queue off; users owe the bot no message.
Fairness ==
    /\ WF_vars(Persist)
    /\ \A t \in Turns : WF_vars(Progress(t) \/ (Doomed(t) /\ FailStep(t)))

Spec == Init /\ [][Next]_vars
FairSpec == Spec /\ Fairness

-----------------------------------------------------------------------------
TypeOK ==
    /\ pc \in [Turns -> {"waiting"} \cup Running \cup Ended]
    /\ request \in [Turns -> UserMessage]
    /\ task \in [Turns -> Task]
    /\ state \in [Turns -> WorkflowState]
    /\ checkpoint \in Seq(Entry)
    /\ writes \in Seq([turn : Turns, transcript : Seq(Entry)])
    /\ shown \in Seq([turn : Turns, message : Displayed])
    /\ pages \subseteq Turns
    /\ deploys \subseteq Turns

-----------------------------------------------------------------------------
(* Every turn, however turns overlap.                                      *)

\* Work always goes from the coordinator to one specialist and back: the
\* handoffs of a turn form one chain, and at most one of them is pending,
\* although the graph would accept a list (graph.py: _validate_handoffs).
HandoffsChain ==
    \A t \in Turns :
        LET h == state[t].handoffs IN
        /\ \A i \in DOMAIN h :
              IF i % 2 = 1
              THEN h[i].source = Coordinator /\ h[i].target \in Specialists
              ELSE h[i].source \in Specialists /\ h[i].target = Coordinator
        /\ \A i \in DOMAIN h : i > 1 => h[i].source = h[i - 1].target
        /\ Len(state[t].pending) <= 1

\* A turn that is ready to answer has carried out every handoff it recorded:
\* one superstep for "dispatch", two for each handoff, one for the reply. An
\* agent node overwrites pending_handoffs, so a queued one would vanish.
NoHandoffLost ==
    \A t \in Turns :
        pc[t] = "publish" => task[t].steps = 2 * Len(state[t].handoffs) + 2

\* The agents' choice of the next agent cannot go round in circles: a turn
\* needs at most four handoffs, ten of the supersteps LangGraph allows it.
TurnWithinBudget ==
    \A t \in Turns : Len(state[t].handoffs) <= 4 /\ task[t].steps <= 10

\* A turn that ends normally has one final reply, after acknowledgements only,
\* all in the coordinator's voice: compose_public_reply never raises.
FinishedTurnIsAnswered ==
    \A t \in Turns : pc[t] \in {"publish", "done"} =>
        LET said == state[t].turn IN
        /\ said # <<>>
        /\ \A i \in DOMAIN said :
              /\ said[i].agent = Coordinator
              /\ said[i].kind = "kickoff" <=> i < Len(said)

\* What the user has seen of turn t in the coordinator's voice.
Heard(t) == OfTurnBy(shown, t, Coordinator)

\* The three ways a text reaches the user (publish_message on the way, the
\* response stream, publish_transcript at the end) together show each message
\* of a finished turn exactly once, in order.
ShownOnceInOrder ==
    \A t \in Turns : pc[t] = "done" => Heard(t) = state[t].turn

\* What other turns added to the thread is there when a turn loads it; the last
\* thing the coordinator said among it is entry i.
LastWord(t, i) ==
    LET before == state[t].transcript
        said == {j \in DOMAIN before : /\ before[j].turn # t
                                       /\ before[j].message.agent = Coordinator}
    IN  i \in said /\ \A j \in said : j <= i

\* The last word before turn t asks the user a question.
OpenQuestion(t, question) ==
    \E i \in DOMAIN state[t].transcript :
        LastWord(t, i) /\ question \in state[t].transcript[i].message.asks

\* The code of Pixie publishes a prototype only for a user who said yes while an
\* offer of one was the last word, and saves a PRD only for a user who asked for
\* it or picked from options that were: failed, lost and overlapping turns
\* included.  What a specialist's model does with the tools it was given (acted)
\* is not covered: nothing in the code asks the user about that.
EffectsNeedConsent ==
    [][/\ \A t \in deploys' \ deploys :
             "approval" \in request[t].matches /\ OpenQuestion(t, "prototype")
       /\ \A t \in pages' \ pages :
             \/ "prd_request" \in request[t].matches
             \/ "bare_choice" \in request[t].matches /\ OpenQuestion(t, "option")
      ]_vars

\* The thread shows the entry, and no turn that was answered said more since.
StillStands(entry) ==
    \E j \in DOMAIN shown :
        /\ shown[j] = entry
        /\ \A k \in DOMAIN shown : k > j => pc[shown[k].turn] # "done"

\* The last word before turn t asks the question, and the user looks at it (or the
\* turn that said it was not answered, and the thread may not show it).
CurrentQuestion(t, question) ==
    \E i \in DOMAIN state[t].transcript :
        LET entry == state[t].transcript[i] IN
        /\ LastWord(t, i)
        /\ question \in entry.message.asks
        /\ pc[entry.turn] = "done" => StillStands(entry)

\* With one turn at a time, a yes or a pick is taken for an answer to the last
\* thing an answered turn said in the thread, not for one to an older question
\* that the checkpoint still had while the thread had moved on.
ConsentIsCurrent ==
    [][/\ \A t \in deploys' \ deploys : CurrentQuestion(t, "prototype")
       /\ \A t \in pages' \ pages :
             "prd_request" \in request[t].matches \/ CurrentQuestion(t, "option")
      ]_vars

\* A request that is declined as out of scope reaches no agent that holds the
\* user's tools: nothing is changed, saved or published on its account.
OutOfScope(m) == m.matches = {} /\ m.topic = "irrelevant"
DeclinedTouchesNothing ==
    \A t \in Turns : OutOfScope(request[t]) =>
        ~ task[t].exec.acted /\ t \notin pages \cup deploys

Claims(message, t) ==
    /\ message.kind = "prototype" => t \in deploys
    /\ message.kind = "prd_saved" => t \in pages

\* No user is told, and no later turn remembers, that a prototype is live or a
\* PRD is saved unless the code of that turn published or saved it.
HonestReplies ==
    /\ \A i \in DOMAIN shown : Claims(shown[i].message, shown[i].turn)
    /\ \A i \in DOMAIN checkpoint :
          Claims(checkpoint[i].message, checkpoint[i].turn)

\* The memory of the thread holds no acknowledgement the user did not see, even
\* when the turn then failed or the process died.
RememberedKickoffsWereShown ==
    \A i \in DOMAIN checkpoint :
        checkpoint[i].message.kind = "kickoff" =>
            \E j \in DOMAIN shown : shown[j] = checkpoint[i]

\* Every turn comes to an end.
EveryTurnEnds ==
    \A t \in Turns : pc[t] = "toolset" ~> pc[t] \in Ended

\* Text that a specialist streams to the user is that of a turn without the
\* demo's artifacts: findings, briefs and prototypes are kept for the
\* coordinator's reply (_handle_demo_research_brief).
DemoKeepsDraftsPrivate ==
    \A i \in DOMAIN shown :
        shown[i].message.agent # Coordinator =>
            \A j \in DOMAIN state[shown[i].turn].handoffs :
                state[shown[i].turn].handoffs[j].reason.stage = "text"

-----------------------------------------------------------------------------
(* Turns one after the other: the contract with the user.                  *)

StatusOf(label) ==
    CASE label = "waiting" -> "idle"
      [] label \in Running -> "working"
      [] label = "done" -> "answered"
      [] OTHER -> label

Contract == INSTANCE TurnContract WITH
    Texts <- [agent : {Coordinator}, kind : Kinds, asks : SUBSET Asks],
    status <- [t \in Turns |-> StatusOf(pc[t])],
    said <- [t \in Turns |-> Heard(t)],
    memory <- checkpoint

\* With one turn at a time the workflow keeps the contract: what an answered
\* turn said is what the thread remembers of it, and memory only grows.
TurnsKeepContract == Contract!Spec

-----------------------------------------------------------------------------
(* What the documents say of the program and the program does not do.      *)

\* specs/architecture.md, State Model: "`transcript` persists all
\* agent-visible messages for checkpoint recovery."
FinishedTurnsRemembered ==
    \A t \in Turns :
        pc[t] = "done" => OfTurn(checkpoint, t) = state[t].turn
=============================================================================
