--------------------------- MODULE WorkflowProofs ---------------------------
(***************************************************************************)
(* Theorems about module Workflow, for any set of turns, any messages, any *)
(* environments and any bounds.                                            *)
(***************************************************************************)
EXTENDS Workflow, TLAPS

-----------------------------------------------------------------------------
(* What an execution of an agent may be.                                   *)

\* How many handoffs are still to come when role works on reason.
Rank(role, reason) ==
    IF role = Coordinator
    THEN CASE reason.stage = "none" -> 4
           [] reason.stage = "research_findings" /\ reason.status = "ready" -> 2
           [] OTHER -> 0
    ELSE IF role = "user_researcher" /\ reason.stage = "research_brief" THEN 3
    ELSE 1

Remark(kind) == [agent : {Coordinator}, kind : kind, asks : SUBSET Asks]

\* The coordinator's final reply.
Final(e) ==
    /\ e.handoffs = <<>>
    /\ \E message \in Remark(Kinds \ {"kickoff"}) : e.messages = <<message>>

\* A handoff to the next agent, with an acknowledgement or without.
PassesOn(role, reason, e) ==
    /\ \E h \in Handoff :
          /\ e.handoffs = <<h>>
          /\ h.source = role
          /\ (role = Coordinator) <=> (h.target # Coordinator)
          /\ Rank(h.target, h.reason) < Rank(role, reason)
    /\ \/ e.messages = <<>>
       \/ \E message \in Remark({"kickoff"}) : e.messages = <<message>>

WellFormed(role, reason, e) ==
    /\ e \in Execution
    /\ (Final(e) /\ role = Coordinator) \/ PassesOn(role, reason, e)

USE DEF Coordinator, Specialists, AgentRole, Asks, Kinds, Stages

\* A step of the coordinator that says something final.
LEMMA FinalExecution ==
    ASSUME NEW kind \in Kinds \ {"kickoff"}, NEW asks \in SUBSET Asks,
           NEW streamed \in BOOLEAN, NEW reason \in Reason
    PROVE  WellFormed(Coordinator, reason, Plain(Says(kind, asks), <<>>, streamed))
<1> DEFINE message == [agent |-> Coordinator, kind |-> kind, asks |-> asks]
           e == Plain(Says(kind, asks), <<>>, streamed)
<1>1. message \in Remark(Kinds \ {"kickoff"}) /\ message \in Message
    BY DEF Remark, Message
<1>2. e \in Execution
    BY <1>1 DEF Execution, Plain, Says
<1>3. Final(e)
    BY <1>1 DEF Final, Plain, Says
<1> QED BY <1>2, <1>3 DEF WellFormed

\* A step that hands over to an agent with less left to do.
LEMMA HandoffExecution ==
    ASSUME NEW role \in AgentRole, NEW reason \in Reason,
           NEW target \in AgentRole, NEW next \in Reason,
           (role = Coordinator) <=> (target # Coordinator),
           Rank(target, next) < Rank(role, reason),
           NEW messages \in Seq(Message),
           \/ messages = <<>>
           \/ \E message \in Remark({"kickoff"}) : messages = <<message>>,
           NEW streamed \in BOOLEAN, NEW acted \in BOOLEAN,
           NEW page \in BOOLEAN, NEW deployed \in BOOLEAN
    PROVE  WellFormed(role, reason,
               [messages |-> messages, handoffs |-> To(role, target, next),
                streamed |-> streamed, acted |-> acted,
                page |-> page, deployed |-> deployed])
<1> DEFINE h == [source |-> role, target |-> target, reason |-> next]
           e == [messages |-> messages, handoffs |-> To(role, target, next),
                 streamed |-> streamed, acted |-> acted,
                 page |-> page, deployed |-> deployed]
<1>1. h \in Handoff
    BY DEF Handoff
<1>2. e \in Execution
    BY <1>1 DEF Execution, To
<1>3. PassesOn(role, reason, e)
    BY <1>1 DEF PassesOn, To
<1> QED BY <1>2, <1>3 DEF WellFormed

\* Whatever the coordinator is asked, its execution passes work on or answers.
LEMMA CoordinatorExecutionsWellFormed ==
    ASSUME NEW m \in UserMessage, NEW reason \in Reason, NEW recent,
           NEW env \in Environment,
           NEW e \in CoordinatorExecutions(m, reason, recent, env)
    PROVE  WellFormed(Coordinator, reason, e)
<1> USE LlmAsksAssumption
<1>1. ASSUME NEW kind \in Kinds \ {"kickoff"}, e \in Replies(kind, env)
      PROVE  WellFormed(Coordinator, reason, e)
  <2>1. PICK a \in LlmAsks : e = Plain(Says(kind, a), <<>>, env.deltas)
      BY <1>1 DEF Replies
  <2>2. a \in SUBSET Asks /\ env.deltas \in BOOLEAN
      BY DEF Environment
  <2>3. WellFormed(Coordinator, reason, Plain(Says(kind, a), <<>>, env.deltas))
      BY <1>1, <2>2, FinalExecution
  <2> QED BY <2>1, <2>3
<1>2. ASSUME NEW target \in Specialists, NEW stage \in Stages,
             reason.stage = "none", e \in Kickoffs(target, stage)
      PROVE  WellFormed(Coordinator, reason, e)
  <2>1. PICK a \in LlmAsks :
            e = Plain(Says("kickoff", a),
                      To(Coordinator, target, Demo(stage, "ready")), FALSE)
      BY <1>2 DEF Kickoffs
  <2> DEFINE message == [agent |-> Coordinator, kind |-> "kickoff", asks |-> a]
  <2>2. Demo(stage, "ready") \in Reason
      BY DEF Demo, Reason
  <2>3. Rank(target, Demo(stage, "ready")) < Rank(Coordinator, reason)
      BY <1>2 DEF Rank
  <2>4. /\ Says("kickoff", a) \in Seq(Message)
        /\ message \in Remark({"kickoff"}) /\ Says("kickoff", a) = <<message>>
      BY DEF Says, Message, Remark
  <2> QED
      BY <2>1, <2>2, <2>3, <2>4, HandoffExecution DEF Plain
<1>3. ASSUME NEW target \in Specialists, NEW next \in Reason,
             Rank(target, next) < Rank(Coordinator, reason),
             e \in Delegates(target, next)
      PROVE  WellFormed(Coordinator, reason, e)
  <2>1. e = Plain(<<>>, To(Coordinator, target, next), FALSE)
      BY <1>3 DEF Delegates
  <2>2. <<>> \in Seq(Message)
      OBVIOUS
  <2> QED
      BY <1>3, <2>1, <2>2, HandoffExecution DEF Plain
<1>4. CASE reason.stage = "none"
  <2>1. Text \in Reason /\ \A target \in Specialists :
            Rank(target, Text) < Rank(Coordinator, reason)
      BY <1>4 DEF Text, Demo, Reason, Rank
  <2>2. CASE e \in Replies("out_of_scope", env)
      BY <2>2, <1>1
  <2>3. CASE \E target \in Specialists, stage \in Stages :
                 e \in Kickoffs(target, stage)
      BY <1>4, <2>3, <1>2
  <2>4. CASE m.topic # "irrelevant" /\ e \in Delegates(DispatchTarget(m), Text)
    <3>1. DispatchTarget(m) \in Specialists
        BY <2>4 DEF DispatchTarget, UserMessage, Topics
    <3> QED BY <3>1, <2>1, <2>4, <1>3
  <2> QED
      BY <1>4, <2>2, <2>3, <2>4 DEF CoordinatorExecutions, FirstMove
<1>5. CASE reason.stage # "none"
  <2>1. CASE e \in Delegates("product_manager", reason)
             /\ reason.stage = "research_findings" /\ reason.status = "ready"
      BY <2>1, <1>3 DEF Rank
  <2>2. CASE e = PrdReadyReply(reason.persisted)
      BY <2>2, FinalExecution DEF PrdReadyReply
  <2>3. CASE \E kind \in Kinds \ {"kickoff"} : e \in Replies(kind, env)
      BY <2>3, <1>1
  <2> QED
      BY <1>5, <2>1, <2>2, <2>3 DEF CoordinatorExecutions, HandoffReply
<1> QED BY <1>4, <1>5

\* A specialist always hands its work back to the coordinator.
LEMMA SpecialistExecutionsWellFormed ==
    ASSUME NEW role \in Specialists, NEW m \in UserMessage,
           NEW reason \in Reason, NEW recent, NEW env \in Environment,
           NEW e \in Executions(role, m, reason, recent, env)
    PROVE  WellFormed(role, reason, e)
<1>1. ASSUME NEW next \in Reason, NEW streamed \in BOOLEAN, NEW acted \in BOOLEAN,
             NEW page \in BOOLEAN, NEW deployed \in BOOLEAN,
             Rank(Coordinator, next) < Rank(role, reason),
             e = Finish(role, next, streamed, acted, page, deployed)
      PROVE  WellFormed(role, reason, e)
  <2>1. <<>> \in Seq(Message)
      OBVIOUS
  <2>2. e = [messages |-> <<>>, handoffs |-> To(role, Coordinator, next),
             streamed |-> streamed, acted |-> acted,
             page |-> page, deployed |-> deployed]
      BY <1>1 DEF Finish
  <2>3. /\ role \in AgentRole /\ Coordinator \in AgentRole
        /\ (role = Coordinator) <=> (Coordinator # Coordinator)
        /\ Rank(Coordinator, next) < Rank(role, reason)
      BY <1>1
  <2>4. WellFormed(role, reason,
            [messages |-> <<>>, handoffs |-> To(role, Coordinator, next),
             streamed |-> streamed, acted |-> acted,
             page |-> page, deployed |-> deployed])
      BY <2>1, <2>3, HandoffExecution, Zenon
  <2> QED BY <2>2, <2>4
<1>2. ASSUME NEW stage \in Stages, NEW status \in {"ready", "blocked"},
             NEW persisted \in BOOLEAN,
             stage # "none",
             \/ stage # "research_findings"
             \/ role = "user_researcher" /\ reason.stage = "research_brief"
      PROVE  LET next == [stage |-> stage, status |-> status,
                          persisted |-> persisted]
             IN  next \in Reason /\ Rank(Coordinator, next) < Rank(role, reason)
    BY <1>2 DEF Reason, Rank
<1> USE DEF HandBack, Text, Demo
<1>3. CASE role = "product_manager"
  <2>1. CASE e \in PrdExecutions(env)
    <3>0. /\ PersistOutcomes(env) \subseteq [page : BOOLEAN, persisted : BOOLEAN]
          /\ MayAct(env) \subseteq BOOLEAN
        BY DEF PersistOutcomes, MayAct
    <3>1. PICK o \in [page : BOOLEAN, persisted : BOOLEAN], acted \in BOOLEAN :
                 e = Finish("product_manager",
                            [stage |-> "prd_ready", status |-> "ready",
                             persisted |-> o.persisted],
                            FALSE, acted, o.page, FALSE)
        BY <2>1, <3>0 DEF PrdExecutions, Finish
    <3> QED BY <1>3, <3>1, <1>1, <1>2
  <2>2. CASE \E stage \in {"options_summary", "text"}, acted \in BOOLEAN :
                 e = HandBack("product_manager", Demo(stage, "ready"), FALSE, acted)
      BY <1>3, <2>2, <1>1, <1>2
  <2> QED
      BY <1>3, <2>1, <2>2 DEF Executions, ProductManagerExecutions, MayAct
<1>4. CASE role = "user_researcher"
  <2>1. CASE reason.stage = "research_brief"
    <3>1. PICK status \in {"ready", "blocked"}, acted \in BOOLEAN :
                 e = HandBack("user_researcher", Demo("research_findings", status),
                              FALSE, acted)
        BY <1>4, <2>1 DEF Executions, UserResearcherExecutions, MayAct
    <3> QED BY <1>4, <2>1, <3>1, <1>1, <1>2
  <2>2. CASE reason.stage # "research_brief"
    <3>1. PICK acted \in BOOLEAN :
                 e = HandBack("user_researcher", Text, env.notion /\ env.deltas, acted)
        BY <1>4, <2>2 DEF Executions, UserResearcherExecutions, MayAct
    <3>2. (env.notion /\ env.deltas) \in BOOLEAN
        OBVIOUS
    <3> QED BY <1>4, <3>1, <3>2, <1>1, <1>2
  <2> QED BY <2>1, <2>2
<1>5. CASE role = "product_designer"
  <2>1. CASE reason.stage = "prototype_brief"
    <3>1. PICK o \in [acted : BOOLEAN, deployed : BOOLEAN,
                      status : {"ready", "blocked"}] :
              e = Finish("product_designer", Demo("prototype_summary", o.status),
                         FALSE, o.acted, FALSE, o.deployed)
        BY <1>5, <2>1
        DEF Executions, ProductDesignerExecutions, PrototypeOutcomes
    <3> QED BY <1>5, <3>1, <1>1, <1>2
  <2>2. CASE reason.stage # "prototype_brief"
    <3>1. PICK acted \in BOOLEAN :
                 e = HandBack("product_designer", Text, env.deltas, acted)
        BY <1>5, <2>2 DEF Executions, ProductDesignerExecutions, MayAct
    <3> QED BY <1>5, <3>1, <1>1, <1>2 DEF Environment
  <2> QED BY <2>1, <2>2
<1>6. CASE role = "market_analyst"
    BY <1>6, <1>1, <1>2 DEF Executions, MarketAnalystExecutions
<1> QED BY <1>3, <1>4, <1>5, <1>6

\* Every handler of the table returns a well-formed execution.
LEMMA ExecutionsWellFormed ==
    ASSUME NEW role \in AgentRole, NEW m \in UserMessage,
           NEW reason \in Reason, NEW recent, NEW env \in Environment,
           NEW e \in Executions(role, m, reason, recent, env)
    PROVE  WellFormed(role, reason, e)
<1>1. CASE role = Coordinator
    BY <1>1, CoordinatorExecutionsWellFormed DEF Executions
<1> QED BY <1>1, SpecialistExecutionsWellFormed

-----------------------------------------------------------------------------
(* Type correctness.                                                       *)

USE DEF Running, Ended

\* The ends of a queue that is not empty.
LEMMA HeadTailType ==
    ASSUME NEW S, NEW q \in Seq(S), q # <<>>
    PROVE  Head(q) \in S /\ Tail(q) \in Seq(S)
OBVIOUS

\* Entries keeps the messages' number and order.
LEMMA EntriesType ==
    ASSUME NEW S, NEW t \in Turns, NEW messages \in Seq(S)
    PROVE  /\ Entries(t, messages) \in Seq([turn : Turns, message : S])
           /\ Len(Entries(t, messages)) = Len(messages)
<1>1. DOMAIN messages = 1..Len(messages) /\ Len(messages) \in Nat
    OBVIOUS
<1>2. \A i \in 1..Len(messages) : messages[i] \in S
    OBVIOUS
<1>3. Entries(t, messages) =
          [i \in 1..Len(messages) |-> [turn |-> t, message |-> messages[i]]]
    BY <1>1 DEF Entries
<1> QED BY <1>1, <1>2, <1>3

\* What an execution shows, in types.
LEMMA ShownType ==
    ASSUME NEW e \in Execution, NEW role \in AgentRole
    PROVE  /\ Announced(e) \in Seq(Message)
           /\ Deltas(role, e) \in Seq(Displayed)
<1>1. e.messages \in Seq(Message) /\ <<>> \in Seq(Message)
    BY DEF Execution
<1>2. e.messages \in Seq(Displayed)
    BY <1>1 DEF Displayed
<1>3. <<Draft(role)>> \in Seq(Displayed) /\ <<>> \in Seq(Displayed)
    BY DEF Displayed
<1> QED BY <1>1, <1>2, <1>3 DEF Announced, Deltas

\* What is left to publish of a reply, in types.
LEMMA UnsentType ==
    ASSUME NEW messages \in Seq(Message), NEW published \in Seq(Message),
           NEW streamed
    PROVE  Unsent(messages, published, streamed) \in Seq(Message)
<1>1. Len(published) \in Nat /\ Len(messages) \in Nat
    OBVIOUS
<1>2. SubSeq(messages, Len(published) + 1, Len(messages)) \in Seq(Message)
    BY <1>1
<1> QED BY <1>2 DEF Unsent

\* The results of the graph's nodes, in types.
LEMMA StateTypes ==
    /\ NoRequest \in UserMessage
    /\ NewTask \in Task
    /\ NoExecution \in Execution
    /\ \A saved \in Seq(Entry) : InitialState(saved) \in WorkflowState
    /\ \A s \in WorkflowState : AfterDispatch(s) \in WorkflowState
    /\ \A s \in WorkflowState, t \in Turns, e \in Execution :
          AfterAgent(s, t, e) \in WorkflowState
    /\ \A s \in WorkflowState :
          s.pending # <<>> => AfterHandoff(s) \in WorkflowState
<1>1. NoReason \in Reason
    BY DEF NoReason, Demo, Reason
<1>2. NoRequest \in UserMessage
    BY DEF NoRequest, UserMessage, Intents, Topics
<1>3. NoExecution \in Execution
    BY DEF NoExecution, Plain, Execution
<1>4. NewTask \in Task
    BY <1>3 DEF NewTask, Task, Environment
<1>5. \A saved \in Seq(Entry) : InitialState(saved) \in WorkflowState
    BY <1>1 DEF InitialState, WorkflowState
<1>6. ASSUME NEW s \in WorkflowState
      PROVE  AfterDispatch(s) \in WorkflowState
  <2>1. <<>> \in Seq(Message) /\ <<>> \in Seq(Handoff)
      OBVIOUS
  <2> QED BY <1>1, <2>1 DEF AfterDispatch, WorkflowState
<1>7. ASSUME NEW s \in WorkflowState, NEW t \in Turns, NEW e \in Execution
      PROVE  AfterAgent(s, t, e) \in WorkflowState
  <2>1. Entries(t, e.messages) \in Seq(Entry)
    <3>1. e.messages \in Seq(Message)
        BY DEF Execution
    <3> QED BY <3>1, EntriesType DEF Entry
  <2>2. /\ e.messages \in Seq(Message) /\ e.handoffs \in Seq(Handoff)
        /\ s.transcript \in Seq(Entry) /\ s.turn \in Seq(Message)
        /\ s.handoffs \in Seq(Handoff)
      BY DEF Execution, WorkflowState
  <2>3. /\ s.transcript \o Entries(t, e.messages) \in Seq(Entry)
        /\ s.turn \o e.messages \in Seq(Message)
        /\ s.handoffs \o e.handoffs \in Seq(Handoff)
      BY <2>1, <2>2
  <2> QED BY <2>2, <2>3 DEF AfterAgent, WorkflowState
<1>8. ASSUME NEW s \in WorkflowState, s.pending # <<>>
      PROVE  AfterHandoff(s) \in WorkflowState
  <2>1. Head(s.pending) \in Handoff /\ Tail(s.pending) \in Seq(Handoff)
      BY <1>8 DEF WorkflowState
  <2> QED BY <2>1 DEF AfterHandoff, WorkflowState, Handoff
<1> QED BY <1>2, <1>3, <1>4, <1>5, <1>6, <1>7, <1>8

\* A superstep keeps the types when the state it moves to has its type.
LEMMA SuperstepType ==
    ASSUME TypeOK, NEW t \in Turns, NEW s \in WorkflowState,
           NEW label \in Running, Superstep(t, s, label)
    PROVE  /\ pc' \in [Turns -> {"waiting"} \cup Running \cup Ended]
           /\ task' \in [Turns -> Task]
           /\ state' \in [Turns -> WorkflowState]
           /\ writes' \in Seq([turn : Turns, transcript : Seq(Entry)])
<1> USE DEF TypeOK, Superstep
<1>1. pc' \in [Turns -> {"waiting"} \cup Running \cup Ended]
    BY DEF Goto
<1>2. [task[t] EXCEPT !.steps = @ + 1, !.exec = NoExecution] \in Task
  <2>1. task[t] \in Task /\ NoExecution \in Execution /\ task[t].steps + 1 \in Nat
      BY StateTypes DEF Task
  <2> QED BY <2>1 DEF Task
<1>3. task' \in [Turns -> Task]
    BY <1>2
<1>4. [turn |-> t, transcript |-> s.transcript]
          \in [turn : Turns, transcript : Seq(Entry)]
    BY DEF WorkflowState
<1>5. writes' \in Seq([turn : Turns, transcript : Seq(Entry)])
    BY <1>4 DEF Save
<1> QED BY <1>1, <1>3, <1>5

\* The executions a running agent may come to have their type.
LEMMA ResultsWellFormed ==
    ASSUME TypeOK, NEW t \in Turns, NEW e \in Results(t)
    PROVE  WellFormed(state[t].current, state[t].reason, e)
<1>1. /\ state[t].current \in AgentRole /\ state[t].reason \in Reason
      /\ request[t] \in UserMessage /\ task[t].env \in Environment
    BY DEF TypeOK, WorkflowState, Task
<1> QED BY <1>1, ExecutionsWellFormed DEF Results

\* Every variable keeps its type: the WorkflowState stays what the TypedDict of
\* graph.py declares, whatever the agents return.
THEOREM TypeCorrect == Spec => []TypeOK
<1>1. Init => TypeOK
  <2> SUFFICES ASSUME Init PROVE TypeOK
      OBVIOUS
  <2>1. /\ checkpoint \in Seq(Entry)
        /\ writes \in Seq([turn : Turns, transcript : Seq(Entry)])
        /\ shown \in Seq([turn : Turns, message : Displayed])
      BY DEF Init
  <2>2. state \in [Turns -> WorkflowState]
    <3>1. <<>> \in Seq(Entry)
        OBVIOUS
    <3>2. InitialState(<<>>) \in WorkflowState
        BY <3>1, StateTypes
    <3> QED BY <3>2 DEF Init
  <2>3. /\ pc \in [Turns -> {"waiting"} \cup Running \cup Ended]
        /\ pages \subseteq Turns /\ deploys \subseteq Turns
      BY DEF Init
  <2>4. request \in [Turns -> UserMessage] /\ task \in [Turns -> Task]
      BY StateTypes DEF Init
  <2> QED BY <2>1, <2>2, <2>3, <2>4 DEF TypeOK
<1>2. TypeOK /\ [Next]_vars => TypeOK'
  <2> SUFFICES ASSUME TypeOK, [Next]_vars PROVE TypeOK'
      OBVIOUS
  <2>1. ASSUME NEW t \in Turns, NEW m \in Messages, Receive(t, m)
        PROVE  TypeOK'
      BY <2>1, MessagesAssumption DEF TypeOK, Receive, Goto
  <2>2. ASSUME NEW t \in Turns, NEW env \in Environments,
               InitializeToolset(t, env)
        PROVE  TypeOK'
    <3>1. [task[t] EXCEPT !.env = env] \in Task
        BY EnvironmentsAssumption DEF TypeOK, Task
    <3> QED BY <2>2, <3>1 DEF TypeOK, InitializeToolset, Goto
  <2>3. ASSUME NEW t \in Turns, Invoke(t)
        PROVE  TypeOK'
    <3>1. InitialState(checkpoint) \in WorkflowState
        BY StateTypes DEF TypeOK
    <3>2. writes' \in Seq([turn : Turns, transcript : Seq(Entry)])
      <4>1. [turn |-> t, transcript |-> InitialState(checkpoint).transcript]
                \in [turn : Turns, transcript : Seq(Entry)]
          BY <3>1 DEF WorkflowState
      <4> QED BY <2>3, <4>1 DEF TypeOK, Invoke, Save
    <3> QED BY <2>3, <3>1, <3>2 DEF TypeOK, Invoke, Goto
  <2>4. ASSUME NEW t \in Turns, DispatchNode(t)
        PROVE  TypeOK'
    <3>1. AfterDispatch(state[t]) \in WorkflowState
        BY StateTypes DEF TypeOK
    <3> QED BY <2>4, <3>1, SuperstepType DEF TypeOK, DispatchNode
  <2>5. ASSUME NEW t \in Turns, NEW e \in Results(t), RunAgent(t, e)
        PROVE  TypeOK'
    <3>1. e \in Execution /\ state[t].current \in AgentRole
        BY ResultsWellFormed DEF WellFormed, TypeOK, WorkflowState
    <3>2. [task[t] EXCEPT !.exec = e, !.streamed = @ \/ e.streamed] \in Task
      <4>1. task[t] \in Task /\ (task[t].streamed \/ e.streamed) \in BOOLEAN
          BY <3>1 DEF TypeOK
      <4> QED BY <3>1, <4>1 DEF Task
    <3>3. Entries(t, Deltas(state[t].current, e))
              \in Seq([turn : Turns, message : Displayed])
        BY <3>1, ShownType, EntriesType
    <3>4. task' \in [Turns -> Task]
        BY <2>5, <3>2 DEF RunAgent, TypeOK
    <3>5. shown' \in Seq([turn : Turns, message : Displayed])
        BY <2>5, <3>3 DEF RunAgent, TypeOK
    <3> QED BY <2>5, <3>4, <3>5 DEF TypeOK, RunAgent, Goto
  <2>6. ASSUME NEW t \in Turns, EmitPublicMessages(t)
        PROVE  TypeOK'
    <3> DEFINE e == task[t].exec
    <3>1. e \in Execution
        BY DEF TypeOK, Task
    <3>2. Announced(e) \in Seq(Message)
        BY <3>1, ShownType DEF AgentRole
    <3>3. Announced(e) \in Seq(Displayed)
        BY <3>2 DEF Displayed
    <3>4. task[t].published \o Announced(e) \in Seq(Message)
        BY <3>2 DEF TypeOK, Task
    <3>5. task' \in [Turns -> Task]
      <4>1. [task[t] EXCEPT !.published = @ \o Announced(e)] \in Task
          BY <3>4 DEF TypeOK, Task
      <4> QED BY <2>6, <4>1 DEF EmitPublicMessages, TypeOK
    <3>6. Entries(t, Announced(e)) \in Seq([turn : Turns, message : Displayed])
        BY <3>3, EntriesType
    <3>7. shown' \in Seq([turn : Turns, message : Displayed])
        BY <2>6, <3>6 DEF EmitPublicMessages, TypeOK
    <3> QED BY <2>6, <3>5, <3>7 DEF TypeOK, EmitPublicMessages, Goto
  <2>7. ASSUME NEW t \in Turns, CommitAgent(t)
        PROVE  TypeOK'
    <3>1. AfterAgent(state[t], t, task[t].exec) \in WorkflowState
        BY StateTypes DEF TypeOK, Task
    <3> QED BY <2>7, <3>1, SuperstepType DEF TypeOK, CommitAgent
  <2>8. ASSUME NEW t \in Turns, HandoffNode(t)
        PROVE  TypeOK'
    <3>1. AfterHandoff(state[t]) \in WorkflowState
        BY <2>8, StateTypes DEF TypeOK, HandoffNode
    <3> QED BY <2>8, <3>1, SuperstepType DEF TypeOK, HandoffNode
  <2>9. ASSUME NEW t \in Turns, PublishTranscript(t)
        PROVE  TypeOK'
    <3> DEFINE rest == Unsent(state[t].turn, task[t].published, task[t].streamed)
    <3>1. rest \in Seq(Message)
        BY UnsentType DEF TypeOK, WorkflowState, Task
    <3>2. rest \in Seq(Displayed)
        BY <3>1 DEF Displayed
    <3>3. Entries(t, rest) \in Seq([turn : Turns, message : Displayed])
        BY <3>2, EntriesType
    <3>4. shown' \in Seq([turn : Turns, message : Displayed])
        BY <2>9, <3>3 DEF PublishTranscript, TypeOK
    <3>5. task' \in [Turns -> Task]
        BY <2>9, StateTypes DEF PublishTranscript, TypeOK
    <3> QED BY <2>9, <3>4, <3>5 DEF TypeOK, PublishTranscript, Goto
  <2>10. ASSUME NEW t \in Turns, FailStep(t)
         PROVE  TypeOK'
      BY <2>10 DEF TypeOK, FailStep, Goto
  <2>11. InitialState(<<>>) \in WorkflowState
    <3>1. <<>> \in Seq(Entry)
        OBVIOUS
    <3> QED BY <3>1, StateTypes
  <2>12. ASSUME NEW t \in Turns, ReportError(t)
         PROVE  TypeOK'
      BY <2>11, <2>12, StateTypes DEF TypeOK, ReportError, Goto
  <2>13. CASE Persist
    <3>1. /\ Head(writes) \in [turn : Turns, transcript : Seq(Entry)]
          /\ Tail(writes) \in Seq([turn : Turns, transcript : Seq(Entry)])
        BY <2>13, HeadTailType DEF TypeOK, Persist
    <3> QED BY <2>13, <3>1 DEF TypeOK, Persist
  <2>14. CASE Crash
    <3>1. <<>> \in Seq([turn : Turns, transcript : Seq(Entry)])
        OBVIOUS
    <3>2. task' \in [Turns -> Task]
        BY <2>14, StateTypes DEF Crash
    <3>4. state' \in [Turns -> WorkflowState]
      <4>1. \A t \in Turns : (IF t \in Active THEN InitialState(<<>>)
                             ELSE state[t]) \in WorkflowState
          BY <2>11 DEF TypeOK
      <4> QED BY <2>14, <4>1 DEF Crash
    <3>3. pc' \in [Turns -> {"waiting"} \cup Running \cup Ended]
        BY <2>14 DEF TypeOK, Crash
    <3> QED BY <2>14, <3>1, <3>2, <3>3, <3>4 DEF TypeOK, Crash
  <2>15. CASE UNCHANGED vars
      BY <2>15 DEF TypeOK, vars
  <2> QED
      BY <2>1, <2>2, <2>3, <2>4, <2>5, <2>6, <2>7, <2>8, <2>9, <2>10, <2>12,
         <2>13, <2>14, <2>15 DEF Next, Progress
<1> QED
    BY <1>1, <1>2, PTL DEF Spec

-----------------------------------------------------------------------------
(* The shape of a turn.                                                    *)

Chain(h) ==
    /\ \A i \in DOMAIN h :
          IF i % 2 = 1
          THEN h[i].source = Coordinator /\ h[i].target \in Specialists
          ELSE h[i].source \in Specialists /\ h[i].target = Coordinator
    /\ \A i \in DOMAIN h : i > 1 => h[i].source = h[i - 1].target

\* The agent a chain of handoffs has arrived at.
At(h) == IF Len(h) = 0 THEN Coordinator ELSE h[Len(h)].target

\* Acknowledgements only, and acknowledgements with the final reply.
OnlyKickoffs(said) ==
    \A i \in DOMAIN said : said[i].agent = Coordinator /\ said[i].kind = "kickoff"
Answered(said) ==
    /\ said # <<>>
    /\ \A i \in DOMAIN said :
          said[i].agent = Coordinator /\ (said[i].kind = "kickoff" <=> i < Len(said))

\* Always: one chain, at most one handoff pending, within the budget.
Bounded(s, steps) ==
    /\ Chain(s.handoffs) /\ Len(s.handoffs) <= 4
    /\ steps <= 10 /\ Len(s.pending) <= 1

\* Before the graph runs.
Fresh(s, steps) == steps = 0 /\ s.current = Coordinator /\ s.pending = <<>>

\* The current agent is at work. Rank is what makes the bound on handoffs
\* inductive: every handoff leaves less to do.
AtWork(s, steps) ==
    /\ steps = 2 * Len(s.handoffs) + 1
    /\ Len(s.handoffs) + Rank(s.current, s.reason) <= 4
    /\ s.current = At(s.handoffs)
    /\ s.pending = <<>>
    /\ OnlyKickoffs(s.turn)

\* Between two agents.
Passing(s, steps) ==
    LET h == s.handoffs
        n == Len(h)
    IN
    /\ steps = 2 * n
    /\ n > 0 /\ s.pending = <<h[n]>>
    /\ n + Rank(h[n].target, h[n].reason) <= 4
    /\ OnlyKickoffs(s.turn)

\* Where a turn with graph state s, execution e and a number of supersteps is.
Shape(label, s, e, steps) ==
    /\ Bounded(s, steps)
    /\ label \in {"waiting", "toolset", "invoke", "dispatch"} => Fresh(s, steps)
    /\ label \in {"agent", "emit", "commit"} => AtWork(s, steps)
    /\ label \in {"emit", "commit"} => WellFormed(s.current, s.reason, e)
    /\ label = "handoff" => Passing(s, steps)
    /\ label = "publish" => steps = 2 * Len(s.handoffs) + 2
    /\ label \in {"publish", "done"} => Answered(s.turn)
    /\ label \in Ended => steps = 0

TurnInv ==
    \A t \in Turns : Shape(pc[t], state[t], task[t].exec, task[t].steps)

\* One more element at the end.
LEMMA OneMore ==
    ASSUME NEW S, NEW q \in Seq(S), NEW x \in S
    PROVE  /\ q \o <<x>> \in Seq(S)
           /\ Len(q \o <<x>>) = Len(q) + 1
           /\ \A i \in 1..Len(q) : (q \o <<x>>)[i] = q[i]
           /\ (q \o <<x>>)[Len(q) + 1] = x
           /\ DOMAIN (q \o <<x>>) = 1..(Len(q) + 1)
           /\ DOMAIN q = 1..Len(q) /\ Len(q) \in Nat
OBVIOUS

\* After an even number of handoffs the coordinator is at work.
LEMMA ChainParity ==
    ASSUME NEW h \in Seq(Handoff), Chain(h)
    PROVE  At(h) = Coordinator <=> Len(h) % 2 = 0
<1>1. Len(h) \in Nat /\ DOMAIN h = 1..Len(h)
    OBVIOUS
<1>2. CASE Len(h) = 0
    BY <1>2 DEF At
<1>3. CASE Len(h) # 0
  <2>1. Len(h) \in DOMAIN h
      BY <1>1, <1>3
  <2>2. Len(h) % 2 = 0 \/ Len(h) % 2 = 1
      BY <1>1
  <2> QED BY <1>3, <2>1, <2>2 DEF At, Chain
<1> QED BY <1>2, <1>3

\* A valid handoff of the agent at work extends the chain.
LEMMA ChainGrows ==
    ASSUME NEW h \in Seq(Handoff), Chain(h), NEW g \in Handoff,
           g.source = At(h), (At(h) = Coordinator) <=> (g.target # Coordinator)
    PROVE  Chain(h \o <<g>>)
<1> DEFINE l == h \o <<g>>
           n == Len(h)
<1>1. /\ Len(l) = n + 1 /\ DOMAIN l = 1..(n + 1) /\ DOMAIN h = 1..n
      /\ n \in Nat /\ l[n + 1] = g /\ \A i \in 1..n : l[i] = h[i]
    BY OneMore
<1>2. At(h) = Coordinator <=> n % 2 = 0
    BY ChainParity
<1>3. n % 2 = 0 <=> (n + 1) % 2 = 1
    BY <1>1
<1>4. g.source \in AgentRole /\ g.target \in AgentRole
    BY DEF Handoff
<1>5. IF (n + 1) % 2 = 1
      THEN g.source = Coordinator /\ g.target \in Specialists
      ELSE g.source \in Specialists /\ g.target = Coordinator
    BY <1>2, <1>3, <1>4
<1>6. \A i \in 1..(n + 1) :
          IF i % 2 = 1
          THEN l[i].source = Coordinator /\ l[i].target \in Specialists
          ELSE l[i].source \in Specialists /\ l[i].target = Coordinator
  <2> SUFFICES ASSUME NEW i \in 1..(n + 1)
               PROVE  IF i % 2 = 1
                      THEN l[i].source = Coordinator /\ l[i].target \in Specialists
                      ELSE l[i].source \in Specialists /\ l[i].target = Coordinator
      OBVIOUS
  <2>1. CASE i = n + 1
      BY <1>1, <1>5, <2>1
  <2>2. CASE i \in 1..n
      BY <1>1, <2>2 DEF Chain
  <2> QED BY <1>1, <2>1, <2>2
<1>7. \A i \in 1..(n + 1) : i > 1 => l[i].source = l[i - 1].target
  <2> SUFFICES ASSUME NEW i \in 1..(n + 1), i > 1
               PROVE  l[i].source = l[i - 1].target
      OBVIOUS
  <2>1. CASE i = n + 1
      BY <1>1, <2>1 DEF At
  <2>2. CASE i \in 1..n
    <3>1. i - 1 \in 1..n
        BY <1>1, <2>2
    <3> QED BY <1>1, <2>2, <3>1 DEF Chain
  <2> QED BY <1>1, <2>1, <2>2
<1> QED BY <1>1, <1>6, <1>7 DEF Chain

\* A state without handoffs has the shape of every label at which the graph is
\* not under way.
LEMMA ShapeInitial ==
    ASSUME NEW saved, NEW e,
           NEW label \in {"waiting", "toolset", "invoke", "dispatch", "failing",
                          "failed", "lost"}
    PROVE  Shape(label, InitialState(saved), e, 0)
BY DEF Shape, Bounded, Fresh, InitialState, Chain

\* The failure of a step leaves the graph state where it was.
LEMMA ShapeFailing ==
    ASSUME NEW label, NEW s, NEW e, NEW steps, Shape(label, s, e, steps)
    PROVE  Shape("failing", s, e, steps)
BY DEF Shape

\* Receiving the message and loading the tools leave the graph alone.
LEMMA ShapeEarly ==
    ASSUME NEW s, NEW e, NEW steps,
           NEW label \in {"waiting", "toolset"}, NEW next \in {"toolset", "invoke"},
           Shape(label, s, e, steps)
    PROVE  Shape(next, s, e, steps)
BY DEF Shape

\* The task of a turn that is not running holds nothing.
LEMMA ShapeIdle ==
    ASSUME NEW s, NEW e, NEW d, NEW steps, NEW label \in {"waiting"} \cup Ended,
           Shape(label, s, e, steps)
    PROVE  Shape(label, s, d, 0)
BY DEF Shape, Bounded, Fresh

\* The answered turn keeps the graph state it ended in.
LEMMA ShapeDone ==
    ASSUME NEW s, NEW e, NEW d, NEW steps, Shape("publish", s, e, steps)
    PROVE  Shape("done", s, d, 0)
BY DEF Shape, Bounded

\* The "dispatch" node starts the work of the coordinator.
LEMMA ShapeDispatch ==
    ASSUME NEW s \in WorkflowState, NEW e, NEW d, NEW steps,
           Shape("dispatch", s, e, steps)
    PROVE  Shape("agent", AfterDispatch(s), d, steps + 1)
<1> DEFINE r == AfterDispatch(s)
<1>1. /\ r.current = Coordinator /\ r.reason = NoReason /\ r.turn = <<>>
      /\ r.handoffs = <<>> /\ r.pending = <<>> /\ steps = 0
    BY DEF AfterDispatch, WorkflowState, Shape, Fresh
<1>2. Rank(Coordinator, NoReason) = 4
    BY DEF Rank, NoReason, Demo
<1> HIDE DEF r
<1>3. /\ Len(r.handoffs) = 0 /\ Len(r.pending) = 0 /\ Chain(r.handoffs)
      /\ At(r.handoffs) = Coordinator /\ OnlyKickoffs(r.turn) /\ steps + 1 = 1
    BY <1>1 DEF Chain, At, OnlyKickoffs
<1>4. AtWork(r, steps + 1) /\ Bounded(r, steps + 1)
    BY <1>1, <1>2, <1>3 DEF AtWork, Bounded
<1>5. Shape("agent", r, d, steps + 1)
    BY <1>4 DEF Shape
<1> QED BY <1>5 DEF r

\* A handler that runs returns a well-formed execution.
LEMMA ShapeRun ==
    ASSUME NEW s, NEW d, NEW e, NEW steps,
           Shape("agent", s, d, steps), WellFormed(s.current, s.reason, e)
    PROVE  Shape("emit", s, e, steps)
BY DEF Shape

\* Sending an acknowledgement leaves the graph alone.
LEMMA ShapeEmit ==
    ASSUME NEW s, NEW e, NEW steps, Shape("emit", s, e, steps)
    PROVE  Shape("commit", s, e, steps)
BY DEF Shape

\* The "handoff" node puts the next agent to work.
LEMMA ShapeHandoff ==
    ASSUME NEW s \in WorkflowState, NEW e, NEW d, NEW steps,
           Shape("handoff", s, e, steps)
    PROVE  Shape("agent", AfterHandoff(s), d, steps + 1)
<1> DEFINE r == AfterHandoff(s)
           h == s.handoffs
           n == Len(h)
<1>1. /\ h \in Seq(Handoff) /\ n \in Nat /\ n > 0 /\ s.pending = <<h[n]>>
      /\ steps = 2 * n /\ n <= 4
    BY DEF Shape, Bounded, Passing, WorkflowState
<1>2. Head(s.pending) = h[n] /\ Tail(s.pending) = <<>>
    BY <1>1
<1>3. /\ r.current = h[n].target /\ r.reason = h[n].reason /\ r.pending = <<>>
      /\ r.handoffs = h /\ r.turn = s.turn
    BY <1>2 DEF AfterHandoff, WorkflowState
<1>4. r.current = At(h)
    BY <1>1, <1>3 DEF At
<1>5. /\ Chain(h) /\ n + Rank(h[n].target, h[n].reason) <= 4
      /\ OnlyKickoffs(s.turn)
    BY DEF Shape, Bounded, Passing
<1>6. Len(r.pending) = 0 /\ steps + 1 = 2 * n + 1 /\ steps + 1 <= 10
    BY <1>1, <1>3
<1> HIDE DEF r
<1>7. AtWork(r, steps + 1) /\ Bounded(r, steps + 1)
    BY <1>1, <1>3, <1>4, <1>5, <1>6 DEF AtWork, Bounded
<1>8. Shape("agent", r, d, steps + 1)
    BY <1>7 DEF Shape
<1> QED BY <1>8 DEF r

\* What an agent node makes of the graph state, part by part.
LEMMA AfterAgentParts ==
    ASSUME NEW s \in WorkflowState, NEW t \in Turns, NEW e \in Execution
    PROVE  LET r == AfterAgent(s, t, e) IN
           /\ r.current = s.current /\ r.reason = s.reason
           /\ r.turn = s.turn \o e.messages
           /\ r.handoffs = s.handoffs \o e.handoffs
           /\ r.pending = e.handoffs
BY DEF AfterAgent, WorkflowState

\* A node that is done passes the work on or ends the turn with a reply.
LEMMA ShapeCommit ==
    ASSUME NEW s \in WorkflowState, NEW t \in Turns, NEW e, NEW d,
           NEW steps, Shape("commit", s, e, steps)
    PROVE  Shape(IF e.handoffs # <<>> THEN "handoff" ELSE "publish",
                 AfterAgent(s, t, e), d, steps + 1)
<1> DEFINE r == AfterAgent(s, t, e)
           h == s.handoffs
           n == Len(h)
<1>1. /\ h \in Seq(Handoff) /\ n \in Nat /\ s.turn \in Seq(Message)
      /\ s.current \in AgentRole /\ s.reason \in Reason
    BY DEF WorkflowState
<1>2. /\ Chain(h) /\ steps = 2 * n + 1 /\ n + Rank(s.current, s.reason) <= 4
      /\ s.current = At(h) /\ OnlyKickoffs(s.turn) /\ n <= 4
      /\ WellFormed(s.current, s.reason, e)
    BY DEF Shape, Bounded, AtWork
<1>3. /\ r.current = s.current /\ r.reason = s.reason
      /\ r.turn = s.turn \o e.messages /\ r.handoffs = h \o e.handoffs
      /\ r.pending = e.handoffs
    BY <1>2, AfterAgentParts DEF WellFormed
<1> HIDE DEF r
<1>4. CASE Final(e)
  <2>1. PICK message \in Remark(Kinds \ {"kickoff"}) : e.messages = <<message>>
      BY <1>4 DEF Final
  <2>2. message \in Message
      BY DEF Remark, Message
  <2>3. r.turn = s.turn \o <<message>>
      BY <1>3, <2>1
  <2>4. Answered(r.turn)
    <3>1. /\ Len(r.turn) = Len(s.turn) + 1 /\ Len(s.turn) \in Nat
          /\ DOMAIN r.turn = 1..(Len(s.turn) + 1) /\ DOMAIN s.turn = 1..Len(s.turn)
          /\ \A i \in 1..Len(s.turn) : r.turn[i] = s.turn[i]
          /\ r.turn[Len(s.turn) + 1] = message
        BY <1>1, <2>2, <2>3, OneMore
    <3> QED BY <1>2, <3>1 DEF Answered, OnlyKickoffs, Remark
  <2>5. e.handoffs = <<>> /\ r.handoffs = h /\ r.pending = <<>>
      BY <1>1, <1>3, <1>4 DEF Final
  <2>6. steps + 1 = 2 * n + 2 /\ steps + 1 <= 10 /\ Len(r.pending) <= 1
      BY <1>1, <1>2, <2>5
  <2>7. Bounded(r, steps + 1)
      BY <1>2, <2>5, <2>6 DEF Bounded
  <2>8. Shape("publish", r, d, steps + 1)
      BY <2>4, <2>5, <2>6, <2>7 DEF Shape
  <2> QED BY <2>5, <2>8 DEF r
<1>5. CASE PassesOn(s.current, s.reason, e)
  <2>1. PICK g \in Handoff :
            /\ e.handoffs = <<g>>
            /\ g.source = s.current
            /\ (s.current = Coordinator) <=> (g.target # Coordinator)
            /\ Rank(g.target, g.reason) < Rank(s.current, s.reason)
      BY <1>5 DEF PassesOn
  <2>2. Chain(h \o <<g>>)
      BY <1>1, <1>2, <2>1, ChainGrows
  <2>3. /\ Len(r.handoffs) = n + 1 /\ r.handoffs[n + 1] = g
        /\ r.handoffs = h \o <<g>>
      BY <1>1, <1>3, <2>1, OneMore
  <2>4. Rank(g.target, g.reason) \in Nat /\ Rank(s.current, s.reason) \in Nat
      BY DEF Rank
  <2>5. n + 1 <= 4 /\ n + 1 + Rank(g.target, g.reason) <= 4
      BY <1>1, <1>2, <2>1, <2>4
  <2>6. OnlyKickoffs(r.turn)
    <3>1. CASE e.messages = <<>>
        BY <1>1, <1>2, <1>3, <3>1
    <3>2. CASE \E message \in Remark({"kickoff"}) : e.messages = <<message>>
      <4>1. PICK message \in Remark({"kickoff"}) : e.messages = <<message>>
          BY <3>2
      <4>2. message \in Message /\ r.turn = s.turn \o <<message>>
          BY <1>3, <4>1 DEF Remark, Message
      <4>3. /\ DOMAIN r.turn = 1..(Len(s.turn) + 1) /\ Len(s.turn) \in Nat
            /\ DOMAIN s.turn = 1..Len(s.turn)
            /\ \A i \in 1..Len(s.turn) : r.turn[i] = s.turn[i]
            /\ r.turn[Len(s.turn) + 1] = message
          BY <1>1, <4>2, OneMore
      <4> QED BY <1>2, <4>3 DEF OnlyKickoffs, Remark
    <3> QED BY <1>5, <3>1, <3>2 DEF PassesOn
  <2>7. e.handoffs # <<>> /\ r.pending = <<g>> /\ Len(r.pending) = 1
      BY <1>3, <2>1
  <2>8. steps + 1 = 2 * (n + 1) /\ steps + 1 <= 10 /\ n + 1 > 0
      BY <1>1, <1>2, <2>5
  <2>9. Chain(r.handoffs)
      BY <2>2, <2>3
  <2>10. Bounded(r, steps + 1) /\ Passing(r, steps + 1)
      BY <2>3, <2>5, <2>6, <2>7, <2>8, <2>9 DEF Bounded, Passing
  <2>11. Shape("handoff", r, d, steps + 1)
      BY <2>10 DEF Shape
  <2> QED BY <2>7, <2>11 DEF r
<1> QED BY <1>2, <1>4, <1>5 DEF WellFormed

\* A step of one turn needs to be looked at for that turn only.
LEMMA TurnFrame ==
    ASSUME TurnInv, NEW t \in Turns,
           \A u \in Turns \ {t} :
               pc'[u] = pc[u] /\ state'[u] = state[u] /\ task'[u] = task[u],
           Shape(pc'[t], state'[t], task'[t].exec, task'[t].steps)
    PROVE  TurnInv'
BY DEF TurnInv

\* What a superstep makes of the variables of its turn, and of the others.
LEMMA SuperstepEffect ==
    ASSUME TypeOK, NEW t \in Turns, NEW s, NEW label, Superstep(t, s, label)
    PROVE  /\ pc'[t] = label /\ state'[t] = s
           /\ task'[t].exec = NoExecution /\ task'[t].steps = task[t].steps + 1
           /\ \A u \in Turns \ {t} :
                 pc'[u] = pc[u] /\ state'[u] = state[u] /\ task'[u] = task[u]
BY DEF Superstep, Goto, TypeOK, Task

\* Every turn has the shape its place in the code implies.
THEOREM TurnShape == Spec => []TurnInv
<1>1. Init => TurnInv
    BY ShapeInitial DEF Init, TurnInv, NewTask
<1>2. TypeOK /\ TurnInv /\ [Next]_vars => TurnInv'
  <2> SUFFICES ASSUME TypeOK, TurnInv, [Next]_vars PROVE TurnInv'
      OBVIOUS
  <2>0. ASSUME NEW t \in Turns
        PROVE  /\ Shape(pc[t], state[t], task[t].exec, task[t].steps)
               /\ state[t] \in WorkflowState /\ task[t] \in Task
      BY DEF TurnInv, TypeOK
  <2>1. ASSUME NEW t \in Turns, NEW m \in Messages, Receive(t, m)
        PROVE  TurnInv'
    <3>1. Shape("toolset", state[t], task[t].exec, task[t].steps)
        BY <2>0, <2>1, ShapeEarly DEF Receive
    <3> QED BY <2>1, <3>1, TurnFrame DEF Receive, Goto, TypeOK
  <2>2. ASSUME NEW t \in Turns, NEW env \in Environments,
               InitializeToolset(t, env)
        PROVE  TurnInv'
    <3>1. Shape("invoke", state[t], task[t].exec, task[t].steps)
        BY <2>0, <2>2, ShapeEarly DEF InitializeToolset
    <3>2. task'[t].exec = task[t].exec /\ task'[t].steps = task[t].steps
        BY <2>0, <2>2 DEF InitializeToolset, TypeOK, Task
    <3> QED
        BY <2>2, <3>1, <3>2, TurnFrame DEF InitializeToolset, Goto, TypeOK
  <2>3. ASSUME NEW t \in Turns, Invoke(t)
        PROVE  TurnInv'
    <3>1. task[t].steps = 0
        BY <2>0, <2>3 DEF Invoke, Shape, Fresh
    <3>2. Shape("dispatch", InitialState(checkpoint), task[t].exec, 0)
        BY ShapeInitial
    <3> QED BY <2>3, <3>1, <3>2, TurnFrame DEF Invoke, Goto, TypeOK
  <2>4. ASSUME NEW t \in Turns, DispatchNode(t)
        PROVE  TurnInv'
    <3>1. Shape("agent", AfterDispatch(state[t]), NoExecution, task[t].steps + 1)
        BY <2>0, <2>4, ShapeDispatch DEF DispatchNode
    <3> QED BY <2>4, <3>1, SuperstepEffect, TurnFrame DEF DispatchNode
  <2>5. ASSUME NEW t \in Turns, NEW e \in Results(t), RunAgent(t, e)
        PROVE  TurnInv'
    <3>1. WellFormed(state[t].current, state[t].reason, e)
        BY ResultsWellFormed
    <3>2. Shape("emit", state[t], e, task[t].steps)
        BY <2>0, <2>5, <3>1, ShapeRun DEF RunAgent
    <3>3. /\ task'[t].exec = e /\ task'[t].steps = task[t].steps
          /\ \A u \in Turns \ {t} : task'[u] = task[u]
        BY <2>0, <2>5 DEF RunAgent, TypeOK, Task
    <3> QED BY <2>5, <3>2, <3>3, TurnFrame DEF RunAgent, Goto, TypeOK
  <2>6. ASSUME NEW t \in Turns, EmitPublicMessages(t)
        PROVE  TurnInv'
    <3>1. Shape("commit", state[t], task[t].exec, task[t].steps)
        BY <2>0, <2>6, ShapeEmit DEF EmitPublicMessages
    <3>2. /\ task'[t].exec = task[t].exec /\ task'[t].steps = task[t].steps
          /\ \A u \in Turns \ {t} : task'[u] = task[u]
        BY <2>0, <2>6 DEF EmitPublicMessages, TypeOK, Task
    <3> QED BY <2>6, <3>1, <3>2, TurnFrame DEF EmitPublicMessages, Goto, TypeOK
  <2>7. ASSUME NEW t \in Turns, CommitAgent(t)
        PROVE  TurnInv'
    <3> DEFINE e == task[t].exec
               label == IF e.handoffs # <<>> THEN "handoff" ELSE "publish"
    <3>1. Shape(label, AfterAgent(state[t], t, e), NoExecution, task[t].steps + 1)
        BY <2>0, <2>7, ShapeCommit DEF CommitAgent
    <3>2. Superstep(t, AfterAgent(state[t], t, e), label)
        BY <2>7 DEF CommitAgent
    <3> HIDE DEF label
    <3> QED BY <3>1, <3>2, SuperstepEffect, TurnFrame
  <2>8. ASSUME NEW t \in Turns, HandoffNode(t)
        PROVE  TurnInv'
    <3>1. Shape("agent", AfterHandoff(state[t]), NoExecution, task[t].steps + 1)
        BY <2>0, <2>8, ShapeHandoff DEF HandoffNode
    <3> QED BY <2>8, <3>1, SuperstepEffect, TurnFrame DEF HandoffNode
  <2>9. ASSUME NEW t \in Turns, PublishTranscript(t)
        PROVE  TurnInv'
    <3>1. Shape("done", state[t], NewTask.exec, 0)
        BY <2>0, <2>9, ShapeDone DEF PublishTranscript
    <3>2. NewTask.steps = 0
        BY DEF NewTask
    <3> QED
        BY <2>9, <3>1, <3>2, TurnFrame DEF PublishTranscript, Goto, TypeOK
  <2>10. ASSUME NEW t \in Turns, FailStep(t)
         PROVE  TurnInv'
    <3>1. Shape("failing", state[t], task[t].exec, task[t].steps)
        BY <2>0, ShapeFailing
    <3> QED BY <2>10, <3>1, TurnFrame DEF FailStep, Goto, TypeOK
  <2>11. ASSUME NEW t \in Turns, ReportError(t)
         PROVE  TurnInv'
    <3>1. Shape("failed", InitialState(<<>>), NewTask.exec, 0)
        BY ShapeInitial
    <3>2. NewTask.steps = 0
        BY DEF NewTask
    <3> QED BY <2>11, <3>1, <3>2, TurnFrame DEF ReportError, Goto, TypeOK
  <2>12. CASE Persist
      BY <2>12 DEF Persist, TurnInv
  <2>13. CASE Crash
    <3> SUFFICES ASSUME NEW t \in Turns
                 PROVE  Shape(pc[t], state[t], task[t].exec, task[t].steps)'
        BY DEF TurnInv
    <3>1. task'[t] = NewTask /\ NewTask.steps = 0
        BY <2>13 DEF Crash, NewTask
    <3>2. CASE t \in Active
        BY <2>13, <3>1, <3>2, ShapeInitial DEF Crash
    <3>3. CASE t \notin Active
      <4>1. pc[t] \in {"waiting"} \cup Ended
          BY <3>3 DEF Active, TypeOK
      <4>2. Shape(pc[t], state[t], NewTask.exec, 0)
          BY <2>0, <4>1, ShapeIdle
      <4> QED BY <2>13, <3>1, <3>3, <4>2 DEF Crash
    <3> QED BY <3>2, <3>3
  <2>14. CASE UNCHANGED vars
      BY <2>14 DEF TurnInv, vars
  <2> QED
      BY <2>1, <2>2, <2>3, <2>4, <2>5, <2>6, <2>7, <2>8, <2>9, <2>10, <2>11,
         <2>12, <2>13, <2>14 DEF Next, Progress
<1> QED
    BY <1>1, <1>2, TypeCorrect, PTL DEF Spec

-----------------------------------------------------------------------------
(* What the shape of the turns implies.                                    *)

\* Work goes from the coordinator to one specialist and back, one handoff at a
\* time, for any number of overlapping turns.
THEOREM HandoffsAlternate == Spec => []HandoffsChain
<1>1. TurnInv => HandoffsChain
    BY DEF TurnInv, Shape, Bounded, Chain, HandoffsChain
<1> QED BY <1>1, TurnShape, PTL

\* No handoff an agent asked for is dropped when pending_handoffs is replaced.
THEOREM HandoffsCarriedOut == Spec => []NoHandoffLost
<1>1. TurnInv => NoHandoffLost
    BY DEF TurnInv, Shape, NoHandoffLost
<1> QED BY <1>1, TurnShape, PTL

\* No sequence of agent decisions takes a turn past four handoffs and ten
\* supersteps: with LangGraph's limit of 25 it never hits that limit.
THEOREM BudgetKept == Spec => []TurnWithinBudget
<1>1. TurnInv => TurnWithinBudget
    BY DEF TurnInv, Shape, Bounded, TurnWithinBudget
<1> QED BY <1>1, TurnShape, PTL

\* A turn never ends without exactly one final reply by the coordinator, after
\* acknowledgements only.
THEOREM TurnsAnswered == Spec => []FinishedTurnIsAnswered
<1>1. TurnInv => FinishedTurnIsAnswered
    BY DEF TurnInv, Shape, Answered, FinishedTurnIsAnswered
<1> QED BY <1>1, TurnShape, PTL
=============================================================================
