---------------------------- MODULE MemoryProofs ----------------------------
(***************************************************************************)
(* Theorems about what module Workflow shows and remembers: replies claim  *)
(* only what was done, acknowledgements are remembered only when the user  *)
(* has seen them, and what is done on the user's behalf answers a question *)
(* the conversation left open.                                             *)
(***************************************************************************)
EXTENDS WorkflowProofs, WellFoundedInduction

-----------------------------------------------------------------------------
(* The invariant.  The things a turn's past is judged by are parameters:   *)
(* sh is what the thread shows, pg the turns that wrote a page, dp those   *)
(* that deployed.  All of them only grow.                                  *)

\* What a message claims of turn t was done.
Earned(message, t, pg, dp) ==
    /\ message.kind = "prototype" => t \in dp
    /\ message.kind = "prd_saved" => t \in pg

\* What a handoff context reports of turn t was done.
Reports(reason, t, pg, dp) ==
    /\ reason.stage = "prototype_summary" /\ reason.status = "ready" => t \in dp
    /\ reason.stage = "prd_ready" /\ reason.persisted => t \in pg

\* An entry fit to be remembered.
Founded(entry, sh, pg, dp) ==
    /\ Earned(entry.message, entry.turn, pg, dp)
    /\ entry.message.kind = "kickoff" => \E j \in DOMAIN sh : sh[j] = entry
AllFounded(entries, sh, pg, dp) ==
    \A i \in DOMAIN entries : Founded(entries[i], sh, pg, dp)

\* The execution a turn is about to commit: what it claims and hands over was
\* done, and its acknowledgement, once sent, is in the thread.
Sincere(e, t, pg, dp) ==
    /\ \A i \in DOMAIN e.messages : Earned(e.messages[i], t, pg, dp)
    /\ \A i \in DOMAIN e.handoffs : Reports(e.handoffs[i].reason, t, pg, dp)
Told(e, t, sh) ==
    \A i \in DOMAIN e.messages :
        e.messages[i].kind = "kickoff" =>
            \E j \in DOMAIN sh : sh[j] = [turn |-> t, message |-> e.messages[i]]

\* What the graph state of turn t holds.
StateHeld(t, s, sh, pg, dp) ==
    /\ AllFounded(s.transcript, sh, pg, dp)
    /\ \A i \in DOMAIN s.turn : Earned(s.turn[i], t, pg, dp)
    /\ Reports(s.reason, t, pg, dp)
    /\ \A i \in DOMAIN s.pending : Reports(s.pending[i].reason, t, pg, dp)

Held(label, t, s, e, sh, pg, dp) ==
    /\ StateHeld(t, s, sh, pg, dp)
    /\ label \in {"emit", "commit"} => Sincere(e, t, pg, dp)
    /\ label = "commit" => Told(e, t, sh)

ShownEarned(sh, pg, dp) ==
    \A i \in DOMAIN sh : Earned(sh[i].message, sh[i].turn, pg, dp)

MemoryInv ==
    /\ ShownEarned(shown, pages, deploys)
    /\ AllFounded(checkpoint, shown, pages, deploys)
    /\ \A w \in DOMAIN writes :
          AllFounded(writes[w].transcript, shown, pages, deploys)
    /\ \A t \in Turns :
          Held(pc[t], t, state[t], task[t].exec, shown, pages, deploys)

-----------------------------------------------------------------------------
(* Executions.                                                             *)

\* A handler's claims follow from its handoff context, and what it hands over
\* from what it did.
Honest(reason, e) ==
    /\ \A i \in DOMAIN e.messages :
          /\ e.messages[i].kind = "prototype" =>
                reason.stage = "prototype_summary" /\ reason.status = "ready"
          /\ e.messages[i].kind = "prd_saved" =>
                reason.stage = "prd_ready" /\ reason.persisted
    /\ \A i \in DOMAIN e.handoffs :
          LET next == e.handoffs[i].reason IN
          /\ next.stage = "prototype_summary" /\ next.status = "ready" => e.deployed
          /\ next.stage = "prd_ready" /\ next.persisted => e.page

USE DEF Coordinator, Specialists, AgentRole, Asks, Kinds, Stages

\* The coordinator reports a prototype or a saved PRD only when it was told so.
LEMMA CoordinatorHonest ==
    ASSUME NEW m \in UserMessage, NEW reason \in Reason, NEW recent,
           NEW env \in Environment,
           NEW e \in CoordinatorExecutions(m, reason, recent, env)
    PROVE  Honest(reason, e)
<1>1. ASSUME NEW kind \in Kinds \ {"prd_saved"}, e \in Replies(kind, env),
             kind = "prototype" =>
                 reason.stage = "prototype_summary" /\ reason.status = "ready"
      PROVE  Honest(reason, e)
    BY <1>1 DEF Replies, Plain, Says, Honest
<1>2. ASSUME NEW target, NEW stage \in {"research_brief", "prd_brief",
                                        "prototype_brief"},
             e \in Kickoffs(target, stage)
      PROVE  Honest(reason, e)
    BY <1>2 DEF Kickoffs, Plain, Says, To, Demo, Honest
<1>3. ASSUME NEW target, NEW next \in Reason,
             next.stage \in {"text", "research_findings"},
             e \in Delegates(target, next)
      PROVE  Honest(reason, e)
    BY <1>3 DEF Delegates, Plain, To, Honest
<1>4. CASE reason.stage = "none"
  <2>1. Text \in Reason /\ Text.stage = "text"
      BY DEF Text, Demo, Reason
  <2>2. CASE e \in Replies("out_of_scope", env)
      BY <2>2, <1>1
  <2>3. CASE \E target \in Specialists,
                stage \in {"research_brief", "prd_brief", "prototype_brief"} :
                 e \in Kickoffs(target, stage)
      BY <2>3, <1>2
  <2>4. CASE e \in Delegates(DispatchTarget(m), Text)
      BY <2>1, <2>4, <1>3
  <2> QED
      BY <1>4, <2>2, <2>3, <2>4 DEF CoordinatorExecutions, FirstMove
<1>5. CASE reason.stage # "none"
  <2>1. CASE e \in Delegates("product_manager", reason)
             /\ reason.stage = "research_findings"
      BY <2>1, <1>3
  <2>2. CASE e = PrdReadyReply(reason.persisted) /\ reason.stage = "prd_ready"
      BY <2>2 DEF PrdReadyReply, Plain, Says, Honest
  <2>3. CASE \E kind \in {"blocked", "options", "answer"} : e \in Replies(kind, env)
      BY <2>3, <1>1
  <2>4. CASE /\ e \in Replies("prototype", env)
             /\ reason.stage = "prototype_summary" /\ reason.status = "ready"
      BY <2>4, <1>1
  <2> QED
      BY <1>5, <2>1, <2>2, <2>3, <2>4 DEF CoordinatorExecutions, HandoffReply
<1> QED BY <1>4, <1>5

\* A specialist reports a deployment or a saved page only when it made one.
LEMMA SpecialistHonest ==
    ASSUME NEW role \in Specialists, NEW m \in UserMessage,
           NEW reason \in Reason, NEW recent, NEW env \in Environment,
           NEW e \in Executions(role, m, reason, recent, env)
    PROVE  Honest(reason, e)
<1> USE DEF Finish, HandBack, Text, Demo, To, Honest
<1>1. CASE role = "product_manager"
  <2>1. CASE e \in PrdExecutions(env)
      BY <2>1 DEF PrdExecutions, PersistOutcomes
  <2>2. CASE \E stage \in {"options_summary", "text"}, acted \in BOOLEAN :
                 e = HandBack("product_manager", Demo(stage, "ready"), FALSE, acted)
      BY <2>2
  <2> QED BY <1>1, <2>1, <2>2 DEF Executions, ProductManagerExecutions, MayAct
<1>2. CASE role = "user_researcher"
    BY <1>2 DEF Executions, UserResearcherExecutions
<1>3. CASE role = "product_designer"
    BY <1>3 DEF Executions, ProductDesignerExecutions, PrototypeOutcomes
<1>4. CASE role = "market_analyst"
    BY <1>4 DEF Executions, MarketAnalystExecutions
<1> QED BY <1>1, <1>2, <1>3, <1>4

\* Every handler of the table is honest.
LEMMA ResultsHonest ==
    ASSUME TypeOK, NEW t \in Turns, NEW e \in Results(t)
    PROVE  Honest(state[t].reason, e)
<1>1. /\ state[t].current \in AgentRole /\ state[t].reason \in Reason
      /\ request[t] \in UserMessage /\ task[t].env \in Environment
    BY DEF TypeOK, WorkflowState, Task
<1>2. CASE state[t].current = Coordinator
    BY <1>1, <1>2, CoordinatorHonest DEF Results, Executions
<1> QED BY <1>1, <1>2, SpecialistHonest DEF Results

-----------------------------------------------------------------------------
(* Sequences, and what grows.                                              *)

Longer(sh, more) == \A j \in DOMAIN sh : j \in DOMAIN more /\ more[j] = sh[j]

\* all starts with p and holds the elements of p and q and no others.
Joined(p, q, all) ==
    /\ \A i \in DOMAIN all : \/ \E j \in DOMAIN p : all[i] = p[j]
                             \/ \E j \in DOMAIN q : all[i] = q[j]
    /\ Longer(p, all)
    /\ \A j \in DOMAIN q : \E i \in DOMAIN all : all[i] = q[j]

\* Where the elements of a concatenation come from and go.
LEMMA Concatenation ==
    ASSUME NEW S, NEW p \in Seq(S), NEW q \in Seq(S)
    PROVE  Joined(p, q, p \o q)
<1> DEFINE r == p \o q
<1>1. /\ Len(p) \in Nat /\ Len(q) \in Nat /\ DOMAIN p = 1..Len(p)
      /\ DOMAIN q = 1..Len(q) /\ DOMAIN r = 1..(Len(p) + Len(q))
    OBVIOUS
<1>2. /\ \A i \in 1..Len(p) : r[i] = p[i]
      /\ \A i \in 1..Len(q) : r[Len(p) + i] = q[i]
    OBVIOUS
<1>3. ASSUME NEW i \in DOMAIN r
      PROVE  \/ \E j \in DOMAIN p : r[i] = p[j]
             \/ \E j \in DOMAIN q : r[i] = q[j]
  <2>1. CASE i <= Len(p)
      BY <1>1, <1>2, <2>1
  <2>2. CASE i > Len(p)
    <3>1. i - Len(p) \in 1..Len(q) /\ i = Len(p) + (i - Len(p))
        BY <1>1, <2>2
    <3> QED BY <1>1, <1>2, <3>1
  <2> QED BY <1>1, <2>1, <2>2
<1>4. \A j \in DOMAIN p : j \in DOMAIN r /\ r[j] = p[j]
    BY <1>1, <1>2
<1>5. ASSUME NEW j \in DOMAIN q
      PROVE  \E i \in DOMAIN r : r[i] = q[j]
  <2>1. Len(p) + j \in DOMAIN r /\ r[Len(p) + j] = q[j]
      BY <1>1, <1>2
  <2> QED BY <2>1
<1> QED BY <1>3, <1>4, <1>5 DEF Joined, Longer

\* Entries labels every message with the turn.
LEMMA EntriesElements ==
    ASSUME NEW t, NEW messages
    PROVE  /\ DOMAIN Entries(t, messages) = DOMAIN messages
           /\ \A i \in DOMAIN messages :
                 Entries(t, messages)[i] = [turn |-> t, message |-> messages[i]]
BY DEF Entries

\* The thread and the effects of turns only grow.
Grown(sh, more, pg, pg2, dp, dp2) ==
    Longer(sh, more) /\ pg \subseteq pg2 /\ dp \subseteq dp2

\* What may be remembered may be remembered later.
LEMMA FoundedStays ==
    ASSUME NEW sh, NEW more, NEW pg, NEW pg2, NEW dp, NEW dp2,
           Grown(sh, more, pg, pg2, dp, dp2), NEW entries,
           AllFounded(entries, sh, pg, dp)
    PROVE  AllFounded(entries, more, pg2, dp2)
BY DEF Grown, AllFounded, Founded, Earned, Longer

\* What a graph state holds stays true.
LEMMA StateStays ==
    ASSUME NEW sh, NEW more, NEW pg, NEW pg2, NEW dp, NEW dp2,
           Grown(sh, more, pg, pg2, dp, dp2), NEW t, NEW s,
           StateHeld(t, s, sh, pg, dp)
    PROVE  StateHeld(t, s, more, pg2, dp2)
<1>1. AllFounded(s.transcript, more, pg2, dp2)
    BY FoundedStays DEF StateHeld
<1> QED BY <1>1 DEF Grown, StateHeld, Earned, Reports

\* What holds for a turn stays true.
LEMMA HeldStays ==
    ASSUME NEW sh, NEW more, NEW pg, NEW pg2, NEW dp, NEW dp2,
           Grown(sh, more, pg, pg2, dp, dp2), NEW label, NEW t, NEW s, NEW e,
           Held(label, t, s, e, sh, pg, dp)
    PROVE  Held(label, t, s, e, more, pg2, dp2)
<1>1. StateHeld(t, s, more, pg2, dp2)
    BY StateStays DEF Held
<1>2. Sincere(e, t, pg, dp) => Sincere(e, t, pg2, dp2)
    BY DEF Grown, Sincere, Earned, Reports
<1>3. Told(e, t, sh) => Told(e, t, more)
    BY DEF Grown, Told, Longer
<1> QED BY <1>1, <1>2, <1>3 DEF Held

\* What an extended thread claims was done when its old and its new part do.
LEMMA ShownMore ==
    ASSUME NEW S, NEW sh \in Seq(S), NEW T, NEW messages \in Seq(T), NEW t,
           Entries(t, messages) \in Seq(S), NEW pg, NEW dp,
           ShownEarned(sh, pg, dp),
           \A i \in DOMAIN messages : Earned(messages[i], t, pg, dp)
    PROVE  /\ Longer(sh, sh \o Entries(t, messages))
           /\ ShownEarned(sh \o Entries(t, messages), pg, dp)
<1> DEFINE new == Entries(t, messages)
<1>1. ASSUME NEW j \in DOMAIN new
      PROVE  Earned(new[j].message, new[j].turn, pg, dp)
  <2>1. j \in DOMAIN messages /\ new[j] = [turn |-> t, message |-> messages[j]]
      BY EntriesElements
  <2> QED BY <2>1
<1> DEFINE all == sh \o new
<1>2. Joined(sh, new, all)
    BY Concatenation
<1> HIDE DEF new, all
<1>3. Longer(sh, all) /\ ShownEarned(all, pg, dp)
    BY <1>1, <1>2 DEF Joined, ShownEarned
<1> QED BY <1>3 DEF new, all

-----------------------------------------------------------------------------
(* The steps.                                                              *)

\* What MemoryInv asks of the other turns, of the checkpoint and of the writes
\* survives a step of turn t that queues at most a write that may be read back.
LEMMA MemoryFrame ==
    ASSUME MemoryInv, NEW t \in Turns,
           Grown(shown, shown', pages, pages', deploys, deploys'),
           ShownEarned(shown', pages', deploys'),
           checkpoint' = checkpoint,
           \A w \in DOMAIN writes' :
               \/ \E v \in DOMAIN writes : writes'[w] = writes[v]
               \/ AllFounded(writes'[w].transcript, shown', pages', deploys'),
           \A u \in Turns \ {t} : /\ pc'[u] = pc[u] /\ state'[u] = state[u]
                                  /\ task'[u].exec = task[u].exec,
           Held(pc'[t], t, state'[t], task'[t].exec, shown', pages', deploys')
    PROVE  MemoryInv'
<1>1. AllFounded(checkpoint, shown', pages', deploys')
    BY FoundedStays DEF MemoryInv
<1>2. ASSUME NEW w \in DOMAIN writes'
      PROVE  AllFounded(writes'[w].transcript, shown', pages', deploys')
  <2>1. ASSUME NEW v \in DOMAIN writes
        PROVE  AllFounded(writes[v].transcript, shown', pages', deploys')
    <3>1. AllFounded(writes[v].transcript, shown, pages, deploys)
        BY DEF MemoryInv
    <3> QED BY <3>1, FoundedStays
  <2> QED BY <2>1
<1>3. ASSUME NEW u \in Turns \ {t}
      PROVE  Held(pc'[u], u, state'[u], task'[u].exec, shown', pages', deploys')
  <2>1. Held(pc[u], u, state[u], task[u].exec, shown, pages, deploys)
      BY DEF MemoryInv
  <2>2. Held(pc[u], u, state[u], task[u].exec, shown', pages', deploys')
      BY <2>1, HeldStays
  <2> QED BY <2>2
<1>4. \A u \in Turns :
          Held(pc'[u], u, state'[u], task'[u].exec, shown', pages', deploys')
    BY <1>3
<1> QED BY <1>1, <1>2, <1>4 DEF MemoryInv

\* A state that may be saved, at a label without an execution.
LEMMA HeldElsewhere ==
    ASSUME NEW label, label \notin {"emit", "commit"}, NEW t, NEW s, NEW e,
           NEW sh, NEW pg, NEW dp, StateHeld(t, s, sh, pg, dp)
    PROVE  Held(label, t, s, e, sh, pg, dp)
BY DEF Held

\* A step that moves turn t to state s and saves s.
LEMMA SavingStep ==
    ASSUME TypeOK, MemoryInv, NEW t \in Turns, NEW s \in WorkflowState, Save(t, s),
           UNCHANGED <<checkpoint, shown, pages, deploys>>,
           pc'[t] \notin {"emit", "commit"}, state'[t] = s,
           \A u \in Turns \ {t} : /\ pc'[u] = pc[u] /\ state'[u] = state[u]
                                  /\ task'[u].exec = task[u].exec,
           StateHeld(t, s, shown, pages, deploys)
    PROVE  MemoryInv'
<1> DEFINE write == [turn |-> t, transcript |-> s.transcript]
<1>1. /\ write \in [turn : Turns, transcript : Seq(Entry)]
      /\ write.transcript = s.transcript
    BY DEF WorkflowState
<1>2. writes' = Append(writes, write)
    BY DEF Save
<1> HIDE DEF write
<1>3. \A w \in DOMAIN writes' :
          (\E v \in DOMAIN writes : writes'[w] = writes[v]) \/ writes'[w] = write
    BY <1>1, <1>2 DEF TypeOK
<1>4. AllFounded(s.transcript, shown, pages, deploys)
    BY DEF StateHeld
<1>5. \A w \in DOMAIN writes' :
          \/ \E v \in DOMAIN writes : writes'[w] = writes[v]
          \/ AllFounded(writes'[w].transcript, shown', pages', deploys')
    BY <1>1, <1>3, <1>4
<1>6. Held(pc'[t], t, state'[t], task'[t].exec, shown', pages', deploys')
    BY HeldElsewhere
<1>7. /\ Grown(shown, shown', pages, pages', deploys, deploys')
      /\ ShownEarned(shown', pages', deploys') /\ checkpoint' = checkpoint
    BY DEF Grown, Longer, MemoryInv
<1> QED BY <1>5, <1>6, <1>7, MemoryFrame

\* A turn starts from what the thread remembers.
LEMMA InitialHeld ==
    ASSUME NEW saved, NEW t, NEW sh, NEW pg, NEW dp,
           AllFounded(saved, sh, pg, dp)
    PROVE  StateHeld(t, InitialState(saved), sh, pg, dp)
<1> DEFINE r == InitialState(saved)
<1>1. /\ r.transcript = saved /\ r.turn = <<>> /\ r.pending = <<>>
      /\ r.reason.stage = "none"
    BY DEF InitialState, NoReason, Demo
<1> HIDE DEF r
<1>2. StateHeld(t, r, sh, pg, dp)
    BY <1>1 DEF StateHeld, Reports
<1> QED BY <1>2 DEF r

\* The "dispatch" node forgets the context of the turn before.
LEMMA DispatchHeld ==
    ASSUME NEW s \in WorkflowState, NEW t, NEW sh, NEW pg, NEW dp,
           StateHeld(t, s, sh, pg, dp)
    PROVE  StateHeld(t, AfterDispatch(s), sh, pg, dp)
<1> DEFINE r == AfterDispatch(s)
<1>1. /\ r.transcript = s.transcript /\ r.turn = <<>> /\ r.pending = s.pending
      /\ r.reason.stage = "none"
    BY DEF AfterDispatch, WorkflowState, NoReason, Demo
<1> HIDE DEF r
<1>2. StateHeld(t, r, sh, pg, dp)
    BY <1>1 DEF StateHeld, Reports
<1> QED BY <1>2 DEF r

\* The "handoff" node passes the context of the pending handoff on.
LEMMA HandoffHeld ==
    ASSUME NEW s \in WorkflowState, s.pending # <<>>, NEW t, NEW sh, NEW pg,
           NEW dp, StateHeld(t, s, sh, pg, dp)
    PROVE  StateHeld(t, AfterHandoff(s), sh, pg, dp)
<1> DEFINE r == AfterHandoff(s)
<1>1. /\ r.transcript = s.transcript /\ r.turn = s.turn
      /\ r.reason = Head(s.pending).reason /\ r.pending = Tail(s.pending)
    BY DEF AfterHandoff, WorkflowState
<1>2. s.pending \in Seq(Handoff)
    BY DEF WorkflowState
<1>3. /\ 1 \in DOMAIN s.pending /\ Head(s.pending) = s.pending[1]
      /\ \A i \in DOMAIN Tail(s.pending) :
            i + 1 \in DOMAIN s.pending /\ Tail(s.pending)[i] = s.pending[i + 1]
    BY <1>2
<1> HIDE DEF r
<1>4. StateHeld(t, r, sh, pg, dp)
    BY <1>1, <1>3 DEF StateHeld
<1> QED BY <1>4 DEF r

\* An agent node adds to the transcript what is earned and shown, and hands over
\* what was done.
LEMMA CommitHeld ==
    ASSUME NEW s \in WorkflowState, NEW t \in Turns, NEW e \in Execution,
           NEW sh, NEW pg, NEW dp, StateHeld(t, s, sh, pg, dp),
           Sincere(e, t, pg, dp), Told(e, t, sh)
    PROVE  StateHeld(t, AfterAgent(s, t, e), sh, pg, dp)
<1> DEFINE r == AfterAgent(s, t, e)
           new == Entries(t, e.messages)
<1>1. /\ r.transcript = s.transcript \o new /\ r.turn = s.turn \o e.messages
      /\ r.reason = s.reason /\ r.pending = e.handoffs
    BY DEF AfterAgent, WorkflowState
<1>2. /\ s.transcript \in Seq(Entry) /\ s.turn \in Seq(Message)
      /\ e.messages \in Seq(Message)
    BY DEF WorkflowState, Execution
<1>3. new \in Seq(Entry)
    BY <1>2, EntriesType DEF Entry
<1>4. ASSUME NEW i \in DOMAIN new
      PROVE  Founded(new[i], sh, pg, dp)
  <2>1. i \in DOMAIN e.messages /\ new[i] = [turn |-> t, message |-> e.messages[i]]
      BY EntriesElements
  <2>2. new[i].turn = t /\ new[i].message = e.messages[i]
      BY <2>1
  <2> QED BY <2>1, <2>2 DEF Founded, Sincere, Told
<1> DEFINE transcript == s.transcript \o new
           turn == s.turn \o e.messages
<1>5. Joined(s.transcript, new, transcript) /\ Joined(s.turn, e.messages, turn)
    BY <1>2, <1>3, Concatenation
<1>6. r.transcript = transcript /\ r.turn = turn
    BY <1>1
<1> HIDE DEF r, new, transcript, turn
<1>7. AllFounded(r.transcript, sh, pg, dp)
    BY <1>4, <1>5, <1>6 DEF Joined, AllFounded, StateHeld
<1>8. \A i \in DOMAIN r.turn : Earned(r.turn[i], t, pg, dp)
    BY <1>5, <1>6 DEF Joined, StateHeld, Sincere
<1>9. StateHeld(t, r, sh, pg, dp)
    BY <1>1, <1>7, <1>8 DEF StateHeld, Sincere
<1> QED BY <1>9 DEF r

USE DEF Running, Ended

\* Whatever the model streams while the handler runs is earned.
LEMMA DeltasEarned ==
    ASSUME NEW e, NEW role, NEW t, NEW pg, NEW dp, Sincere(e, t, pg, dp),
           NEW i \in DOMAIN Deltas(role, e)
    PROVE  Earned(Deltas(role, e)[i], t, pg, dp)
<1>1. CASE Deltas(role, e) = e.messages
    BY <1>1 DEF Sincere
<1>2. CASE Deltas(role, e) = <<Draft(role)>>
    BY <1>2 DEF Draft, Earned
<1>3. CASE Deltas(role, e) = <<>>
    BY <1>3
<1> QED BY <1>1, <1>2, <1>3 DEF Deltas

\* What is published at the end are messages of the turn.
LEMMA UnsentElements ==
    ASSUME NEW messages \in Seq(Message), NEW published \in Seq(Message),
           NEW streamed, NEW i \in DOMAIN Unsent(messages, published, streamed)
    PROVE  \E j \in DOMAIN messages :
               Unsent(messages, published, streamed)[i] = messages[j]
<1> DEFINE n == Len(published)
           rest == SubSeq(messages, n + 1, Len(messages))
<1>1. n \in Nat /\ Len(messages) \in Nat /\ DOMAIN messages = 1..Len(messages)
    OBVIOUS
<1>2. ASSUME n <= Len(messages), NEW k \in DOMAIN rest
      PROVE  \E j \in DOMAIN messages : rest[k] = messages[j]
  <2>1. DOMAIN rest = 1..(Len(messages) - n)
      BY <1>1, <1>2
  <2>2. k + n \in 1..Len(messages) /\ rest[k] = messages[k + n]
      BY <1>1, <1>2, <2>1
  <2> QED BY <1>1, <2>2
<1>3. CASE Unsent(messages, published, streamed) = <<>>
    BY <1>3
<1>4. CASE Unsent(messages, published, streamed) = messages
    BY <1>4
<1>5. CASE Unsent(messages, published, streamed) = rest /\ n <= Len(messages)
    BY <1>2, <1>5
<1> QED BY <1>3, <1>4, <1>5 DEF Unsent

\* A step that shows, saves and does nothing new.
LEMMA QuietStep ==
    ASSUME MemoryInv, NEW t \in Turns,
           UNCHANGED <<checkpoint, writes, shown, pages, deploys>>,
           pc'[t] \notin {"emit", "commit"},
           StateHeld(t, state'[t], shown, pages, deploys),
           \A u \in Turns \ {t} : /\ pc'[u] = pc[u] /\ state'[u] = state[u]
                                  /\ task'[u].exec = task[u].exec
    PROVE  MemoryInv'
<1>1. Held(pc'[t], t, state'[t], task'[t].exec, shown', pages', deploys')
    BY HeldElsewhere
<1>2. /\ Grown(shown, shown', pages, pages', deploys, deploys')
      /\ ShownEarned(shown', pages', deploys') /\ checkpoint' = checkpoint
    BY DEF Grown, Longer, MemoryInv
<1>3. \A w \in DOMAIN writes' : \E v \in DOMAIN writes : writes'[w] = writes[v]
    OBVIOUS
<1> QED BY <1>1, <1>2, <1>3, MemoryFrame

\* Running an agent: what it streams is earned, and its effects are recorded
\* before anybody hears of them.
LEMMA RunStep ==
    ASSUME TypeOK, MemoryInv, NEW t \in Turns, NEW e \in Results(t), RunAgent(t, e)
    PROVE  MemoryInv'
<1> DEFINE role == state[t].current
           messages == Deltas(role, e)
<1>1. e \in Execution /\ role \in AgentRole /\ state[t].reason \in Reason
    BY ResultsWellFormed DEF WellFormed, TypeOK, WorkflowState
<1>2. /\ shown' = shown \o Entries(t, messages)
      /\ pages' = (IF e.page THEN pages \cup {t} ELSE pages)
      /\ deploys' = (IF e.deployed THEN deploys \cup {t} ELSE deploys)
      /\ checkpoint' = checkpoint /\ writes' = writes /\ pc[t] = "agent"
    BY DEF RunAgent
<1>3. /\ pages \subseteq pages' /\ deploys \subseteq deploys'
      /\ e.page => t \in pages'
      /\ e.deployed => t \in deploys'
    BY <1>2
<1>4. StateHeld(t, state[t], shown, pages, deploys)
    BY DEF MemoryInv, Held
<1>5. Reports(state[t].reason, t, pages', deploys')
    BY <1>3, <1>4 DEF StateHeld, Reports
<1>6. Sincere(e, t, pages', deploys')
  <2>1. Honest(state[t].reason, e)
      BY ResultsHonest
  <2>2. \A i \in DOMAIN e.messages : Earned(e.messages[i], t, pages', deploys')
      BY <1>5, <2>1 DEF Honest, Reports, Earned
  <2>3. ASSUME NEW i \in DOMAIN e.handoffs
        PROVE  Reports(e.handoffs[i].reason, t, pages', deploys')
    <3> DEFINE next == e.handoffs[i].reason
    <3>1. /\ next.stage = "prototype_summary" /\ next.status = "ready" => e.deployed
          /\ next.stage = "prd_ready" /\ next.persisted => e.page
        BY <2>1, Zenon DEF Honest
    <3> HIDE DEF next
    <3>2. Reports(next, t, pages', deploys')
        BY <1>3, <3>1, Zenon DEF Reports
    <3> QED BY <3>2 DEF next
  <2> QED BY <2>2, <2>3 DEF Sincere
<1>7. /\ messages \in Seq(Displayed)
      /\ Entries(t, messages) \in Seq([turn : Turns, message : Displayed])
    BY <1>1, ShownType, EntriesType
<1>8. \A i \in DOMAIN messages : Earned(messages[i], t, pages', deploys')
    BY <1>6, DeltasEarned
<1>9. ShownEarned(shown, pages, deploys)
    BY DEF MemoryInv
<1>10. ShownEarned(shown, pages', deploys')
    BY <1>3, <1>9 DEF ShownEarned, Earned
<1>11. shown \in Seq([turn : Turns, message : Displayed])
    BY DEF TypeOK
<1> HIDE DEF messages
<1>12. Grown(shown, shown', pages, pages', deploys, deploys')
       /\ ShownEarned(shown', pages', deploys')
    BY <1>2, <1>3, <1>7, <1>8, <1>10, <1>11, ShownMore DEF Grown
<1>13. /\ pc'[t] = "emit" /\ state'[t] = state[t] /\ task'[t].exec = e
       /\ \A u \in Turns \ {t} : /\ pc'[u] = pc[u] /\ state'[u] = state[u]
                                /\ task'[u].exec = task[u].exec
    BY DEF RunAgent, Goto, TypeOK, Task
<1>14. Held("agent", t, state[t], e, shown, pages, deploys)
    BY <1>4, HeldElsewhere
<1>15. Held("agent", t, state[t], e, shown', pages', deploys')
    BY <1>12, <1>14, HeldStays
<1>16. Held("emit", t, state[t], e, shown', pages', deploys')
    BY <1>6, <1>15 DEF Held
<1>17. \A w \in DOMAIN writes' : \E v \in DOMAIN writes : writes'[w] = writes[v]
    BY <1>2
<1> QED BY <1>2, <1>12, <1>13, <1>16, <1>17, MemoryFrame

\* Sending the acknowledgements: afterwards they are in the thread.
LEMMA EmitStep ==
    ASSUME TypeOK, TurnInv, MemoryInv, NEW t \in Turns, EmitPublicMessages(t)
    PROVE  MemoryInv'
<1> DEFINE e == task[t].exec
           new == Entries(t, Announced(e))
<1>1. e \in Execution /\ state[t].current \in AgentRole
    BY DEF TypeOK, Task, WorkflowState
<1>2. /\ shown' = shown \o new /\ pages' = pages /\ deploys' = deploys
      /\ checkpoint' = checkpoint /\ writes' = writes /\ pc[t] = "emit"
    BY DEF EmitPublicMessages
<1>3. /\ StateHeld(t, state[t], shown, pages, deploys)
      /\ Sincere(e, t, pages, deploys)
    BY <1>2 DEF MemoryInv, Held
<1>4. WellFormed(state[t].current, state[t].reason, e)
    BY <1>2 DEF TurnInv, Shape
<1>5. Announced(e) \in Seq(Displayed)
  <2>1. Announced(e) \in Seq(Message)
      BY <1>1, ShownType
  <2> QED BY <2>1 DEF Displayed
<1>6. new \in Seq([turn : Turns, message : Displayed])
    BY <1>5, EntriesType
<1>7. \A i \in DOMAIN Announced(e) : Earned(Announced(e)[i], t, pages, deploys)
    BY <1>3 DEF Announced, Sincere
<1>8. shown \in Seq([turn : Turns, message : Displayed])
      /\ ShownEarned(shown, pages, deploys)
    BY DEF TypeOK, MemoryInv
<1>9. Grown(shown, shown', pages, pages', deploys, deploys')
      /\ ShownEarned(shown', pages', deploys')
    BY <1>2, <1>5, <1>6, <1>7, <1>8, ShownMore DEF Grown
<1>10. Joined(shown, new, shown')
    BY <1>2, <1>6, <1>8, Concatenation
<1>11. ASSUME NEW i \in DOMAIN e.messages, e.messages[i].kind = "kickoff"
       PROVE  \E j \in DOMAIN shown' :
                  shown'[j] = [turn |-> t, message |-> e.messages[i]]
  <2>1. ~Final(e)
      BY <1>11 DEF Final, Remark
  <2>2. e.handoffs # <<>>
      BY <1>4, <2>1 DEF WellFormed, PassesOn
  <2>3. Announced(e) = e.messages
      BY <2>2 DEF Announced
  <2>4. i \in DOMAIN new /\ new[i] = [turn |-> t, message |-> e.messages[i]]
      BY <1>11, <2>3, EntriesElements
  <2> HIDE DEF new
  <2> QED BY <1>10, <2>4 DEF Joined
<1>12. Told(e, t, shown')
    BY <1>11 DEF Told
<1>13. /\ pc'[t] = "commit" /\ state'[t] = state[t] /\ task'[t].exec = e
       /\ \A u \in Turns \ {t} : /\ pc'[u] = pc[u] /\ state'[u] = state[u]
                                /\ task'[u].exec = task[u].exec
    BY DEF EmitPublicMessages, Goto, TypeOK, Task
<1>14. Held("emit", t, state[t], e, shown, pages, deploys)
    BY <1>2 DEF MemoryInv
<1>15. Held("emit", t, state[t], e, shown', pages', deploys')
    BY <1>9, <1>14, HeldStays
<1>16. Held("commit", t, state[t], e, shown', pages', deploys')
    BY <1>12, <1>15 DEF Held
<1>17. \A w \in DOMAIN writes' : \E v \in DOMAIN writes : writes'[w] = writes[v]
    BY <1>2
<1> HIDE DEF e
<1> QED BY <1>2, <1>9, <1>13, <1>16, <1>17, MemoryFrame

\* Publishing the rest of the reply shows nothing that was not earned.
LEMMA PublishStep ==
    ASSUME TypeOK, MemoryInv, NEW t \in Turns, PublishTranscript(t)
    PROVE  MemoryInv'
<1> DEFINE messages == Unsent(state[t].turn, task[t].published, task[t].streamed)
<1>1. /\ shown' = shown \o Entries(t, messages) /\ pages' = pages
      /\ deploys' = deploys /\ checkpoint' = checkpoint /\ writes' = writes
    BY DEF PublishTranscript
<1>2. state[t].turn \in Seq(Message) /\ task[t].published \in Seq(Message)
    BY DEF TypeOK, WorkflowState, Task
<1>3. messages \in Seq(Message)
    BY <1>2, UnsentType
<1>4. messages \in Seq(Displayed)
    BY <1>3 DEF Displayed
<1>5. Entries(t, messages) \in Seq([turn : Turns, message : Displayed])
    BY <1>4, EntriesType
<1>6. StateHeld(t, state[t], shown, pages, deploys)
    BY DEF MemoryInv, Held
<1>7. \A i \in DOMAIN messages : \E j \in DOMAIN state[t].turn :
          messages[i] = state[t].turn[j]
    BY <1>2, UnsentElements
<1> HIDE DEF messages
<1>8. \A i \in DOMAIN messages : Earned(messages[i], t, pages, deploys)
    BY <1>6, <1>7 DEF StateHeld
<1>9. /\ shown \in Seq([turn : Turns, message : Displayed])
      /\ ShownEarned(shown, pages, deploys)
    BY DEF TypeOK, MemoryInv
<1>10. Grown(shown, shown', pages, pages', deploys, deploys')
       /\ ShownEarned(shown', pages', deploys')
    BY <1>1, <1>4, <1>5, <1>8, <1>9, ShownMore DEF Grown
<1>11. /\ pc'[t] = "done" /\ state'[t] = state[t]
       /\ \A u \in Turns \ {t} : /\ pc'[u] = pc[u] /\ state'[u] = state[u]
                                /\ task'[u].exec = task[u].exec
    BY DEF PublishTranscript, Goto, TypeOK
<1>12. StateHeld(t, state[t], shown', pages', deploys')
    BY <1>6, <1>10, StateStays
<1>13. Held("done", t, state[t], task'[t].exec, shown', pages', deploys')
    BY <1>12, HeldElsewhere
<1>14. \A w \in DOMAIN writes' : \E v \in DOMAIN writes : writes'[w] = writes[v]
    BY <1>1
<1> QED BY <1>1, <1>10, <1>11, <1>13, <1>14, MemoryFrame

\* A superstep of turn t, to a state that may be saved.
LEMMA SuperstepKeeps ==
    ASSUME TypeOK, MemoryInv, NEW t \in Turns, NEW s \in WorkflowState,
           NEW label \in Running \ {"emit", "commit"}, Superstep(t, s, label),
           UNCHANGED <<checkpoint, shown, pages, deploys>>,
           StateHeld(t, s, shown, pages, deploys)
    PROVE  MemoryInv'
<1>1. /\ pc'[t] = label /\ state'[t] = s
      /\ \A u \in Turns \ {t} :
            pc'[u] = pc[u] /\ state'[u] = state[u] /\ task'[u] = task[u]
    BY SuperstepEffect
<1>2. Save(t, s)
    BY DEF Superstep
<1> QED BY <1>1, <1>2, SavingStep

\* The saver makes a state that may be read back the checkpoint.
LEMMA PersistStep ==
    ASSUME TypeOK, MemoryInv, Persist
    PROVE  MemoryInv'
<1>1. /\ checkpoint' = Head(writes).transcript /\ writes' = Tail(writes)
      /\ writes # <<>> /\ writes \in Seq([turn : Turns, transcript : Seq(Entry)])
      /\ UNCHANGED <<pc, task, state, shown, pages, deploys>>
    BY DEF Persist, TypeOK
<1>2. /\ 1 \in DOMAIN writes /\ Head(writes) = writes[1]
      /\ \A w \in DOMAIN Tail(writes) :
            w + 1 \in DOMAIN writes /\ Tail(writes)[w] = writes[w + 1]
    BY <1>1
<1>3. \A w \in DOMAIN writes :
          AllFounded(writes[w].transcript, shown, pages, deploys)
    BY DEF MemoryInv
<1>4. /\ AllFounded(checkpoint', shown, pages, deploys)
      /\ \A w \in DOMAIN writes' :
            AllFounded(writes'[w].transcript, shown, pages, deploys)
    BY <1>1, <1>2, <1>3
<1> QED BY <1>1, <1>4 DEF MemoryInv

\* A crash takes the queued writes and leaves no turn an execution to commit.
LEMMA CrashStep ==
    ASSUME TypeOK, MemoryInv, Crash
    PROVE  MemoryInv'
<1>1. ASSUME NEW t \in Turns
      PROVE  Held(pc'[t], t, state'[t], task'[t].exec, shown, pages, deploys)
  <2>1. StateHeld(t, state[t], shown, pages, deploys)
      BY DEF MemoryInv, Held
  <2>2. StateHeld(t, InitialState(<<>>), shown, pages, deploys)
      BY InitialHeld DEF AllFounded
  <2>3. StateHeld(t, state'[t], shown, pages, deploys)
      BY <2>1, <2>2 DEF Crash
  <2>4. pc'[t] \notin {"emit", "commit"}
      BY DEF Crash, Active, TypeOK
  <2> QED BY <2>3, <2>4, HeldElsewhere
<1>2. /\ UNCHANGED <<checkpoint, shown, pages, deploys>> /\ writes' = <<>>
    BY DEF Crash
<1> QED BY <1>1, <1>2 DEF MemoryInv

\* Every reply, remembered entry and handoff context of every turn is backed by
\* what was done, and every remembered acknowledgement by what was shown.
THEOREM MemoryKept == Spec => []MemoryInv
<1>1. Init => MemoryInv
  <2> SUFFICES ASSUME Init PROVE MemoryInv
      OBVIOUS
  <2>1. ASSUME NEW t \in Turns
        PROVE  Held(pc[t], t, state[t], task[t].exec, shown, pages, deploys)
    <3>1. StateHeld(t, InitialState(<<>>), shown, pages, deploys)
        BY InitialHeld DEF AllFounded
    <3>2. state[t] = InitialState(<<>>) /\ pc[t] = "waiting"
        BY DEF Init
    <3> QED BY <3>1, <3>2, HeldElsewhere
  <2> QED BY <2>1 DEF MemoryInv, Init, ShownEarned, AllFounded
<1>2. TypeOK /\ TurnInv /\ MemoryInv /\ [Next]_vars => MemoryInv'
  <2> SUFFICES ASSUME TypeOK, TurnInv, MemoryInv, [Next]_vars PROVE MemoryInv'
      OBVIOUS
  <2>0. ASSUME NEW t \in Turns
        PROVE  /\ StateHeld(t, state[t], shown, pages, deploys)
               /\ state[t] \in WorkflowState
      BY DEF MemoryInv, Held, TypeOK
  <2>1. ASSUME NEW t \in Turns, NEW m \in Messages, Receive(t, m)
        PROVE  MemoryInv'
      BY <2>0, <2>1, QuietStep DEF Receive, Goto, TypeOK
  <2>2. ASSUME NEW t \in Turns, NEW env \in Environments,
               InitializeToolset(t, env)
        PROVE  MemoryInv'
      BY <2>0, <2>2, QuietStep DEF InitializeToolset, Goto, TypeOK
  <2>3. ASSUME NEW t \in Turns, Invoke(t)
        PROVE  MemoryInv'
    <3>1. InitialState(checkpoint) \in WorkflowState
        BY StateTypes DEF TypeOK
    <3>2. StateHeld(t, InitialState(checkpoint), shown, pages, deploys)
        BY InitialHeld DEF MemoryInv
    <3>3. /\ Save(t, InitialState(checkpoint)) /\ pc'[t] = "dispatch"
          /\ state'[t] = InitialState(checkpoint)
          /\ UNCHANGED <<checkpoint, shown, pages, deploys>>
          /\ \A u \in Turns \ {t} : /\ pc'[u] = pc[u] /\ state'[u] = state[u]
                                   /\ task'[u].exec = task[u].exec
        BY <2>3 DEF Invoke, Goto, TypeOK
    <3> QED BY <3>1, <3>2, <3>3, SavingStep
  <2>4. ASSUME NEW t \in Turns, DispatchNode(t)
        PROVE  MemoryInv'
    <3>1. AfterDispatch(state[t]) \in WorkflowState
        BY <2>0, StateTypes
    <3>2. StateHeld(t, AfterDispatch(state[t]), shown, pages, deploys)
        BY <2>0, DispatchHeld
    <3> QED BY <2>4, <3>1, <3>2, SuperstepKeeps DEF DispatchNode
  <2>5. ASSUME NEW t \in Turns, NEW e \in Results(t), RunAgent(t, e)
        PROVE  MemoryInv'
      BY <2>5, RunStep
  <2>6. ASSUME NEW t \in Turns, EmitPublicMessages(t)
        PROVE  MemoryInv'
      BY <2>6, EmitStep
  <2>7. ASSUME NEW t \in Turns, CommitAgent(t)
        PROVE  MemoryInv'
    <3> DEFINE e == task[t].exec
               s == AfterAgent(state[t], t, e)
               label == IF e.handoffs # <<>> THEN "handoff" ELSE "publish"
    <3>1. e \in Execution
        BY DEF TypeOK, Task
    <3>2. Superstep(t, s, label) /\ UNCHANGED <<checkpoint, shown, pages, deploys>>
        BY <2>7 DEF CommitAgent
    <3>3. Sincere(e, t, pages, deploys) /\ Told(e, t, shown)
        BY <2>7 DEF CommitAgent, MemoryInv, Held
    <3>4. s \in WorkflowState
        BY <2>0, <3>1, StateTypes
    <3>5. StateHeld(t, s, shown, pages, deploys)
        BY <2>0, <3>1, <3>3, CommitHeld
    <3>6. label \in Running \ {"emit", "commit"}
        OBVIOUS
    <3> HIDE DEF s, label
    <3> QED BY <3>2, <3>4, <3>5, <3>6, SuperstepKeeps
  <2>8. ASSUME NEW t \in Turns, HandoffNode(t)
        PROVE  MemoryInv'
    <3>1. AfterHandoff(state[t]) \in WorkflowState
        BY <2>0, <2>8, StateTypes DEF HandoffNode
    <3>2. StateHeld(t, AfterHandoff(state[t]), shown, pages, deploys)
        BY <2>0, <2>8, HandoffHeld DEF HandoffNode
    <3> QED BY <2>8, <3>1, <3>2, SuperstepKeeps DEF HandoffNode
  <2>9. ASSUME NEW t \in Turns, PublishTranscript(t)
        PROVE  MemoryInv'
      BY <2>9, PublishStep
  <2>10. ASSUME NEW t \in Turns, FailStep(t)
         PROVE  MemoryInv'
      BY <2>0, <2>10, QuietStep DEF FailStep, Goto, TypeOK
  <2>11. ASSUME NEW t \in Turns, ReportError(t)
         PROVE  MemoryInv'
    <3>1. StateHeld(t, InitialState(<<>>), shown, pages, deploys)
        BY InitialHeld DEF AllFounded
    <3> QED BY <2>11, <3>1, QuietStep DEF ReportError, Goto, TypeOK
  <2>12. CASE Persist
      BY <2>12, PersistStep
  <2>13. CASE Crash
      BY <2>13, CrashStep
  <2>14. CASE UNCHANGED vars
      BY <2>14 DEF MemoryInv, vars
  <2> QED
      BY <2>1, <2>2, <2>3, <2>4, <2>5, <2>6, <2>7, <2>8, <2>9, <2>10, <2>11,
         <2>12, <2>13, <2>14 DEF Next, Progress
<1> QED
    BY <1>1, <1>2, TypeCorrect, TurnShape, PTL DEF Spec

\* No user is told and no turn remembers that a prototype is live or a PRD saved
\* unless that turn deployed or saved it, however turns overlap, fail or die.
THEOREM RepliesHonest == Spec => []HonestReplies
<1>1. MemoryInv => HonestReplies
    BY DEF MemoryInv, ShownEarned, AllFounded, Founded, Earned, HonestReplies,
           Claims
<1> QED BY <1>1, MemoryKept, PTL

\* The memory of the thread holds no acknowledgement the user did not see.
THEOREM KickoffsShown == Spec => []RememberedKickoffsWereShown
<1>1. MemoryInv => RememberedKickoffsWereShown
    BY DEF MemoryInv, AllFounded, Founded, RememberedKickoffsWereShown
<1> QED BY <1>1, MemoryKept, PTL

-----------------------------------------------------------------------------
(* Consent.  A remote effect needs the context its handler acts on, and    *)
(* that context was handed over for an answer to an open question.         *)

\* OpenQuestion, of any transcript.
Open(transcript, t, question) ==
    \E i \in DOMAIN transcript :
        /\ transcript[i].turn # t /\ transcript[i].message.agent = Coordinator
        /\ question \in transcript[i].message.asks
        /\ \A j \in DOMAIN transcript :
              transcript[j].turn # t /\ transcript[j].message.agent = Coordinator
                  => j <= i

\* The user's message m allows what a handoff context asks for, and one that is
\* out of scope allows no handoff.
Consents(reason, m, transcript, t) ==
    /\ reason.stage # "none" => ~ OutOfScope(m)
    /\ reason.stage = "prototype_brief" =>
          "approval" \in m.matches /\ Open(transcript, t, "prototype")
    /\ reason.stage = "prd_brief" =>
          \/ "prd_request" \in m.matches
          \/ "bare_choice" \in m.matches /\ Open(transcript, t, "option")

AllConsent(handoffs, m, transcript, t) ==
    \A i \in DOMAIN handoffs :
        /\ handoffs[i].reason.stage # "none"
        /\ Consents(handoffs[i].reason, m, transcript, t)

Untouched(transcript, t) == \A i \in DOMAIN transcript : transcript[i].turn # t

\* What holds at each place of turn t: the context at hand is consented to, and
\* without one, before the first move, the turn has added nothing and it is the
\* coordinator's to begin with.
ConsentHeld(label, t, m, s, e) ==
    /\ label \in {"agent", "emit", "commit"} =>
          /\ Consents(s.reason, m, s.transcript, t)
          /\ s.reason.stage = "none" =>
                Untouched(s.transcript, t) /\ s.current = Coordinator
    /\ label = "dispatch" => Untouched(s.transcript, t) /\ s.current = Coordinator
    /\ label \in {"emit", "commit"} =>
          AllConsent(e.handoffs, m, s.transcript, t)
    /\ label = "handoff" => AllConsent(s.pending, m, s.transcript, t)

\* Nothing a later superstep could read has an entry of turn t.
NotHeardOf(t, saved, queued, states) ==
    /\ Untouched(saved, t)
    /\ \A w \in DOMAIN queued : Untouched(queued[w].transcript, t)
    /\ \A u \in Turns : Untouched(states[u].transcript, t)

ConsentInv ==
    \A t \in Turns :
        /\ ConsentHeld(pc[t], t, request[t], state[t], task[t].exec)
        /\ pc[t] \in {"waiting", "toolset", "invoke"} =>
              NotHeardOf(t, checkpoint, writes, state)

\* What an execution may do and hand over when the handler was given reason, and
\* recent was asked.
Permitted(m, reason, recent, e) ==
    /\ e.acted => reason.stage # "none"
    /\ e.deployed => reason.stage = "prototype_brief"
    /\ e.page => reason.stage = "prd_brief"
    /\ \A i \in DOMAIN e.handoffs :
          LET next == e.handoffs[i].reason IN
          /\ next.stage # "none"
          /\ reason.stage = "none" => ~ OutOfScope(m)
          /\ next.stage = "prototype_brief" =>
                reason.stage = "none" /\ ApprovesPrototype(m, recent)
          /\ next.stage = "prd_brief" =>
                reason.stage = "none" /\ PicksOption(m, recent)

\* The coordinator asks for an effect only as its first move, when the message
\* answers the question.
LEMMA CoordinatorPermitted ==
    ASSUME NEW m \in UserMessage, NEW reason \in Reason, NEW recent,
           NEW env \in Environment,
           NEW e \in CoordinatorExecutions(m, reason, recent, env)
    PROVE  Permitted(m, reason, recent, e)
<1>1. ASSUME NEW kind, e \in Replies(kind, env)
      PROVE  Permitted(m, reason, recent, e)
    BY <1>1 DEF Replies, Plain, Permitted
<1>2. ASSUME NEW target, NEW stage, stage # "none", e \in Kickoffs(target, stage),
             ~ OutOfScope(m),
             stage = "prototype_brief" =>
                 reason.stage = "none" /\ ApprovesPrototype(m, recent),
             stage = "prd_brief" =>
                 reason.stage = "none" /\ PicksOption(m, recent)
      PROVE  Permitted(m, reason, recent, e)
    BY <1>2 DEF Kickoffs, Plain, To, Demo, Permitted
<1>3. ASSUME NEW target, NEW next, next.stage \in {"text", "research_findings"},
             e \in Delegates(target, next),
             reason.stage = "none" => ~ OutOfScope(m)
      PROVE  Permitted(m, reason, recent, e)
    BY <1>3 DEF Delegates, Plain, To, Permitted
<1>4. CASE reason.stage = "none"
  <2>1. Text.stage = "text"
      BY DEF Text, Demo
  <2>2. CASE e \in Replies("out_of_scope", env)
      BY <2>2, <1>1
  <2>3. CASE /\ "retention" \in m.matches
             /\ e \in Kickoffs("user_researcher", "research_brief")
      BY <2>3, <1>2 DEF OutOfScope
  <2>4. CASE PicksOption(m, recent) /\ e \in Kickoffs("product_manager", "prd_brief")
    <3>1. ~ OutOfScope(m)
        BY <2>4 DEF OutOfScope, PicksOption
    <3> QED BY <2>4, <3>1, <1>4, <1>2
  <2>5. CASE /\ ApprovesPrototype(m, recent)
             /\ e \in Kickoffs("product_designer", "prototype_brief")
    <3>1. ~ OutOfScope(m)
        BY <2>5 DEF OutOfScope, ApprovesPrototype
    <3> QED BY <2>5, <3>1, <1>4, <1>2
  <2>6. CASE m.topic # "irrelevant" /\ e \in Delegates(DispatchTarget(m), Text)
      BY <2>1, <2>6, <1>3 DEF OutOfScope
  <2> QED
      BY <1>4, <2>2, <2>3, <2>4, <2>5, <2>6 DEF CoordinatorExecutions, FirstMove
<1>5. CASE reason.stage # "none"
  <2>1. CASE e \in Delegates("product_manager", reason)
             /\ reason.stage = "research_findings"
      BY <2>1, <1>3
  <2>2. CASE e = PrdReadyReply(reason.persisted)
      BY <2>2 DEF PrdReadyReply, Plain, Permitted
  <2>3. CASE \E kind \in Kinds : e \in Replies(kind, env)
      BY <2>3, <1>1
  <2> QED
      BY <1>5, <2>1, <2>2, <2>3 DEF CoordinatorExecutions, HandoffReply
<1> QED BY <1>4, <1>5

\* A specialist has an effect only in the context made for it.
LEMMA SpecialistPermitted ==
    ASSUME NEW role \in Specialists, NEW m \in UserMessage,
           NEW reason \in Reason, NEW recent, NEW env \in Environment,
           NEW e \in Executions(role, m, reason, recent, env),
           reason.stage # "none"
    PROVE  Permitted(m, reason, recent, e)
<1> USE DEF Finish, HandBack, Text, Demo, To, Permitted
<1>1. CASE role = "product_manager"
  <2>1. CASE e \in PrdExecutions(env) /\ reason.stage = "prd_brief"
      BY <2>1 DEF PrdExecutions, PersistOutcomes
  <2>2. CASE \E stage \in {"options_summary", "text"}, acted \in BOOLEAN :
                 e = HandBack("product_manager", Demo(stage, "ready"), FALSE, acted)
      BY <2>2
  <2> QED BY <1>1, <2>1, <2>2 DEF Executions, ProductManagerExecutions, MayAct
<1>2. CASE role = "user_researcher"
    BY <1>2 DEF Executions, UserResearcherExecutions
<1>3. CASE role = "product_designer"
    BY <1>3 DEF Executions, ProductDesignerExecutions, PrototypeOutcomes
<1>4. CASE role = "market_analyst"
    BY <1>4 DEF Executions, MarketAnalystExecutions
<1> QED BY <1>1, <1>2, <1>3, <1>4

\* Every handler of the table keeps to what its context permits.
LEMMA ResultsPermitted ==
    ASSUME TypeOK, NEW t \in Turns, NEW e \in Results(t),
           state[t].reason.stage = "none" => state[t].current = Coordinator
    PROVE  Permitted(request[t], state[t].reason,
                     RecentAsks(state[t].transcript), e)
<1>1. /\ state[t].current \in AgentRole /\ state[t].reason \in Reason
      /\ request[t] \in UserMessage /\ task[t].env \in Environment
    BY DEF TypeOK, WorkflowState, Task
<1>2. CASE state[t].current = Coordinator
    BY <1>1, <1>2, CoordinatorPermitted DEF Results, Executions
<1> QED BY <1>1, <1>2, SpecialistPermitted DEF Results

\* Every set of positions of a sequence that is not empty has a last one.
LEMMA LastPosition ==
    ASSUME NEW n \in Nat, NEW P \in SUBSET (1..n), P # {}
    PROVE  \E i \in P : \A j \in P : j <= i
<1> DEFINE less == {pair \in Nat \X Nat : pair[1] < pair[2]}
           T == {n - i : i \in P}
<1>1. OpToRel(<, Nat) = less
    BY DEF OpToRel
<1>2. IsWellFoundedOn(less, Nat)
    BY <1>1, NatLessThanWellFounded
<1>3. T \subseteq Nat /\ T # {}
  <2>1. \A i \in P : i \in Int /\ n - i \in Nat
      OBVIOUS
  <2> QED BY <2>1
<1>4. PICK x \in T : \A y \in T : ~ (<<y, x>> \in less)
    BY <1>2, <1>3, WFMin
<1>5. PICK i \in P : x = n - i
    OBVIOUS
<1>6. ASSUME NEW j \in P
      PROVE  j <= i
  <2>1. n - j \in T /\ n - j \in Nat /\ x \in Nat
      OBVIOUS
  <2>2. ~ (n - j < x)
      BY <1>4, <2>1
  <2> QED BY <1>5, <2>2
<1> QED BY <1>6

\* What the most recent coordinator reply asked is an open question for a turn
\* that has said nothing yet.
LEMMA RecentIsOpen ==
    ASSUME NEW transcript \in Seq(Entry), NEW t, Untouched(transcript, t),
           NEW question \in RecentAsks(transcript)
    PROVE  Open(transcript, t, question)
<1> DEFINE replies == {i \in DOMAIN transcript :
                           transcript[i].message.agent = Coordinator}
           last == CHOOSE i \in replies : \A j \in replies : j <= i
<1>1. /\ Len(transcript) \in Nat /\ replies \in SUBSET (1..Len(transcript))
      /\ DOMAIN transcript = 1..Len(transcript)
    OBVIOUS
<1>2. replies # {} /\ question \in transcript[last].message.asks
    BY DEF RecentAsks
<1>3. last \in replies /\ \A j \in replies : j <= last
    BY <1>1, <1>2, LastPosition
<1> HIDE DEF last
<1> QED BY <1>2, <1>3 DEF Open, Untouched

\* What a turn adds to a transcript leaves every question open that was, and
\* other turns unheard of.
LEMMA OwnEntries ==
    ASSUME NEW transcript \in Seq(Entry), NEW t \in Turns,
           NEW messages \in Seq(Message), NEW more,
           more = transcript \o Entries(t, messages)
    PROVE  /\ \A question : Open(transcript, t, question) => Open(more, t, question)
           /\ \A u : u # t /\ Untouched(transcript, u) => Untouched(more, u)
<1> DEFINE new == Entries(t, messages)
<1>1. new \in Seq(Entry)
    BY EntriesType DEF Entry
<1>2. ASSUME NEW i \in DOMAIN new
      PROVE  new[i].turn = t
  <2>1. i \in DOMAIN messages /\ new[i] = [turn |-> t, message |-> messages[i]]
      BY EntriesElements
  <2> QED BY <2>1
<1>3. /\ Len(transcript) \in Nat /\ Len(new) \in Nat
      /\ DOMAIN transcript = 1..Len(transcript) /\ DOMAIN new = 1..Len(new)
      /\ DOMAIN more = 1..(Len(transcript) + Len(new))
      /\ \A i \in 1..Len(transcript) : more[i] = transcript[i]
      /\ \A i \in 1..Len(new) : more[Len(transcript) + i] = new[i]
    BY <1>1
<1>4. ASSUME NEW i \in DOMAIN more, i \notin DOMAIN transcript
      PROVE  more[i].turn = t
  <2>1. i - Len(transcript) \in 1..Len(new)
        /\ i = Len(transcript) + (i - Len(transcript))
      BY <1>3, <1>4
  <2> QED BY <1>2, <1>3, <2>1
<1>5. /\ \A i \in DOMAIN transcript : i \in DOMAIN more /\ more[i] = transcript[i]
      /\ \A i \in DOMAIN more : i \in DOMAIN transcript \/ more[i].turn = t
    BY <1>3, <1>4
<1> HIDE DEF new
<1>6. ASSUME NEW question, Open(transcript, t, question)
      PROVE  Open(more, t, question)
    BY <1>5, <1>6 DEF Open
<1>7. ASSUME NEW u, u # t, Untouched(transcript, u)
      PROVE  Untouched(more, u)
    BY <1>5, <1>7 DEF Untouched
<1> QED BY <1>6, <1>7

\* The same of a handoff context.
LEMMA ConsentStays ==
    ASSUME NEW s \in WorkflowState, NEW t \in Turns, NEW e \in Execution,
           NEW m, AllConsent(e.handoffs, m, s.transcript, t)
    PROVE  LET r == AfterAgent(s, t, e) IN
           /\ r.transcript = s.transcript \o Entries(t, e.messages)
           /\ AllConsent(r.pending, m, r.transcript, t)
           /\ \A u : u # t /\ Untouched(s.transcript, u)
                         => Untouched(r.transcript, u)
<1> DEFINE r == AfterAgent(s, t, e)
<1>1. /\ r.transcript = s.transcript \o Entries(t, e.messages)
      /\ r.pending = e.handoffs /\ s.transcript \in Seq(Entry)
      /\ e.messages \in Seq(Message)
    BY DEF AfterAgent, WorkflowState, Execution
<1> HIDE DEF r
<1>2. /\ \A question :
            Open(s.transcript, t, question) => Open(r.transcript, t, question)
      /\ \A u : u # t /\ Untouched(s.transcript, u) => Untouched(r.transcript, u)
    BY <1>1, OwnEntries
<1>3. /\ r.transcript = s.transcript \o Entries(t, e.messages)
      /\ AllConsent(r.pending, m, r.transcript, t)
      /\ \A u : u # t /\ Untouched(s.transcript, u) => Untouched(r.transcript, u)
    BY <1>1, <1>2 DEF AllConsent, Consents
<1> QED BY <1>3 DEF r

\* A step of turn t that reads and saves no transcript but its own.
LEMMA ConsentFrame ==
    ASSUME ConsentInv, NEW t \in Turns,
           \A u \in Turns \ {t} :
               /\ pc'[u] = pc[u] /\ request'[u] = request[u]
               /\ state'[u] = state[u] /\ task'[u].exec = task[u].exec,
           ConsentHeld(pc'[t], t, request'[t], state'[t], task'[t].exec),
           \A u \in Turns : pc'[u] \in {"waiting", "toolset", "invoke"} =>
               NotHeardOf(u, checkpoint', writes', state')
    PROVE  ConsentInv'
BY DEF ConsentInv

\* One more write, of a transcript without entries of turn u.
LEMMA NotHeardOfSaved ==
    ASSUME TypeOK, NEW t \in Turns, NEW s \in WorkflowState, Save(t, s),
           checkpoint' = checkpoint, state' = [state EXCEPT ![t] = s],
           NEW u, NotHeardOf(u, checkpoint, writes, state),
           Untouched(s.transcript, u)
    PROVE  NotHeardOf(u, checkpoint', writes', state')
<1> DEFINE write == [turn |-> t, transcript |-> s.transcript]
<1>1. /\ write \in [turn : Turns, transcript : Seq(Entry)]
      /\ write.transcript = s.transcript
    BY DEF WorkflowState
<1>2. writes' = Append(writes, write)
    BY DEF Save
<1> HIDE DEF write
<1>3. \A w \in DOMAIN writes' :
          (\E v \in DOMAIN writes : writes'[w] = writes[v]) \/ writes'[w] = write
    BY <1>1, <1>2 DEF TypeOK
<1>4. \A w \in DOMAIN writes' : Untouched(writes'[w].transcript, u)
    BY <1>1, <1>3 DEF NotHeardOf
<1>5. \A v \in Turns : Untouched(state'[v].transcript, u)
    BY DEF NotHeardOf, TypeOK
<1> QED BY <1>4, <1>5 DEF NotHeardOf

\* A superstep of a turn that is under way.
LEMMA ConsentSuperstep ==
    ASSUME TypeOK, ConsentInv, NEW t \in Turns, NEW s \in WorkflowState,
           NEW label \in Running \ {"toolset", "invoke", "emit", "commit"},
           Superstep(t, s, label), checkpoint' = checkpoint, request' = request,
           pc[t] \notin {"waiting", "toolset", "invoke"},
           \A d : ConsentHeld(label, t, request[t], s, d),
           \A u : u # t /\ Untouched(state[t].transcript, u)
                      => Untouched(s.transcript, u)
    PROVE  ConsentInv'
<1>1. /\ pc'[t] = label /\ state'[t] = s
      /\ \A u \in Turns \ {t} :
            pc'[u] = pc[u] /\ state'[u] = state[u] /\ task'[u] = task[u]
    BY SuperstepEffect
<1>2. Save(t, s) /\ state' = [state EXCEPT ![t] = s]
    BY DEF Superstep
<1>3. ASSUME NEW u \in Turns, pc'[u] \in {"waiting", "toolset", "invoke"}
      PROVE  NotHeardOf(u, checkpoint', writes', state')
  <2>1. u # t /\ pc[u] \in {"waiting", "toolset", "invoke"}
      BY <1>1, <1>3
  <2>2. NotHeardOf(u, checkpoint, writes, state)
      BY <2>1 DEF ConsentInv
  <2>3. Untouched(s.transcript, u)
      BY <2>1, <2>2 DEF NotHeardOf
  <2> QED BY <1>2, <2>2, <2>3, NotHeardOfSaved
<1> QED BY <1>1, <1>3, ConsentFrame

\* What the graph's nodes make of the parts of the state consent is about.
LEMMA NodeParts ==
    ASSUME NEW s \in WorkflowState
    PROVE  /\ AfterDispatch(s).transcript = s.transcript
           /\ AfterDispatch(s).reason.stage = "none"
           /\ AfterDispatch(s).current = s.current
           /\ AfterHandoff(s).transcript = s.transcript
           /\ AfterHandoff(s).reason = Head(s.pending).reason
BY DEF AfterDispatch, AfterHandoff, WorkflowState, NoReason, Demo

\* A handler is run: what it hands over is consented to.
LEMMA RunConsents ==
    ASSUME TypeOK, ConsentInv, NEW t \in Turns, NEW e \in Results(t), pc[t] = "agent"
    PROVE  ConsentHeld("emit", t, request[t], state[t], e)
<1> DEFINE m == request[t]
           s == state[t]
<1>1. ConsentHeld("agent", t, m, s, task[t].exec)
    BY DEF ConsentInv
<1>2. Permitted(m, s.reason, RecentAsks(s.transcript), e)
    BY <1>1, ResultsPermitted DEF ConsentHeld
<1>3. s.transcript \in Seq(Entry)
    BY DEF TypeOK, WorkflowState
<1> HIDE DEF m, s
<1>4. ASSUME NEW question \in RecentAsks(s.transcript), s.reason.stage = "none"
      PROVE  Open(s.transcript, t, question)
    BY <1>1, <1>3, <1>4, RecentIsOpen DEF ConsentHeld
<1>5. ASSUME NEW i \in DOMAIN e.handoffs
      PROVE  /\ e.handoffs[i].reason.stage # "none"
             /\ Consents(e.handoffs[i].reason, m, s.transcript, t)
    BY <1>2, <1>1, <1>4
    DEF Permitted, ConsentHeld, Consents, ApprovesPrototype, PicksOption
<1>6. ConsentHeld("emit", t, m, s, e)
    BY <1>1, <1>5 DEF ConsentHeld, AllConsent
<1> QED BY <1>6 DEF m, s

\* Every context at hand, pending or about to be handed over is consented to.
THEOREM ConsentKept == Spec => []ConsentInv
<1>1. Init => ConsentInv
    BY DEF Init, ConsentInv, ConsentHeld, NotHeardOf, Untouched, InitialState
<1>2. TypeOK /\ ConsentInv /\ [Next]_vars => ConsentInv'
  <2> SUFFICES ASSUME TypeOK, ConsentInv, [Next]_vars PROVE ConsentInv'
      OBVIOUS
  <2>0. ASSUME NEW t \in Turns
        PROVE  /\ ConsentHeld(pc[t], t, request[t], state[t], task[t].exec)
               /\ pc[t] \in {"waiting", "toolset", "invoke"} =>
                     NotHeardOf(t, checkpoint, writes, state)
               /\ state[t] \in WorkflowState
      BY DEF ConsentInv, TypeOK
  <2>1. ASSUME NEW t \in Turns, NEW m \in Messages, Receive(t, m)
        PROVE  ConsentInv'
    <3>1. ConsentHeld(pc'[t], t, request'[t], state'[t], task'[t].exec)
        BY <2>1 DEF Receive, Goto, TypeOK, ConsentHeld
    <3>2. /\ UNCHANGED <<task, state, checkpoint, writes>> /\ pc[t] = "waiting"
          /\ \A u \in Turns \ {t} : pc'[u] = pc[u] /\ request'[u] = request[u]
        BY <2>1 DEF Receive, Goto, TypeOK
    <3> QED BY <2>0, <3>1, <3>2, ConsentFrame
  <2>2. ASSUME NEW t \in Turns, NEW env \in Environments,
               InitializeToolset(t, env)
        PROVE  ConsentInv'
    <3>1. ConsentHeld(pc'[t], t, request'[t], state'[t], task'[t].exec)
        BY <2>2 DEF InitializeToolset, Goto, TypeOK, ConsentHeld
    <3>2. /\ UNCHANGED <<request, state, checkpoint, writes>> /\ pc[t] = "toolset"
          /\ \A u \in Turns \ {t} : pc'[u] = pc[u] /\ task'[u] = task[u]
        BY <2>2 DEF InitializeToolset, Goto, TypeOK
    <3> QED BY <2>0, <3>1, <3>2, ConsentFrame
  <2>3. ASSUME NEW t \in Turns, Invoke(t)
        PROVE  ConsentInv'
    <3> DEFINE s == InitialState(checkpoint)
    <3>1. s \in WorkflowState
        BY StateTypes DEF TypeOK
    <3>2. s.transcript = checkpoint /\ s.current = Coordinator
        BY DEF InitialState
    <3>3. /\ Save(t, s) /\ state' = [state EXCEPT ![t] = s] /\ pc[t] = "invoke"
          /\ pc'[t] = "dispatch" /\ state'[t] = s
          /\ UNCHANGED <<request, task, checkpoint>>
          /\ \A u \in Turns \ {t} : pc'[u] = pc[u] /\ state'[u] = state[u]
        BY <2>3 DEF Invoke, Goto, TypeOK
    <3> HIDE DEF s
    <3>4. ConsentHeld(pc'[t], t, request'[t], state'[t], task'[t].exec)
        BY <2>0, <3>2, <3>3 DEF ConsentHeld, NotHeardOf
    <3>5. ASSUME NEW u \in Turns, pc'[u] \in {"waiting", "toolset", "invoke"}
          PROVE  NotHeardOf(u, checkpoint', writes', state')
      <4>1. NotHeardOf(u, checkpoint, writes, state)
          BY <2>0, <3>3, <3>5
      <4>2. Untouched(s.transcript, u)
          BY <3>2, <4>1 DEF NotHeardOf
      <4> QED BY <3>1, <3>3, <4>1, <4>2, NotHeardOfSaved
    <3> QED BY <3>3, <3>4, <3>5, ConsentFrame
  <2>4. ASSUME NEW t \in Turns, DispatchNode(t)
        PROVE  ConsentInv'
    <3> DEFINE s == AfterDispatch(state[t])
    <3>1. s \in WorkflowState
        BY <2>0, StateTypes
    <3>2. /\ s.transcript = state[t].transcript /\ s.reason.stage = "none"
          /\ s.current = state[t].current
        BY <2>0, NodeParts
    <3>3. Untouched(state[t].transcript, t) /\ state[t].current = Coordinator
        BY <2>0, <2>4 DEF DispatchNode, ConsentHeld
    <3>4. Superstep(t, s, "agent") /\ pc[t] = "dispatch"
          /\ checkpoint' = checkpoint /\ request' = request
        BY <2>4 DEF DispatchNode
    <3> HIDE DEF s
    <3>5. \A d : ConsentHeld("agent", t, request[t], s, d)
        BY <3>2, <3>3 DEF ConsentHeld, Consents
    <3> QED BY <3>1, <3>2, <3>4, <3>5, ConsentSuperstep
  <2>5. ASSUME NEW t \in Turns, NEW e \in Results(t), RunAgent(t, e)
        PROVE  ConsentInv'
    <3>1. /\ UNCHANGED <<request, state, checkpoint, writes>> /\ pc[t] = "agent"
          /\ pc'[t] = "emit" /\ task'[t].exec = e
          /\ \A u \in Turns \ {t} : pc'[u] = pc[u] /\ task'[u] = task[u]
        BY <2>5 DEF RunAgent, Goto, TypeOK, Task
    <3>2. ConsentHeld("emit", t, request[t], state[t], e)
        BY <3>1, RunConsents
    <3> QED BY <2>0, <3>1, <3>2, ConsentFrame
  <2>6. ASSUME NEW t \in Turns, EmitPublicMessages(t)
        PROVE  ConsentInv'
    <3>1. /\ UNCHANGED <<request, state, checkpoint, writes>> /\ pc[t] = "emit"
          /\ pc'[t] = "commit" /\ task'[t].exec = task[t].exec
          /\ \A u \in Turns \ {t} : pc'[u] = pc[u] /\ task'[u] = task[u]
        BY <2>6 DEF EmitPublicMessages, Goto, TypeOK, Task
    <3>2. ConsentHeld("commit", t, request[t], state[t], task[t].exec)
        BY <2>0, <3>1 DEF ConsentHeld
    <3> QED BY <2>0, <3>1, <3>2, ConsentFrame
  <2>7. ASSUME NEW t \in Turns, CommitAgent(t)
        PROVE  ConsentInv'
    <3> DEFINE e == task[t].exec
               s == AfterAgent(state[t], t, e)
               label == IF e.handoffs # <<>> THEN "handoff" ELSE "publish"
    <3>1. e \in Execution
        BY DEF TypeOK, Task
    <3>2. /\ Superstep(t, s, label) /\ pc[t] = "commit"
          /\ checkpoint' = checkpoint /\ request' = request
        BY <2>7 DEF CommitAgent
    <3>3. s \in WorkflowState
        BY <2>0, <3>1, StateTypes
    <3>4. AllConsent(e.handoffs, request[t], state[t].transcript, t)
        BY <2>0, <3>2 DEF ConsentHeld
    <3>5. /\ AllConsent(s.pending, request[t], s.transcript, t)
          /\ \A u : u # t /\ Untouched(state[t].transcript, u)
                        => Untouched(s.transcript, u)
        BY <2>0, <3>1, <3>4, ConsentStays
    <3>6. label \in {"handoff", "publish"}
        OBVIOUS
    <3> HIDE DEF s, label
    <3>7. \A d : ConsentHeld(label, t, request[t], s, d)
        BY <3>5, <3>6 DEF ConsentHeld
    <3> QED BY <3>2, <3>3, <3>5, <3>6, <3>7, ConsentSuperstep
  <2>8. ASSUME NEW t \in Turns, HandoffNode(t)
        PROVE  ConsentInv'
    <3> DEFINE s == AfterHandoff(state[t])
    <3>1. /\ Superstep(t, s, "agent") /\ pc[t] = "handoff"
          /\ checkpoint' = checkpoint /\ request' = request
          /\ state[t].pending # <<>>
        BY <2>8 DEF HandoffNode
    <3>2. s \in WorkflowState
        BY <2>0, <3>1, StateTypes
    <3>3. s.transcript = state[t].transcript /\ s.reason = Head(state[t].pending).reason
        BY <2>0, NodeParts
    <3>4. state[t].pending \in Seq(Handoff)
        BY <2>0 DEF WorkflowState
    <3>5. 1 \in DOMAIN state[t].pending /\ Head(state[t].pending) = state[t].pending[1]
        BY <3>1, <3>4
    <3>6. AllConsent(state[t].pending, request[t], state[t].transcript, t)
        BY <2>0, <3>1 DEF ConsentHeld
    <3> HIDE DEF s
    <3>7. \A d : ConsentHeld("agent", t, request[t], s, d)
        BY <3>3, <3>5, <3>6 DEF ConsentHeld, AllConsent
    <3> QED BY <3>1, <3>2, <3>3, <3>7, ConsentSuperstep
  <2>9. ASSUME NEW t \in Turns, PublishTranscript(t)
        PROVE  ConsentInv'
    <3>1. /\ UNCHANGED <<request, state, checkpoint, writes>>
          /\ pc[t] = "publish" /\ pc'[t] = "done"
          /\ \A u \in Turns \ {t} : pc'[u] = pc[u] /\ task'[u] = task[u]
        BY <2>9 DEF PublishTranscript, Goto, TypeOK
    <3>2. ConsentHeld("done", t, request'[t], state'[t], task'[t].exec)
        BY DEF ConsentHeld
    <3> QED BY <2>0, <3>1, <3>2, ConsentFrame
  <2>10. ASSUME NEW t \in Turns, FailStep(t)
         PROVE  ConsentInv'
    <3>1. /\ UNCHANGED <<request, task, state, checkpoint, writes>>
          /\ pc'[t] = "failing"
          /\ \A u \in Turns \ {t} : pc'[u] = pc[u]
        BY <2>10 DEF FailStep, Goto, TypeOK
    <3>2. ConsentHeld("failing", t, request'[t], state'[t], task'[t].exec)
        BY DEF ConsentHeld
    <3> QED BY <2>0, <3>1, <3>2, ConsentFrame
  <2>11. ASSUME NEW t \in Turns, ReportError(t)
         PROVE  ConsentInv'
    <3>1. /\ UNCHANGED <<request, checkpoint, writes>>
          /\ pc'[t] = "failed" /\ state' = [state EXCEPT ![t] = InitialState(<<>>)]
          /\ \A u \in Turns \ {t} : /\ pc'[u] = pc[u] /\ task'[u] = task[u]
                                   /\ state'[u] = state[u]
        BY <2>11 DEF ReportError, Goto, TypeOK
    <3>2. ConsentHeld("failed", t, request'[t], state'[t], task'[t].exec)
        BY DEF ConsentHeld
    <3>3. \A u, v \in Turns : Untouched(state[v].transcript, u)
                                => Untouched(state'[v].transcript, u)
        BY <3>1 DEF TypeOK, Untouched, InitialState
    <3>4. ASSUME NEW u \in Turns, pc'[u] \in {"waiting", "toolset", "invoke"}
          PROVE  NotHeardOf(u, checkpoint', writes', state')
        BY <2>0, <3>1, <3>3, <3>4 DEF NotHeardOf
    <3> QED BY <3>1, <3>2, <3>4, ConsentFrame
  <2>12. CASE Persist
    <3>1. /\ checkpoint' = Head(writes).transcript /\ writes' = Tail(writes)
          /\ writes # <<>> /\ writes \in Seq([turn : Turns, transcript : Seq(Entry)])
          /\ UNCHANGED <<pc, request, task, state>>
        BY <2>12 DEF Persist, TypeOK
    <3>2. /\ 1 \in DOMAIN writes /\ Head(writes) = writes[1]
          /\ \A w \in DOMAIN Tail(writes) :
                w + 1 \in DOMAIN writes /\ Tail(writes)[w] = writes[w + 1]
        BY <3>1
    <3>3. ASSUME NEW u \in Turns, NotHeardOf(u, checkpoint, writes, state)
          PROVE  NotHeardOf(u, checkpoint', writes', state')
        BY <3>1, <3>2, <3>3 DEF NotHeardOf
    <3> QED BY <2>0, <3>1, <3>3 DEF ConsentInv
  <2>13. CASE Crash
    <3>1. /\ UNCHANGED <<request, checkpoint>> /\ writes' = <<>>
          /\ \A u \in Turns : \/ pc'[u] = "lost"
                              \/ u \notin Active /\ pc'[u] = pc[u]
          /\ \A u \in Turns : \/ state'[u] = InitialState(<<>>)
                              \/ state'[u] = state[u]
        BY <2>13 DEF Crash
    <3>2. ASSUME NEW t \in Turns
          PROVE  ConsentHeld(pc'[t], t, request'[t], state'[t], task'[t].exec)
        BY <3>1 DEF ConsentHeld, Active, TypeOK
    <3>3. \A u, v \in Turns : Untouched(state[v].transcript, u)
                                => Untouched(state'[v].transcript, u)
        BY <3>1 DEF Untouched, InitialState
    <3>4. ASSUME NEW u \in Turns, pc'[u] \in {"waiting", "toolset", "invoke"}
          PROVE  NotHeardOf(u, checkpoint', writes', state')
        BY <2>0, <3>1, <3>3, <3>4 DEF NotHeardOf
    <3> QED BY <3>2, <3>4 DEF ConsentInv
  <2>14. CASE UNCHANGED vars
      BY <2>14 DEF ConsentInv, vars
  <2> QED
      BY <2>1, <2>2, <2>3, <2>4, <2>5, <2>6, <2>7, <2>8, <2>9, <2>10, <2>11,
         <2>12, <2>13, <2>14 DEF Next, Progress
<1> QED
    BY <1>1, <1>2, TypeCorrect, PTL DEF Spec

\* A step that publishes or saves is an agent's, and the user has consented.
LEMMA EffectsStep ==
    ASSUME TypeOK, ConsentInv, [Next]_vars
    PROVE  /\ \A t \in deploys' \ deploys :
                 /\ t \in Turns /\ pc[t] = "agent"
                 /\ "approval" \in request[t].matches /\ OpenQuestion(t, "prototype")
           /\ \A t \in pages' \ pages :
                 /\ t \in Turns /\ pc[t] = "agent"
                 /\ \/ "prd_request" \in request[t].matches
                    \/ "bare_choice" \in request[t].matches /\ OpenQuestion(t, "option")
<1>1. ASSUME NEW t \in Turns, NEW e \in Results(t), RunAgent(t, e)
      PROVE  /\ pages' = (IF e.page THEN pages \cup {t} ELSE pages)
             /\ deploys' = (IF e.deployed THEN deploys \cup {t} ELSE deploys)
             /\ pc[t] = "agent"
             /\ e.deployed => "approval" \in request[t].matches
                                  /\ OpenQuestion(t, "prototype")
             /\ e.page => \/ "prd_request" \in request[t].matches
                          \/ "bare_choice" \in request[t].matches
                                /\ OpenQuestion(t, "option")
  <2>1. /\ pages' = (IF e.page THEN pages \cup {t} ELSE pages)
        /\ deploys' = (IF e.deployed THEN deploys \cup {t} ELSE deploys)
        /\ pc[t] = "agent"
      BY <1>1 DEF RunAgent
  <2>2. ConsentHeld("agent", t, request[t], state[t], task[t].exec)
      BY <2>1 DEF ConsentInv
  <2>3. Permitted(request[t], state[t].reason, RecentAsks(state[t].transcript), e)
      BY <2>2, ResultsPermitted DEF ConsentHeld
  <2>4. \A question : Open(state[t].transcript, t, question) => OpenQuestion(t, question)
      BY DEF Open, OpenQuestion, LastWord
  <2> QED BY <2>1, <2>2, <2>3, <2>4 DEF Permitted, Consents, ConsentHeld
<1>2. \/ pages' = pages /\ deploys' = deploys
      \/ \E t \in Turns : \E e \in Results(t) : RunAgent(t, e)
    BY DEF Next, Progress, vars, Receive, InitializeToolset, Invoke, DispatchNode,
           EmitPublicMessages, CommitAgent, HandoffNode, PublishTranscript,
           FailStep, ReportError, Persist, Crash
<1>3. CASE pages' = pages /\ deploys' = deploys
    BY <1>3
<1>4. CASE \E t \in Turns : \E e \in Results(t) : RunAgent(t, e)
  <2>1. PICK t \in Turns : \E e \in Results(t) : RunAgent(t, e)
      BY <1>4
  <2>2. PICK e \in Results(t) : RunAgent(t, e)
      BY <2>1
  <2>3. /\ \A u \in deploys' \ deploys : u = t /\ e.deployed
        /\ \A u \in pages' \ pages : u = t /\ e.page
      BY <1>1, <2>2
  <2> QED BY <1>1, <2>2, <2>3
<1> QED BY <1>2, <1>3, <1>4

\* The code of Pixie publishes no prototype and saves no PRD without the user's
\* answer to a question that was the last word before the turn, however turns
\* overlap, fail or die; what the specialists' models do with the tools they were
\* given is not claimed.
THEOREM EffectsConsented == Spec => EffectsNeedConsent
<1> DEFINE Step ==
        /\ \A t \in deploys' \ deploys :
              "approval" \in request[t].matches /\ OpenQuestion(t, "prototype")
        /\ \A t \in pages' \ pages :
              \/ "prd_request" \in request[t].matches
              \/ "bare_choice" \in request[t].matches /\ OpenQuestion(t, "option")
<1>1. TypeOK /\ ConsentInv /\ [Next]_vars => [Step]_vars
    BY EffectsStep
<1>2. [][Step]_vars <=> EffectsNeedConsent
    BY DEF EffectsNeedConsent
<1> QED
    BY <1>1, <1>2, TypeCorrect, ConsentKept, PTL DEF Spec

-----------------------------------------------------------------------------
(* Requests that are declined.                                             *)

\* Something was changed, saved or published on account of turn t.
Touched(t) == task[t].exec.acted \/ t \in pages \/ t \in deploys

\* Only a turn that was asked for help has touched anything.
ServedInv ==
    \A t \in Turns : Touched(t) => pc[t] # "waiting" /\ ~ OutOfScope(request[t])

\* A step that leaves the request of every turn that has begun alone, and
\* touches nothing.
LEMMA ServedFrame ==
    ASSUME ServedInv,
           \A t \in Turns : pc[t] # "waiting" =>
               pc'[t] # "waiting" /\ request'[t] = request[t],
           \A t \in Turns : Touched(t)' => Touched(t)
    PROVE  ServedInv'
BY DEF ServedInv

\* A request that is out of scope is declined without touching anything: every
\* agent that holds tools was handed its work by the coordinator.
THEOREM OutOfScopeDeclined == Spec => []DeclinedTouchesNothing
<1>1. Init => ServedInv
    BY DEF Init, ServedInv, Touched, NewTask, NoExecution, Plain
<1>2. TypeOK /\ ConsentInv /\ ServedInv /\ [Next]_vars => ServedInv'
  <2> SUFFICES ASSUME TypeOK, ConsentInv, ServedInv, [Next]_vars PROVE ServedInv'
      OBVIOUS
  <2> USE DEF TypeOK, Goto
  <2>0. /\ ~ NewTask.exec.acted /\ ~ NoExecution.acted
        /\ \A t \in Turns : task[t] \in Task
      BY DEF NewTask, NoExecution, Plain
  <2>1. ASSUME NEW t \in Turns, NEW m \in Messages, Receive(t, m)
        PROVE  ServedInv'
      BY <2>1 DEF Receive, ServedInv, Touched
  <2>2. ASSUME NEW t \in Turns, NEW env \in Environments, InitializeToolset(t, env)
        PROVE  ServedInv'
    <3>1. \A u \in Turns : task'[u].exec = task[u].exec
        BY <2>0, <2>2 DEF InitializeToolset, Task
    <3> QED BY <2>2, <3>1, ServedFrame DEF InitializeToolset, Touched
  <2>3. ASSUME NEW t \in Turns, Invoke(t)
        PROVE  ServedInv'
      BY <2>3, ServedFrame DEF Invoke, Touched
  <2>4. ASSUME NEW t \in Turns, NEW s, NEW label \in Running, Superstep(t, s, label),
               UNCHANGED <<request, pages, deploys>>
        PROVE  ServedInv'
    <3>1. \A u \in Turns : \/ task'[u].exec = task[u].exec
                           \/ task'[u].exec = NoExecution
        BY <2>0, <2>4 DEF Superstep, Task
    <3>2. \A u \in Turns : pc[u] # "waiting" => pc'[u] # "waiting"
        BY <2>4 DEF Superstep
    <3> QED BY <2>0, <2>4, <3>1, <3>2, ServedFrame DEF Touched
  <2>5. ASSUME NEW t \in Turns, NEW e \in Results(t), RunAgent(t, e)
        PROVE  ServedInv'
    <3>1. /\ pages' = (IF e.page THEN pages \cup {t} ELSE pages)
          /\ deploys' = (IF e.deployed THEN deploys \cup {t} ELSE deploys)
          /\ pc[t] = "agent" /\ request' = request
          /\ pc' = [pc EXCEPT ![t] = "emit"]
        BY <2>5 DEF RunAgent
    <3>2. task'[t].exec = e /\ \A u \in Turns \ {t} : task'[u] = task[u]
        BY <2>0, <2>5 DEF RunAgent, Task
    <3>3. ConsentHeld("agent", t, request[t], state[t], task[t].exec)
        BY <3>1 DEF ConsentInv
    <3>4. Permitted(request[t], state[t].reason,
                    RecentAsks(state[t].transcript), e)
        BY <3>3, ResultsPermitted DEF ConsentHeld
    <3>5. e.acted \/ e.page \/ e.deployed => ~ OutOfScope(request[t])
        BY <3>3, <3>4 DEF Permitted, Consents, ConsentHeld
    <3>6. ASSUME NEW u \in Turns, Touched(u)'
          PROVE  pc'[u] # "waiting" /\ ~ OutOfScope(request'[u])
        BY <3>1, <3>2, <3>5, <3>6 DEF ServedInv, Touched
    <3> QED BY <3>6 DEF ServedInv
  <2>6. ASSUME NEW t \in Turns, EmitPublicMessages(t)
        PROVE  ServedInv'
    <3>1. \A u \in Turns : task'[u].exec = task[u].exec
        BY <2>0, <2>6 DEF EmitPublicMessages, Task
    <3> QED BY <2>6, <3>1, ServedFrame DEF EmitPublicMessages, Touched
  <2>7. ASSUME NEW t \in Turns, PublishTranscript(t) \/ ReportError(t)
        PROVE  ServedInv'
    <3>1. \A u \in Turns : task'[u] = task[u] \/ task'[u] = NewTask
        BY <2>7 DEF PublishTranscript, ReportError
    <3>2. \A u \in Turns : pc[u] # "waiting" => pc'[u] # "waiting"
        BY <2>7 DEF PublishTranscript, ReportError
    <3>3. UNCHANGED <<request, pages, deploys>>
        BY <2>7 DEF PublishTranscript, ReportError
    <3> QED BY <2>0, <3>1, <3>2, <3>3, ServedFrame DEF Touched
  <2>8. ASSUME NEW t \in Turns, FailStep(t)
        PROVE  ServedInv'
      BY <2>8, ServedFrame DEF FailStep, Touched
  <2>9. CASE Persist
      BY <2>9, ServedFrame DEF Persist, Touched
  <2>10. CASE Crash
    <3>1. \A u \in Turns : /\ task'[u] = NewTask
                           /\ pc[u] # "waiting" => pc'[u] # "waiting"
        BY <2>10 DEF Crash
    <3>2. UNCHANGED <<request, pages, deploys>>
        BY <2>10 DEF Crash
    <3> QED BY <2>0, <3>1, <3>2, ServedFrame DEF Touched
  <2>11. CASE UNCHANGED vars
      BY <2>11, ServedFrame DEF vars, Touched
  <2>12. ASSUME NEW t \in Turns, DispatchNode(t) \/ CommitAgent(t) \/ HandoffNode(t)
         PROVE  ServedInv'
      BY <2>4, <2>12 DEF DispatchNode, CommitAgent, HandoffNode
  <2> QED
      BY <2>1, <2>2, <2>3, <2>5, <2>6, <2>7, <2>8, <2>9, <2>10, <2>11, <2>12
      DEF Next, Progress
<1>3. ServedInv => DeclinedTouchesNothing
    BY DEF ServedInv, Touched, DeclinedTouchesNothing
<1> QED
    BY <1>1, <1>2, <1>3, TypeCorrect, ConsentKept, PTL DEF Spec
=============================================================================
