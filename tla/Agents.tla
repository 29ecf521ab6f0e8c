------------------------------- MODULE Agents -------------------------------
(***************************************************************************)
(* What the five agents of Pixie do with one step of a turn.               *)
(*                                                                         *)
(* A handler (pixie_for_pm/agents) reads the user's message, the private   *)
(* handoff context of the step, the most recent coordinator reply of the   *)
(* conversation and the tools of the turn, and returns an AgentExecution:  *)
(* messages for the transcript and handoffs for the graph.  Each operator  *)
(* below is the SET of executions a handler may return: a language model   *)
(* that writes a text, or a remote tool that answers, contributes a choice.*)
(* A handler that raises is a step of module Workflow.                     *)
(*                                                                         *)
(* Texts are reduced to what the code reads back from them:                *)
(*   - a user message to the parsers of the dispatcher that its wording    *)
(*     matches and its topic (what decide_dispatch makes of it);           *)
(*   - a coordinator text to its kind and the questions it asks the user,  *)
(*     since the parsers of the next turn look for those questions;        *)
(*   - a handoff context to the stage, the status and the persisted flag   *)
(*     of the JSON payload, or to "text" when it is not such a payload.    *)
(***************************************************************************)
EXTENDS Sequences

CONSTANT
    LlmAsks     \* the sets of questions a model-written text may end up asking

Coordinator == "coordinator"
Specialists == {"product_manager", "market_analyst", "user_researcher",
                "product_designer"}
AgentRole == Specialists \cup {Coordinator}

Asks == {"option", "prototype"}
ASSUME LlmAsksAssumption == LlmAsks \subseteq SUBSET Asks

\* The wordings the dispatcher looks for; one message may match several of them.
Intents == {"retention", "prd_request", "bare_choice", "approval"}
Topics == {"irrelevant", "general", "market_analyst", "user_researcher",
           "product_designer"}
UserMessage == [matches : SUBSET Intents, topic : Topics]

\* notion: an active Notion integration whose tools loaded; vercel: an active
\* Vercel integration; deltas: the chat models stream their text.
Environment == [notion : BOOLEAN, vercel : BOOLEAN, deltas : BOOLEAN]

Kinds == {"kickoff", "blocked", "options", "prd_saved", "prd_draft",
          "prototype", "out_of_scope", "answer"}
Message == [agent : AgentRole, kind : Kinds, asks : SUBSET Asks]

Stages == {"none", "text", "research_brief", "research_findings",
           "options_summary", "prd_brief", "prd_ready", "prototype_brief",
           "prototype_summary"}
Reason == [stage : Stages, status : {"ready", "blocked"}, persisted : BOOLEAN]
Handoff == [source : AgentRole, target : AgentRole, reason : Reason]

\* An AgentExecution with what happened on the way.  streamed: text deltas went
\* to the user.  acted: the model changed something with the connected tools of
\* the turn, which may be a page or a deployment like any other change.  page and
\* deployed are calls of the handler's own code, which decide what the user is
\* told: the PRD it writes to Notion, the prototype it publishes on Vercel.
Execution == [messages : Seq(Message), handoffs : Seq(Handoff),
              streamed : BOOLEAN, acted : BOOLEAN,
              page : BOOLEAN, deployed : BOOLEAN]

-----------------------------------------------------------------------------
Demo(stage, status) == [stage |-> stage, status |-> status, persisted |-> FALSE]
Text == Demo("text", "ready")
NoReason == Demo("none", "ready")

To(source, target, reason) ==
    <<[source |-> source, target |-> target, reason |-> reason]>>
Says(kind, asks) == <<[agent |-> Coordinator, kind |-> kind, asks |-> asks]>>

\* An execution without a tool: the coordinator's writer gets an empty toolset
\* (_coordinator_writer_context).
Plain(messages, handoffs, streamed) ==
    [messages |-> messages, handoffs |-> handoffs, streamed |-> streamed,
     acted |-> FALSE, page |-> FALSE, deployed |-> FALSE]

\* A specialist hands its artifact back and adds nothing to the transcript.
Finish(role, reason, streamed, acted, page, deployed) ==
    [messages |-> <<>>, handoffs |-> To(role, Coordinator, reason),
     streamed |-> streamed, acted |-> acted, page |-> page, deployed |-> deployed]
HandBack(role, reason, streamed, acted) ==
    Finish(role, reason, streamed, acted, FALSE, FALSE)

\* run_deep_agent gives a specialist's model every connected tool of the turn:
\* what it does with them is its choice, and no code asks the user first.
MayAct(env) == {acted \in BOOLEAN : acted => env.notion \/ env.vercel}

-----------------------------------------------------------------------------
(* The coordinator (agents/dispatcher.py, agents/demo_flow.py).            *)

\* parse_prd_request_option, parse_deep_dive_option, parse_bare_option_choice:
\* a bare "2" counts only after a reply that asked for an option.
PicksOption(m, recent) ==
    \/ "prd_request" \in m.matches
    \/ "bare_choice" \in m.matches /\ "option" \in recent

\* parse_prototype_approval: "yes" counts only after a prototype was offered.
ApprovesPrototype(m, recent) ==
    "approval" \in m.matches /\ "prototype" \in recent

\* decide_dispatch: out of scope, a specialist by keyword score, else the PM.
DispatchTarget(m) == IF m.topic = "general" THEN "product_manager" ELSE m.topic

\* Slip: the coordinator's writer keeps the tools of the turn.
RepliesWithTools(kind, env) ==
    {[Plain(Says(kind, a), <<>>, env.deltas) EXCEPT !.acted = acted] :
        a \in LlmAsks, acted \in MayAct(env)}

\* A streamed final reply written by the model.
Replies(kind, env) ==
    {Plain(Says(kind, a), <<>>, env.deltas) : a \in LlmAsks}

\* Slip: two specialists are put to work at once.
KickoffsWithReview(target, stage) ==
    {Plain(Says("kickoff", a),
           To(Coordinator, target, Demo(stage, "ready"))
               \o To(Coordinator, "market_analyst", Text), FALSE) : a \in LlmAsks}

\* An acknowledgement written by the model without streaming, and a handoff.
Kickoffs(target, stage) ==
    {Plain(Says("kickoff", a), To(Coordinator, target, Demo(stage, "ready")), FALSE)
        : a \in LlmAsks}

\* Slip: the same, for a request that is delegated without a word.
DelegatesWithReview(target, reason) ==
    {Plain(<<>>, To(Coordinator, target, reason)
                     \o To(Coordinator, "market_analyst", Text), FALSE)}

\* A request passed on without a word to the user.
Delegates(target, reason) ==
    {Plain(<<>>, To(Coordinator, target, reason), FALSE)}

\* The first step of a turn: no handoff context yet. The first parser to match
\* decides.
FirstMove(m, recent, env) ==
    LET research == "retention" \in m.matches
        prd == ~research /\ PicksOption(m, recent)
        prototype == ~research /\ ~prd /\ ApprovesPrototype(m, recent)
    IN  CASE research -> Kickoffs("user_researcher", "research_brief")
          [] prd -> Kickoffs("product_manager", "prd_brief")
          [] prototype -> Kickoffs("product_designer", "prototype_brief")
          [] OTHER -> IF m.topic = "irrelevant" THEN Replies("out_of_scope", env)
                      ELSE Delegates(DispatchTarget(m), Text)

\* Slip: a PRD that could not be saved is passed over in silence.
PrdReadyReplyOrSilence(persisted) ==
    Plain(IF persisted THEN Says("prd_saved", {"prototype"}) ELSE <<>>,
          <<>>, FALSE)

\* _render_prd_ready_reply: fixed wording, which always offers the prototype.
PrdReadyReply(persisted) ==
    Plain(Says(IF persisted THEN "prd_saved" ELSE "prd_draft", {"prototype"}),
          <<>>, FALSE)

\* Slip: a blocked specialist is simply asked again.
HandoffReplyRetries(reason, env) ==
    IF reason.status = "blocked"
    THEN Delegates("user_researcher", Demo("research_brief", "ready"))
    ELSE Replies("answer", env)

\* A step that resumes the coordinator with a specialist's handoff context.
HandoffReply(reason, env) ==
    CASE reason.stage \in {"research_findings", "prototype_summary"}
             /\ reason.status = "blocked" -> Replies("blocked", env)
      [] reason.stage = "research_findings" /\ reason.status = "ready" ->
             Delegates("product_manager", reason)
      [] reason.stage = "prd_ready" -> {PrdReadyReply(reason.persisted)}
      [] reason.stage = "options_summary" -> Replies("options", env)
      [] reason.stage = "prototype_summary" /\ reason.status = "ready" ->
             Replies("prototype", env)
      [] OTHER -> Replies("answer", env)

CoordinatorExecutions(m, reason, recent, env) ==
    IF reason.stage = "none" THEN FirstMove(m, recent, env)
    ELSE HandoffReply(reason, env)

-----------------------------------------------------------------------------
(* The specialists.                                                        *)

\* _persist_prd_artifact: create, else update; failures are swallowed, and a
\* create that failed may still have left the page behind.
PersistOutcomes(env) ==
    {o \in [page : BOOLEAN, persisted : BOOLEAN] :
        /\ o.persisted => o.page
        /\ o.page => env.notion}

PrdExecutions(env) ==
    {Finish("product_manager",
            [stage |-> "prd_ready", status |-> "ready", persisted |-> o.persisted],
            FALSE, acted, o.page, FALSE) :
        o \in PersistOutcomes(env), acted \in MayAct(env)}

ProductManagerExecutions(reason, env) ==
    CASE reason.stage = "research_findings" /\ reason.status = "ready" ->
             {HandBack("product_manager", Demo("options_summary", "ready"),
                       FALSE, acted) : acted \in MayAct(env)}
      [] reason.stage = "prd_brief" -> PrdExecutions(env)
      [] OTHER -> {HandBack("product_manager", Text, FALSE, acted)
                      : acted \in MayAct(env)}

\* Slip: the stream stays attached on the demo path too.
UserResearcherExecutionsStreaming(reason, env) ==
    {HandBack("user_researcher",
              IF reason.stage = "research_brief"
              THEN Demo("research_findings",
                        IF env.notion THEN "ready" ELSE "blocked")
              ELSE Text,
              env.notion /\ env.deltas, acted)
        : acted \in {a \in MayAct(env) : a => env.notion}}

\* Without Notion no model is run. The generic path runs it with the user's
\* response stream still attached; the demo path detaches it.
UserResearcherExecutions(reason, env) ==
    LET actions == {acted \in MayAct(env) : acted => env.notion} IN
    IF reason.stage = "research_brief"
    THEN {HandBack("user_researcher",
                   Demo("research_findings",
                        IF env.notion THEN "ready" ELSE "blocked"),
                   FALSE, acted) : acted \in actions}
    ELSE {HandBack("user_researcher", Text, env.notion /\ env.deltas, acted)
             : acted \in actions}

\* Slip: a deployment result without a URL counts as a deployment.
PrototypeOutcomesUnchecked(env) ==
    {o \in [acted : BOOLEAN, deployed : BOOLEAN, status : {"ready", "blocked"}] :
        o.acted \/ o.deployed => env.vercel}

\* _handle_demo_prototype_brief: blocked without Vercel, before the model is run,
\* or without a URL in the result of _publish_demo_prototype, whether or not a
\* deploy tool was there to be called.
PrototypeOutcomes(env) ==
    {o \in [acted : BOOLEAN, deployed : BOOLEAN, status : {"ready", "blocked"}] :
        /\ o.status = "ready" => o.deployed
        /\ o.acted \/ o.deployed => env.vercel}

\* The generic path has no call of its own, but its prompt tells the model to
\* publish with the Vercel tools when they are there.
ProductDesignerExecutions(reason, env) ==
    IF reason.stage = "prototype_brief"
    THEN {Finish("product_designer", Demo("prototype_summary", o.status),
                 FALSE, o.acted, FALSE, o.deployed) : o \in PrototypeOutcomes(env)}
    ELSE {HandBack("product_designer", Text, env.deltas, acted)
             : acted \in MayAct(env)}

\* The market analyst is a placeholder handler (agents/registry.py).
MarketAnalystExecutions == {HandBack("market_analyst", Text, FALSE, FALSE)}

\* The handler table of default_agent_handlers.
Executions(role, m, reason, recent, env) ==
    CASE role = Coordinator -> CoordinatorExecutions(m, reason, recent, env)
      [] role = "product_manager" -> ProductManagerExecutions(reason, env)
      [] role = "user_researcher" -> UserResearcherExecutions(reason, env)
      [] role = "product_designer" -> ProductDesignerExecutions(reason, env)
      [] role = "market_analyst" -> MarketAnalystExecutions
=============================================================================
