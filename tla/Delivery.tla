------------------------------ MODULE Delivery ------------------------------
(***************************************************************************)
(* How one turn reaches its Discord thread: _DiscordProgressReporter of    *)
(* pixie_for_pm/discord/bot.py, driven by the orchestrator.                *)
(*                                                                         *)
(* The reporter keeps one placeholder message with the status of the turn, *)
(* posts acknowledgements at once, posts the streamed reply in chunks cut  *)
(* from a buffer, and at the end posts what was not streamed and deletes   *)
(* the placeholder.  Every call to Discord may be refused; Discord always  *)
(* refuses a message that is blank or longer than its limit.  A refused    *)
(* call raises, and the turn then shows an error in the placeholder.       *)
(*                                                                         *)
(* Texts are sequences of units: "w" is visible, "s" is white space, "t"   *)
(* is a piece of a Markdown table, which rendering makes Width units long  *)
(* (cells are padded to their column).  Where a text is cut is left open   *)
(* within the limit: the natural breaks of _natural_break_index.           *)
(*                                                                         *)
(* Tools of one model step run concurrently, with each other and with the  *)
(* loop that hands text deltas to the reporter, and each of them reports   *)
(* its status first: a status update is in two steps, the await on the     *)
(* typing indicator and then the edit, between which others may run.       *)
(***************************************************************************)
EXTENDS Naturals, Sequences, SequencesExt

CONSTANTS
    Replies,        \* the final replies a turn may come to
    Notes,          \* the acknowledgements it may post on the way
    Statuses,       \* the status texts agents and tools emit
    Window,         \* DISCORD_STREAM_UPDATE_INTERVAL
    Limit,          \* DISCORD_MESSAGE_LIMIT
    Width,          \* units a table unit takes when rendered
    MaxStatuses,    \* bound: status updates of a turn
    MaxNotes,       \* bound: acknowledgements of a turn
    MaxDelta        \* bound: units of one streamed delta

Unit == {"w", "s", "t"}
Blank(text) == \A i \in DOMAIN text : text[i] = "s"

ASSUME TextsAssumption ==
    \A text \in Replies \cup Notes : text \in Seq(Unit) /\ ~Blank(text)
ASSUME BoundsAssumption ==
    /\ Window \in Nat \ {0} /\ Limit \in Nat \ {0} /\ Width \in Nat \ {0}
    /\ Window <= Limit
    /\ MaxStatuses \in Nat /\ MaxNotes \in Nat /\ MaxDelta \in Nat

VARIABLES
    pc,           \* what the turn's task is doing
    reply,        \* the final reply the agents will return
    cursor,       \* how much of it the model has streamed in this attempt
    retried,      \* the model run has been repeated once
    produced,     \* all text handed to the reporter
    published,    \* _published_public_messages
    outbox,       \* rest of the acknowledgement being posted
    buffer,       \* _stream_buffer
    streaming,    \* _has_stream_activity
    status,       \* _last_status
    edits,        \* status updates under way, as [nr, text, stage]
    emitted,      \* number of status updates
    placeholder,  \* what the status message shows
    posted,       \* the other messages of the turn in the thread
    cause         \* the kind of call whose refusal failed the turn

reporter == <<published, outbox, buffer, streaming>>
agent == <<reply, cursor, retried, produced>>
statusLine == <<status, edits, emitted, placeholder>>
vars == <<pc, agent, reporter, statusLine, posted, cause>>

-----------------------------------------------------------------------------
\* The text with every unit u written form[u].
Spelled(text, form) == FlattenSeq([i \in DOMAIN text |-> form[text[i]]])

\* What a reader sees of a text.
SeenAs == [u \in Unit |-> IF u = "s" THEN <<>> ELSE <<u>>]
Visible(text) == Spelled(text, SeenAs)

\* str.lstrip, str.rstrip
Lstrip(text) ==
    IF Blank(text) THEN <<>>
    ELSE LET first == CHOOSE i \in DOMAIN text :
                          text[i] # "s" /\ \A j \in 1..(i - 1) : text[j] = "s"
         IN  SubSeq(text, first, Len(text))
Rstrip(text) == Reverse(Lstrip(Reverse(text)))
Strip(text) == Lstrip(Rstrip(text))

\* _render_discord_content
RenderedAs == [u \in Unit |->
                  IF u = "t" THEN [k \in 1..Width |-> "w"] ELSE <<u>>]
Rendered(text) == Spelled(text, RenderedAs)

\* compose_public_reply: a blank line between two messages.
Composed(messages) ==
    FlattenSeq([i \in DOMAIN messages |->
                   IF i = 1 THEN messages[i] ELSE <<"s">> \o messages[i]])

\* Slip: publish_transcript does not take off what was published.
FinalContentWhole(messages, text) == Composed(Append(messages, Strip(text)))

\* publish_transcript: the transcript without what publish_message has shown.
FinalContent(messages, text) ==
    LET full   == Composed(Append(messages, Strip(text)))
        prefix == Composed(messages)
    IN  IF IsPrefix(prefix, full)
        THEN Lstrip(SubSeq(full, Len(prefix) + 1, Len(full)))
        ELSE full

\* Slip: emit only looks at the buffer, which a flush may just have emptied.
BufferFlows == buffer # <<>>

\* emit leaves the placeholder alone while text is on its way.
TextFlows == streaming \/ buffer # <<>>

Cut(text, at) == SubSeq(text, 1, at)

\* Slip: the posted part is not taken off the buffer.
AfterNothing(text, at) == Lstrip(text)

After(text, at) == Lstrip(SubSeq(text, at + 1, Len(text)))

\* What Discord takes as the content of a message.
Acceptable(content) == ~Blank(content) /\ Len(content) <= Limit

\* The pieces of at most a window that a break may leave at the head of a text.
Pieces(text) ==
    {IF Blank(Cut(text, at))
     THEN [at |-> Window, content |-> Rstrip(Cut(text, Window))]
     ELSE [at |-> at, content |-> Rstrip(Cut(text, at))] : at \in 1..Window}

\* Slip: the final flush, like the others, waits for a full window.
ChunksWhenFull(text, final) ==
    IF Len(text) < Window THEN {} ELSE Pieces(text)

\* Slip: a window that is just full is left to wait.
ChunksLate(text, final) ==
    IF text = <<>> THEN {}
    ELSE IF final /\ Len(text) <= Window
    THEN {[at |-> Len(text), content |-> text]}
    ELSE IF Len(text) <= Window THEN {}
    ELSE Pieces(text)

\* Slip: the final flush sends all that is left.
ChunksWhole(text, final) ==
    IF text = <<>> THEN {}
    ELSE IF final THEN {[at |-> Len(text), content |-> text]}
    ELSE IF Len(text) < Window THEN {}
    ELSE Pieces(text)

\* _next_stream_chunk: the ways to cut the buffer, as [at, content]; none when
\* it is to wait for more.
Chunks(text, final) ==
    IF text = <<>> THEN {}
    ELSE IF final /\ Len(text) <= Window
    THEN {[at |-> Len(text), content |-> text]}
    ELSE IF Len(text) < Window THEN {}
    ELSE Pieces(text)

-----------------------------------------------------------------------------
Init ==
    /\ pc = "start"
    /\ reply \in Replies
    /\ cursor = 0
    /\ retried = FALSE
    /\ produced = <<>>
    /\ published = <<>>
    /\ outbox = <<>>
    /\ buffer = <<>>
    /\ streaming = FALSE
    /\ status = "none"
    /\ edits = {}
    /\ emitted = 0
    /\ placeholder = "none"
    /\ posted = <<>>
    /\ cause = "none"

\* The turn fails; what its tools were still doing is cancelled.
Raise(kind) ==
    /\ pc' = "reporting"
    /\ cause' = kind
    /\ edits' = {}

\* start: the first status creates the placeholder.
Start ==
    /\ pc = "start"
    /\ status' = "thinking"
    /\ \/ /\ placeholder' = "thinking"
          /\ pc' = "working"
          /\ UNCHANGED <<cause, edits>>
       \/ Raise("status") /\ UNCHANGED placeholder
    /\ UNCHANGED <<agent, reporter, emitted, posted>>

\* The agents run, and so may their tools.
AgentRuns == pc \in {"working", "posting", "flushing"}

\* emit, up to its first await: a repeated status is dropped.
Emit(s) ==
    /\ AgentRuns
    /\ emitted < MaxStatuses
    /\ s # status
    /\ status' = s
    /\ emitted' = emitted + 1
    /\ edits' = edits \cup {[nr |-> emitted, text |-> s, stage |-> "typing"]}
    /\ UNCHANGED <<pc, agent, reporter, placeholder, posted, cause>>

\* emit, after the await: no edit once text streams.
DecideEdit(e) ==
    /\ AgentRuns
    /\ e.stage = "typing"
    /\ edits' = (edits \ {e}) \cup
                IF TextFlows THEN {} ELSE {[e EXCEPT !.stage = "editing"]}
    /\ UNCHANGED <<pc, agent, reporter, status, emitted, placeholder, posted, cause>>

\* _edit_status_message: Discord takes the edit, or the agents' run fails.
EditStatusMessage(e) ==
    /\ AgentRuns
    /\ e.stage = "editing"
    /\ edits' = edits \ {e}
    /\ \/ placeholder' = e.text /\ UNCHANGED cause
       \/ cause' = "status" /\ UNCHANGED placeholder
    /\ UNCHANGED <<pc, agent, reporter, status, emitted, posted>>

\* publish_message: graph.py calls it for a coordinator that hands off, which is
\* before any of its final reply streams.
PublishMessage(note) ==
    /\ pc = "working"
    /\ ~streaming
    /\ edits = {} /\ cause = "none"
    /\ Len(published) < MaxNotes
    /\ outbox' = Rendered(Strip(note))
    /\ published' = Append(published, Strip(note))
    /\ produced' = produced \o Strip(note)
    /\ pc' = "posting"
    /\ UNCHANGED <<reply, cursor, retried, buffer, streaming,
                   statusLine, posted, cause>>

\* One chunk of split_discord_response and its _send_follow_up.  The code notes
\* the message as published after the last chunk; nothing reads it before.
PostChunk ==
    /\ pc = "posting"
    /\ \E at \in IF Len(outbox) <= Limit THEN {Len(outbox)} ELSE 1..Limit :
          LET content == Rstrip(Cut(outbox, at)) IN
          \/ /\ Acceptable(content)
             /\ posted' = Append(posted, content)
             /\ outbox' = After(outbox, at)
             /\ pc' = IF After(outbox, at) = <<>> THEN "working" ELSE "posting"
             /\ UNCHANGED <<cause, edits>>
          \/ /\ Raise(IF Acceptable(content) THEN "post" ELSE "content")
             /\ UNCHANGED <<posted, outbox>>
    /\ UNCHANGED <<agent, published, buffer, streaming, status, emitted, placeholder>>

\* stream_content: the model's next text delta.
StreamContent(n) ==
    /\ pc = "working"
    /\ cursor + n <= Len(reply)
    /\ LET delta == SubSeq(reply, cursor + 1, cursor + n) IN
       /\ buffer' = buffer \o delta
       /\ produced' = produced \o delta
    /\ cursor' = cursor + n
    /\ streaming' = TRUE
    /\ pc' = "flushing"
    /\ UNCHANGED <<reply, retried, published, outbox, statusLine, posted, cause>>

\* run_deep_agent repeats a run that failed on a tool's arguments, once.
Retry ==
    /\ pc = "working"
    /\ cursor > 0
    /\ edits = {} /\ cause = "none"
    /\ ~retried
    /\ retried' = TRUE
    /\ cursor' = 0
    /\ UNCHANGED <<pc, reply, produced, reporter, statusLine, posted, cause>>

\* publish_transcript: the transcript is what was published, then the reply.
PublishTranscript ==
    /\ pc = "working"
    /\ edits = {} /\ cause = "none"
    /\ streaming => cursor = Len(reply)
    /\ buffer' = IF streaming THEN buffer ELSE FinalContent(published, reply)
    /\ produced' = IF streaming THEN produced ELSE produced \o Strip(reply)
    /\ pc' = "finishing"
    /\ UNCHANGED <<reply, cursor, retried, published, outbox, streaming,
                   statusLine, posted, cause>>

\* _flush_stream_buffer: one chunk after the other until none is due.
Flush ==
    LET chunks == Chunks(buffer, pc = "finishing") IN
    /\ pc \in {"flushing", "finishing"}
    /\ \/ /\ chunks = {}
          /\ pc' = IF pc = "finishing" THEN "deleting" ELSE "working"
          /\ UNCHANGED <<posted, buffer, cause, edits>>
       \/ \E chunk \in chunks :
             LET content == Rendered(chunk.content) IN
             \/ /\ Acceptable(content)
                /\ posted' = Append(posted, content)
                /\ buffer' = After(buffer, chunk.at)
                /\ UNCHANGED <<pc, cause, edits>>
             \/ /\ Raise(IF Acceptable(content) THEN "post" ELSE "content")
                /\ UNCHANGED <<posted, buffer>>
    /\ UNCHANGED <<agent, published, outbox, streaming, status, emitted, placeholder>>

\* _delete_status_message: a refusal is suppressed, the message then stays.
DeleteStatusMessage ==
    /\ pc = "deleting"
    /\ placeholder' \in {"gone", placeholder}
    /\ pc' = "done"
    /\ UNCHANGED <<agent, reporter, status, edits, emitted, posted, cause>>

\* publish_error: in the placeholder, or in a new message when there is none.
PublishError ==
    /\ pc = "reporting"
    /\ placeholder' \in {"error", placeholder}
    /\ pc' = "failed"
    /\ UNCHANGED <<agent, reporter, status, edits, emitted, posted, cause>>

\* A handler that raises, by itself or for a status update that was refused:
\* on_message reports it all the same.
AgentFails ==
    /\ pc = "working"
    /\ Raise(IF cause = "none" THEN "agent" ELSE cause)
    /\ UNCHANGED <<agent, reporter, status, emitted, placeholder, posted>>

Next ==
    \/ Start
    \/ \E s \in Statuses : Emit(s)
    \/ \E e \in edits : DecideEdit(e)
    \/ \E e \in edits : EditStatusMessage(e)
    \/ \E note \in Notes : PublishMessage(note)
    \/ PostChunk
    \/ \E n \in 1..MaxDelta : StreamContent(n)
    \/ Retry
    \/ PublishTranscript
    \/ Flush
    \/ DeleteStatusMessage
    \/ PublishError
    \/ AgentFails

Spec == Init /\ [][Next]_vars

-----------------------------------------------------------------------------
\* Every variable keeps its type, and between two deltas less than a window of
\* text waits in the stream buffer: _flush_stream_buffer leaves no due chunk.
TypeOK ==
    /\ pc \in {"start", "working", "posting", "flushing", "finishing",
               "deleting", "reporting", "done", "failed"}
    /\ reply \in Replies
    /\ cursor \in 0..Len(reply)
    /\ retried \in BOOLEAN /\ streaming \in BOOLEAN
    /\ produced \in Seq(Unit) /\ outbox \in Seq(Unit) /\ buffer \in Seq(Unit)
    /\ published \in Seq(Seq(Unit)) /\ posted \in Seq(Seq(Unit))
    /\ Len(published) <= MaxNotes
    /\ status \in Statuses \cup {"none", "thinking"}
    /\ emitted \in 0..MaxStatuses
    /\ edits \subseteq [nr : 0..MaxStatuses, text : Statuses,
                        stage : {"typing", "editing"}]
    /\ placeholder \in Statuses \cup {"none", "thinking", "error", "gone"}
    /\ cause \in {"none", "status", "post", "content", "agent"}
    /\ pc = "working" => Len(buffer) < Window

Thread == FlattenSeq(posted)
Due == Visible(Rendered(produced))

\* What the thread shows is, white space aside, a prefix of all text handed to
\* the reporter, and all of it when the turn is done: acknowledgements, streamed
\* chunks and the final reply come in order, none doubled by the transcript's
\* publication and none lost in cutting the buffer.
DeliveredInOrder ==
    /\ IsPrefix(Visible(Thread), Due)
    /\ pc = "done" => Visible(Thread) = Due

\* A turn that ends without an error has shown its whole reply, streamed or not,
\* as the last thing in the thread, and leaves no status update behind.
DoneMeansAnswered ==
    pc = "done" => /\ IsSuffix(Visible(Rendered(reply)), Visible(Thread))
                   /\ edits = {} /\ cause = "none"

\* Discord refuses a message for its content only where a chunk holds a table,
\* which grows when it is rendered after the cut, or where a whole window or the
\* end of the buffer is white space; no acknowledgement is refused for that
\* (_send_follow_up, _next_stream_chunk, split_discord_response).
OnlyTablesAndBlanksRefused ==
    cause = "content" =>
        \/ "t" \in ToSet(buffer)
        \/ \A i \in DOMAIN buffer : i <= Window => buffer[i] = "s"

\* Once text of the turn streams, no further edit of the placeholder is sent by
\* a status update, even by one that was waiting when the first delta came: emit
\* looks at the stream after its await, not before.
StatusYieldsToText ==
    [][streaming =>
         {e \in edits' : e.stage = "editing"} \subseteq edits]_vars

\* Every round of the flush loop shortens the buffer, so that it ends however the
\* text is cut, even where a break falls into white space.
FlushAdvances ==
    [][posted' # posted /\ pc \in {"flushing", "finishing"}
         => Len(buffer') < Len(buffer)]_vars

-----------------------------------------------------------------------------
\* What documents say of the reporter.

\* specs/agent-runtime-tooling.md: "losing a status update must not fail the
\* underlying Discord turn".  emit lets the refusal through.
StatusLossDoesNotFailTurn == pc \in {"reporting", "failed"} => cause # "status"
=============================================================================
