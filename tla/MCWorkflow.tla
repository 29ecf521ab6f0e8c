----------------------------- MODULE MCWorkflow -----------------------------
(* Small instances of Workflow for TLC.                                    *)
EXTENDS Workflow, TLC

CONSTANTS t1, t2

OneTurn == {t1}
TwoTurns == {t1, t2}

\* Turns differ in nothing but their name.
TurnSymmetry == Permutations(Turns)

Sent(matches, topic) == [matches |-> matches, topic |-> topic]

\* The demo conversation: ask about retention, pick an option, approve.
DemoMessages == {Sent({"retention"}, "general"), Sent({"bare_choice"}, "general"),
                 Sent({"approval"}, "general")}

\* One message for each branch of the coordinator, and one ("ok, the second one")
\* that picks an option or approves, whichever was asked.
AllMessages ==
    DemoMessages
      \cup {Sent({"bare_choice", "approval"}, "general"),
            Sent({"prd_request"}, "general"), Sent({}, "irrelevant")}
      \cup {Sent({}, topic) :
               topic \in {"general", "market_analyst", "user_researcher",
                          "product_designer"}}

Env(notion, vercel, deltas) ==
    [notion |-> notion, vercel |-> vercel, deltas |-> deltas]
\* Everything connected, with and without streaming; Notion alone; nothing.
VariedEnvironments == {Env(TRUE, TRUE, TRUE), Env(TRUE, TRUE, FALSE),
                       Env(TRUE, FALSE, TRUE), Env(FALSE, FALSE, FALSE)}
ConnectedEnvironment == {Env(TRUE, TRUE, TRUE)}

\* What a text written by a model asks the user.
EitherAsk == {{"option"}, {"prototype"}}
OptionAsk == {{"option"}}
=============================================================================
