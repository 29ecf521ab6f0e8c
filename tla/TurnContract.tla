---------------------------- MODULE TurnContract ----------------------------
(***************************************************************************)
(* What a thread promises a user who waits for each answer.                *)
(*                                                                         *)
(* A turn is answered, fails, or is lost when the process dies.  The bot   *)
(* may speak several times in a turn and remembers what it said at times   *)
(* of its own, but it never forgets or rewrites what it remembers, and in  *)
(* an answered turn the user has seen exactly what the bot remembers: the  *)
(* next message ("2", "yes") is read against the same conversation the     *)
(* user is looking at.                                                     *)
(***************************************************************************)
EXTENDS Threads, SequencesExt

CONSTANTS
    Turns,    \* the user's messages
    Texts     \* what the bot may say

VARIABLES
    status,   \* of each turn: idle, working, answered, failed or lost
    said,     \* what the user has seen of each turn
    memory    \* the conversation as the bot remembers it

vars == <<status, said, memory>>

Remembered(t) == OfTurn(memory, t)

OneMore(old, new) == Len(new) = Len(old) + 1 /\ IsPrefix(old, new)

Init ==
    /\ status = [t \in Turns |-> "idle"]
    /\ said = [t \in Turns |-> <<>>]
    /\ memory = <<>>

Ask(t) ==
    /\ status[t] = "idle"
    /\ \A u \in Turns : status[u] # "working"
    /\ status' = [status EXCEPT ![t] = "working"]
    /\ UNCHANGED <<said, memory>>

Speak(t) ==
    /\ status[t] = "working"
    /\ OneMore(said[t], said'[t])
    /\ Last(said'[t]) \in Texts
    /\ said' = [said EXCEPT ![t] = said'[t]]
    /\ UNCHANGED <<status, memory>>

Remember(t) ==
    /\ status[t] = "working"
    /\ OneMore(memory, memory')
    /\ Last(memory').turn = t
    /\ Last(memory').message \in Texts
    /\ UNCHANGED <<status, said>>

\* The last of the reply may be shown as the turn ends.
Answer(t) ==
    /\ status[t] = "working"
    /\ Remembered(t) # <<>>
    /\ IsPrefix(said[t], Remembered(t))
    /\ said' = [said EXCEPT ![t] = Remembered(t)]
    /\ status' = [status EXCEPT ![t] = "answered"]
    /\ UNCHANGED memory

Fail(t) ==
    /\ status[t] = "working"
    /\ status' = [status EXCEPT ![t] = "failed"]
    /\ UNCHANGED <<said, memory>>

Restart(t) ==
    /\ status[t] = "working"
    /\ status' = [status EXCEPT ![t] = "lost"]
    /\ UNCHANGED <<said, memory>>

Next ==
    \E t \in Turns :
        Ask(t) \/ Speak(t) \/ Remember(t) \/ Answer(t) \/ Fail(t) \/ Restart(t)

Spec == Init /\ [][Next]_vars
=============================================================================
