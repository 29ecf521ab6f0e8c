------------------------- MODULE ConnectionRegister -------------------------
(***************************************************************************)
(* What the settings page and the bot rely on when they share the          *)
(* connections of a server: each service holds at most one grant, given by *)
(* the provider when the owner connects it.  Connecting replaces it by a   *)
(* new one, disconnecting removes it, and nothing else touches it.  Only a *)
(* service whose tokens are refreshed may come back to an earlier grant of *)
(* its own.                                                                *)
(***************************************************************************)
EXTENDS Naturals, Sequences

CONSTANTS Services, Refreshable

VARIABLES
    given,      \* the services of the grants given so far, in order
    slot        \* the number of the grant each service holds, 0 for none

Init ==
    /\ given = <<>>
    /\ slot = [s \in Services |-> 0]

Connect(s) ==
    /\ given' = Append(given, s)
    /\ slot' = [slot EXCEPT ![s] = Len(given')]

Disconnect(s) ==
    /\ slot' = [slot EXCEPT ![s] = 0]
    /\ UNCHANGED given

Restore(s) ==
    /\ s \in Refreshable
    /\ \E g \in DOMAIN given :
           /\ given[g] = s
           /\ slot' = [slot EXCEPT ![s] = g]
    /\ UNCHANGED given

Next == \E s \in Services : Connect(s) \/ Disconnect(s) \/ Restore(s)

Spec == Init /\ [][Next]_<<given, slot>>
=============================================================================
