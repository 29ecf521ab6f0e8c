------------------------------ MODULE Threads ------------------------------
(***************************************************************************)
(* What one turn said in a sequence of entries: the thread the users look  *)
(* at, or the conversation the bot remembers, where the entries of several *)
(* turns may alternate.  Picking is by position, since an entry may occur  *)
(* twice.                                                                  *)
(***************************************************************************)
EXTENDS Naturals, Sequences, FiniteSets

\* The k-th of a finite set of positions.
Nth(P, k) == CHOOSE i \in P : Cardinality({j \in P : j <= i}) = k

\* The messages at the positions P, in order.
MessagesAt(entries, P) ==
    [k \in 1..Cardinality(P) |-> entries[Nth(P, k)].message]

\* The messages of turn t among the entries.
OfTurn(entries, t) ==
    MessagesAt(entries, {i \in DOMAIN entries : entries[i].turn = t})

\* Those that agent said.
OfTurnBy(entries, t, agent) ==
    MessagesAt(entries, {i \in DOMAIN entries :
                            /\ entries[i].turn = t
                            /\ entries[i].message.agent = agent})
=============================================================================
