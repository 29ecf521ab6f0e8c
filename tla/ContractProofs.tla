--------------------------- MODULE ContractProofs ---------------------------
(***************************************************************************)
(* Theorems about what the users of a thread get to see: each message of a *)
(* finished turn once and in order, no drafts of the demo's artifacts, and *)
(* with one turn at a time exactly what the thread remembers, so that what *)
(* a user consents to is what the thread still shows.                      *)
(***************************************************************************)
EXTENDS MemoryProofs, FiniteSetTheorems

-----------------------------------------------------------------------------
(* Picking messages of a sequence by position (module Threads).            *)

\* The elements of a sequence.
LEMMA SeqElement ==
    ASSUME NEW S, NEW q \in Seq(S), NEW i \in DOMAIN q
    PROVE  q[i] \in S
OBVIOUS

\* Induction on natural numbers, for sets.
LEMMA NaturalsCovered ==
    ASSUME NEW T \in SUBSET Nat, 0 \in T, \A n \in T : n + 1 \in T
    PROVE  T = Nat
<1> DEFINE less == {pair \in Nat \X Nat : pair[1] < pair[2]}
<1>1. IsWellFoundedOn(less, Nat)
  <2>1. OpToRel(<, Nat) = less
      BY DEF OpToRel
  <2> QED BY <2>1, NatLessThanWellFounded
<1>2. ASSUME Nat \ T # {}
      PROVE  FALSE
  <2>1. PICK x \in Nat \ T : \A y \in Nat \ T : ~ (<<y, x>> \in less)
      BY <1>1, <1>2, WFMin
  <2>2. x - 1 \in Nat /\ <<x - 1, x>> \in less
      BY <2>1
  <2>3. x - 1 \in T
      BY <2>1, <2>2
  <2> QED BY <2>1, <2>3
<1> QED BY <1>2

\* How many positions of P there are up to i.
Upto(P, i) == {j \in P : j <= i}
Place(P, i) == Cardinality(Upto(P, i))

\* Sets of positions are finite, and one more position counts.
LEMMA Positions ==
    ASSUME NEW n \in Nat, NEW P \in SUBSET (1..n)
    PROVE  /\ IsFiniteSet(P) /\ Cardinality(P) \in Nat
           /\ \A Q \in SUBSET P :
                 /\ IsFiniteSet(Q) /\ Cardinality(Q) \in Nat
                 /\ Cardinality(Q) <= Cardinality(P)
                 /\ Q # P => Cardinality(Q) < Cardinality(P)
           /\ IsFiniteSet(P \cup {n + 1})
           /\ Cardinality(P \cup {n + 1}) = Cardinality(P) + 1
<1>1. IsFiniteSet(1..n)
    BY FS_Interval
<1>2. IsFiniteSet(P) /\ Cardinality(P) \in Nat
    BY <1>1, FS_Subset, FS_CardinalityType
<1>3. ASSUME NEW Q \in SUBSET P
      PROVE  /\ IsFiniteSet(Q) /\ Cardinality(Q) \in Nat
             /\ Cardinality(Q) <= Cardinality(P)
             /\ Q # P => Cardinality(Q) < Cardinality(P)
  <2>1. /\ IsFiniteSet(Q) /\ Cardinality(Q) <= Cardinality(P)
        /\ Cardinality(Q) = Cardinality(P) => Q = P
      BY <1>2, FS_Subset
  <2>2. Cardinality(Q) \in Nat
      BY <2>1, FS_CardinalityType
  <2> QED BY <1>2, <2>1, <2>2
<1>4. n + 1 \notin P
    OBVIOUS
<1>5. IsFiniteSet(P \cup {n + 1}) /\ Cardinality(P \cup {n + 1}) = Cardinality(P) + 1
    BY <1>2, <1>4, FS_AddElement
<1> QED BY <1>2, <1>3, <1>5

\* Different positions have different places.
LEMMA PlaceUnique ==
    ASSUME NEW n \in Nat, NEW P \in SUBSET (1..n), NEW i \in P, NEW j \in P,
           Place(P, i) = Place(P, j)
    PROVE  i = j
<1>1. ASSUME NEW a \in P, NEW b \in P, a < b
      PROVE  Place(P, a) < Place(P, b)
  <2>0. a \in Int /\ b \in Int /\ \A x \in P : x \in Int
      OBVIOUS
  <2>3. \A x \in P : x <= a => x <= b
      BY <1>1, <2>0
  <2>4. b <= b /\ ~ (b <= a)
      BY <1>1, <2>0
  <2>1. Upto(P, a) \subseteq Upto(P, b) /\ b \in Upto(P, b) /\ b \notin Upto(P, a)
      BY <2>3, <2>4, Zenon DEF Upto
  <2>2. Upto(P, b) \in SUBSET (1..n)
      BY DEF Upto
  <2> QED BY <2>1, <2>2, Positions DEF Place
<1>2. i \in 1..n /\ j \in 1..n
    OBVIOUS
<1>3. Place(P, i) \in Nat /\ Place(P, j) \in Nat
    BY Positions DEF Place, Upto
<1>4. ~ (i < j) /\ ~ (j < i)
    BY <1>1, <1>3
<1> QED BY <1>2, <1>4

\* Every place up to the number of positions is taken.
LEMMA PlaceTaken ==
    ASSUME NEW n \in Nat, NEW P \in SUBSET (1..n), NEW k \in 1..Cardinality(P)
    PROVE  \E i \in P : Place(P, i) = k
<1> DEFINE Taken(m) == \A Q \in SUBSET (1..m) : \A l \in 1..Cardinality(Q) :
                           \E i \in Q : Place(Q, i) = l
           T == {m \in Nat : Taken(m)}
<1>1. Taken(0)
  <2> SUFFICES ASSUME NEW Q \in SUBSET (1..0), NEW l \in 1..Cardinality(Q)
               PROVE  FALSE
      OBVIOUS
  <2>1. Q = {}
      OBVIOUS
  <2> QED BY <2>1, FS_EmptySet
<1>2. ASSUME NEW m \in Nat, Taken(m)
      PROVE  Taken(m + 1)
  <2> SUFFICES ASSUME NEW Q \in SUBSET (1..(m + 1)), NEW l \in 1..Cardinality(Q)
               PROVE  \E i \in Q : Place(Q, i) = l
      OBVIOUS
  <2>1. CASE m + 1 \notin Q
    <3>1. Q \in SUBSET (1..m)
        BY <2>1
    <3> QED BY <1>2, <3>1
  <2>2. CASE m + 1 \in Q
    <3> DEFINE R == Q \ {m + 1}
    <3>1. R \in SUBSET (1..m) /\ Q = R \cup {m + 1}
        BY <2>2
    <3>2. Cardinality(R) \in Nat /\ Cardinality(Q) = Cardinality(R) + 1
        BY <3>1, Positions
    <3>3. CASE l = Cardinality(Q)
      <4>1. Upto(Q, m + 1) = Q
        <5>1. \A i \in Q : i <= m + 1
            OBVIOUS
        <5> QED BY <5>1 DEF Upto
      <4> QED BY <2>2, <3>3, <4>1 DEF Place
    <3>4. CASE l \in 1..Cardinality(R)
      <4>1. PICK i \in R : Place(R, i) = l
          BY <1>2, <3>1, <3>4
      <4>2. Upto(Q, i) = Upto(R, i)
          BY <3>1, <4>1 DEF Upto
      <4> QED BY <4>1, <4>2 DEF Place
    <3> QED BY <3>2, <3>3, <3>4
  <2> QED BY <2>1, <2>2
<1> HIDE DEF Taken
<1>3. T = Nat
  <2>1. T \in SUBSET Nat /\ 0 \in T /\ \A m \in T : m + 1 \in T
      BY <1>1, <1>2
  <2> HIDE DEF T
  <2> QED BY <2>1, NaturalsCovered
<1>4. Taken(n)
    BY <1>3
<1> QED BY <1>4 DEF Taken

\* Nth is the position at that place.
LEMMA NthPlace ==
    ASSUME NEW n \in Nat, NEW P \in SUBSET (1..n), NEW k \in 1..Cardinality(P)
    PROVE  /\ Nth(P, k) \in P /\ Place(P, Nth(P, k)) = k
           /\ \A i \in P : Place(P, i) = k => i = Nth(P, k)
<1>1. \E i \in P : Cardinality({j \in P : j <= i}) = k
    BY PlaceTaken DEF Place, Upto
<1>2. Nth(P, k) \in P /\ Place(P, Nth(P, k)) = k
    BY <1>1 DEF Nth, Place, Upto
<1> QED BY <1>2, PlaceUnique

\* A position after all others is the last, and leaves the others in place.
LEMMA NthMore ==
    ASSUME NEW n \in Nat, NEW P \in SUBSET (1..n)
    PROVE  LET Q == P \cup {n + 1} IN
           /\ Cardinality(Q) = Cardinality(P) + 1 /\ Cardinality(P) \in Nat
           /\ Nth(Q, Cardinality(P) + 1) = n + 1
           /\ \A k \in 1..Cardinality(P) : Nth(Q, k) = Nth(P, k)
<1> DEFINE Q == P \cup {n + 1}
<1>1. Cardinality(Q) = Cardinality(P) + 1 /\ Cardinality(P) \in Nat
    BY Positions
<1>2. Q \in SUBSET (1..(n + 1)) /\ n + 1 \in Q /\ n + 1 \in Nat
    OBVIOUS
<1>3. Upto(Q, n + 1) = Q /\ \A i \in P : Upto(Q, i) = Upto(P, i)
  <2>1. \A i \in P : i <= n + 1 /\ ~ (n + 1 <= i)
      OBVIOUS
  <2>2. n + 1 <= n + 1
      OBVIOUS
  <2>3. Upto(Q, n + 1) = Q
      BY <2>1, <2>2 DEF Upto
  <2>4. ASSUME NEW i \in P
        PROVE  Upto(Q, i) = Upto(P, i)
      BY <2>1 DEF Upto
  <2> QED BY <2>3, <2>4
<1> HIDE DEF Q
<1>4. Nth(Q, Cardinality(P) + 1) = n + 1
  <2>1. Place(Q, n + 1) = Cardinality(P) + 1
      BY <1>1, <1>3 DEF Place
  <2> QED BY <1>1, <1>2, <2>1, NthPlace
<1>5. ASSUME NEW k \in 1..Cardinality(P)
      PROVE  Nth(Q, k) = Nth(P, k)
  <2>1. Nth(P, k) \in P /\ Place(P, Nth(P, k)) = k
      BY NthPlace
  <2>2. Nth(P, k) \in Q /\ Place(Q, Nth(P, k)) = k
      BY <1>3, <2>1 DEF Place, Q
  <2>3. k \in 1..Cardinality(Q)
      BY <1>1
  <2> QED BY <1>2, <2>2, <2>3, NthPlace
<1> QED BY <1>1, <1>4, <1>5 DEF Q

\* A message labelled with its turn, and a thread of them.
Said(M) == [turn : Turns, message : M]
Thread(M) == Seq(Said(M))

\* One more element.
Plus(q, x) == q \o <<x>>

\* The messages at some positions, in types; none when there are none.
LEMMA MessagesAtType ==
    ASSUME NEW M, NEW entries \in Thread(M),
           NEW P \in SUBSET DOMAIN entries
    PROVE  /\ MessagesAt(entries, P) \in Seq(M)
           /\ Len(MessagesAt(entries, P)) = Cardinality(P)
           /\ MessagesAt(entries, {}) = <<>>
<1>1. Len(entries) \in Nat /\ DOMAIN entries = 1..Len(entries)
    BY DEF Thread
<1>2. Cardinality(P) \in Nat /\ \A k \in 1..Cardinality(P) : Nth(P, k) \in P
    BY <1>1, Positions, NthPlace
<1>3. \A i \in P : entries[i].message \in M
  <2>1. \A i \in DOMAIN entries : entries[i] \in Said(M)
      BY SeqElement DEF Thread
  <2> QED BY <2>1 DEF Said
<1>4. /\ MessagesAt(entries, P) \in [1..Cardinality(P) -> M]
    BY <1>2, <1>3 DEF MessagesAt
<1>5. MessagesAt(entries, {}) = <<>>
  <2>1. Cardinality({}) = 0
      BY FS_EmptySet
  <2> QED BY <2>1 DEF MessagesAt
<1> QED BY <1>2, <1>4, <1>5

\* One more entry is picked last, or not at all.
LEMMA MessagesAtMore ==
    ASSUME NEW M, NEW entries \in Thread(M),
           NEW P \in SUBSET DOMAIN entries,
           NEW entry \in Said(M),
           NEW more, more = Plus(entries, entry),
           NEW Q, Q = P \cup {Len(entries) + 1}
    PROVE  /\ MessagesAt(more, P) = MessagesAt(entries, P)
           /\ MessagesAt(more, Q) = Plus(MessagesAt(entries, P), entry.message)
<1> DEFINE n == Len(entries)
           c == Cardinality(P)
<1>1. /\ n \in Nat /\ DOMAIN entries = 1..n /\ more[n + 1] = entry
      /\ \A i \in 1..n : more[i] = entries[i]
    BY OneMore DEF Thread, Plus
<1>2. c \in Nat /\ \A k \in 1..c : Nth(P, k) \in P
    BY <1>1, Positions, NthPlace
<1>3. MessagesAt(more, P) = MessagesAt(entries, P)
    BY <1>1, <1>2 DEF MessagesAt
<1>4. /\ Cardinality(Q) = c + 1 /\ Nth(Q, c + 1) = n + 1
      /\ \A k \in 1..c : Nth(Q, k) = Nth(P, k)
    BY <1>1, NthMore
<1>5. /\ MessagesAt(entries, P) \in Seq(M) /\ Len(MessagesAt(entries, P)) = c
      /\ entry.message \in M
    BY MessagesAtType DEF Said
<1>6. \A k \in 1..c : MessagesAt(entries, P)[k] = entries[Nth(P, k)].message
    BY DEF MessagesAt
<1> DEFINE old == MessagesAt(entries, P)
           new == MessagesAt(more, Q)
<1>7. /\ new = [k \in 1..(c + 1) |-> more[Nth(Q, k)].message]
    BY <1>4 DEF MessagesAt
<1> HIDE DEF old, new, n, c
<1>8. /\ new[c + 1] = entry.message
      /\ \A k \in 1..c : new[k] = old[k]
  <2>1. c + 1 \in 1..(c + 1) /\ \A k \in 1..c : k \in 1..(c + 1)
      BY <1>2
  <2>2. new[c + 1] = entry.message
      BY <1>1, <1>4, <1>7, <2>1, Zenon
  <2>3. ASSUME NEW k \in 1..c
        PROVE  new[k] = old[k]
    <3>1. new[k] = more[Nth(P, k)].message /\ Nth(P, k) \in 1..n
        BY <1>1, <1>2, <1>4, <1>7, <2>1, Zenon
    <3> QED BY <1>1, <1>6, <3>1, Zenon DEF old
  <2> QED BY <2>2, <2>3
<1>9. old \o <<entry.message>> = new
  <2>1. /\ DOMAIN (old \o <<entry.message>>) = 1..(c + 1)
        /\ \A k \in 1..c : (old \o <<entry.message>>)[k] = old[k]
        /\ (old \o <<entry.message>>)[c + 1] = entry.message
        /\ old \o <<entry.message>> \in Seq(M)
        /\ Len(old \o <<entry.message>>) = c + 1
      BY <1>5, OneMore DEF old
  <2>2. DOMAIN new = 1..(c + 1)
      BY <1>7
  <2>3. \A k \in 1..(c + 1) : (old \o <<entry.message>>)[k] = new[k]
      BY <1>2, <1>8, <2>1
  <2>4. old \o <<entry.message>> =
            [k \in 1..(c + 1) |-> (old \o <<entry.message>>)[k]]
      BY <2>1
  <2> QED BY <1>7, <2>3, <2>4
<1> QED BY <1>3, <1>9 DEF old, new, Plus

\* The labelled form of no message and of one.
LEMMA FewEntries ==
    ASSUME NEW S, NEW entries \in Seq(S), NEW t, NEW m
    PROVE  /\ entries \o Entries(t, <<>>) = entries
           /\ Entries(t, <<m>>) = <<[turn |-> t, message |-> m]>>
<1>1. Entries(t, <<>>) = <<>>
    BY DEF Entries
<1>2. Entries(t, <<m>>) = <<[turn |-> t, message |-> m]>>
    BY DEF Entries
<1> QED BY <1>1, <1>2

\* One more message of turn t is the last of what the turn said, and nothing any
\* other turn, or in another voice, said.
LEMMA SaidMore ==
    ASSUME NEW M, NEW entries \in Thread(M),
           NEW t \in Turns, NEW m \in M,
           NEW more, more = Plus(entries, [turn |-> t, message |-> m])
    PROVE  /\ OfTurn(more, t) = Plus(OfTurn(entries, t), m)
           /\ \A u : u # t => OfTurn(more, u) = OfTurn(entries, u)
           /\ OfTurnBy(more, t, m.agent) = Plus(OfTurnBy(entries, t, m.agent), m)
           /\ \A u, a : u # t \/ m.agent # a =>
                 OfTurnBy(more, u, a) = OfTurnBy(entries, u, a)
<1> DEFINE entry == [turn |-> t, message |-> m]
           n == Len(entries)
           At1(q, u) == {i \in DOMAIN q : q[i].turn = u}
           At2(q, u, a) == {i \in DOMAIN q : q[i].turn = u /\ q[i].message.agent = a}
<1>1. entry \in Said(M) /\ entry.turn = t /\ entry.message = m
    BY DEF Said
<1>3. more = Plus(entries, entry)
    OBVIOUS
<1>2. /\ n \in Nat /\ DOMAIN entries = 1..n /\ DOMAIN more = 1..(n + 1)
      /\ more[n + 1] = entry /\ \A i \in 1..n : more[i] = entries[i]
    BY <1>1, <1>3, OneMore DEF Thread, Plus
<1>4. /\ \A u : At1(entries, u) \in SUBSET DOMAIN entries
      /\ \A u, a : At2(entries, u, a) \in SUBSET DOMAIN entries
    OBVIOUS
<1>5. \A i : i \in 1..(n + 1) <=> i \in 1..n \/ i = n + 1
    BY <1>2
<1> HIDE DEF entry, n
<1>6. /\ At1(more, t) = At1(entries, t) \cup {n + 1}
      /\ At2(more, t, m.agent) = At2(entries, t, m.agent) \cup {n + 1}
    BY <1>1, <1>2, <1>5
<1>7. ASSUME NEW u, u # t
      PROVE  At1(more, u) = At1(entries, u)
    BY <1>1, <1>2, <1>5, <1>7
<1>8. ASSUME NEW u, NEW a, u # t \/ m.agent # a
      PROVE  At2(more, u, a) = At2(entries, u, a)
    BY <1>1, <1>2, <1>5, <1>8
<1> HIDE DEF At1, At2
<1>9. ASSUME NEW P \in SUBSET DOMAIN entries
      PROVE  /\ MessagesAt(more, P) = MessagesAt(entries, P)
             /\ MessagesAt(more, P \cup {n + 1}) = Plus(MessagesAt(entries, P), m)
  <2>1. /\ MessagesAt(more, P) = MessagesAt(entries, P)
        /\ MessagesAt(more, P \cup {n + 1})
               = Plus(MessagesAt(entries, P), entry.message)
      BY <1>1, <1>3, MessagesAtMore DEF n
  <2> QED BY <1>1, <2>1
<1>10. /\ \A q, u : OfTurn(q, u) = MessagesAt(q, At1(q, u))
       /\ \A q, u, a : OfTurnBy(q, u, a) = MessagesAt(q, At2(q, u, a))
    BY DEF OfTurn, OfTurnBy, At1, At2
<1> QED BY <1>3, <1>4, <1>6, <1>7, <1>8, <1>9, <1>10

\* What a turn said, in types.
LEMMA SaidType ==
    ASSUME NEW M, NEW entries \in Thread(M), NEW t, NEW a
    PROVE  /\ OfTurn(entries, t) \in Seq(M)
           /\ OfTurnBy(entries, t, a) \in Seq(M)
BY MessagesAtType DEF OfTurn, OfTurnBy

-----------------------------------------------------------------------------
(* What an execution lets the user see.                                    *)

TextOnly(handoffs) ==
    \A i \in DOMAIN handoffs : handoffs[i].reason.stage = "text"

\* A specialist that may stream what it writes.
MayDraft(role, reason) ==
    \/ role = "user_researcher" /\ reason.stage # "research_brief"
    \/ role = "product_designer" /\ reason.stage # "prototype_brief"

\* Only a final reply and a specialist's draft are streamed; drafts only on the
\* way of a request passed on as text, whose reply is then streamed as well.
Voices(role, reason, env, e) ==
    /\ role \in Specialists => e.messages = <<>>
    /\ role \in Specialists /\ e.streamed =>
          MayDraft(role, reason) /\ env.deltas /\ TextOnly(e.handoffs)
    /\ role = Coordinator /\ e.handoffs # <<>> => ~ e.streamed
    /\ role = Coordinator /\ reason.stage = "text" =>
          e.handoffs = <<>> /\ e.streamed = env.deltas
    /\ \A i \in DOMAIN e.handoffs :
          MayDraft(e.handoffs[i].target, e.handoffs[i].reason) =>
              /\ role = Coordinator /\ reason.stage = "none"
              /\ e.handoffs[i].reason.stage = "text"

USE DEF Coordinator, Specialists, AgentRole, Asks, Kinds, Stages, Running, Ended

\* The coordinator streams its final reply only.
LEMMA CoordinatorVoices ==
    ASSUME NEW m \in UserMessage, NEW reason \in Reason, NEW recent,
           NEW env \in Environment,
           NEW e \in CoordinatorExecutions(m, reason, recent, env)
    PROVE  Voices(Coordinator, reason, env, e)
<1>1. ASSUME NEW kind, e \in Replies(kind, env)
      PROVE  Voices(Coordinator, reason, env, e)
    BY <1>1 DEF Replies, Plain, Voices
<1>2. ASSUME NEW target, NEW stage, e \in Kickoffs(target, stage),
             reason.stage = "none",
             ~ MayDraft(target, Demo(stage, "ready"))
      PROVE  Voices(Coordinator, reason, env, e)
    BY <1>2 DEF Kickoffs, Plain, To, Voices
<1>3. ASSUME NEW target, NEW next, e \in Delegates(target, next),
             reason.stage # "text",
             MayDraft(target, next) => reason.stage = "none" /\ next.stage = "text"
      PROVE  Voices(Coordinator, reason, env, e)
    BY <1>3 DEF Delegates, Plain, To, Voices
<1>4. CASE reason.stage = "none"
  <2>1. Text.stage = "text"
      BY DEF Text, Demo
  <2>2. CASE e \in Replies("out_of_scope", env)
      BY <2>2, <1>1
  <2>3. CASE e \in Kickoffs("user_researcher", "research_brief")
    <3>1. ~ MayDraft("user_researcher", Demo("research_brief", "ready"))
        BY DEF MayDraft, Demo
    <3> QED BY <1>4, <2>3, <3>1, <1>2
  <2>4. CASE e \in Kickoffs("product_manager", "prd_brief")
    <3>1. ~ MayDraft("product_manager", Demo("prd_brief", "ready"))
        BY DEF MayDraft, Demo
    <3> QED BY <1>4, <2>4, <3>1, <1>2
  <2>5. CASE e \in Kickoffs("product_designer", "prototype_brief")
    <3>1. ~ MayDraft("product_designer", Demo("prototype_brief", "ready"))
        BY DEF MayDraft, Demo
    <3> QED BY <1>4, <2>5, <3>1, <1>2
  <2>6. CASE e \in Delegates(DispatchTarget(m), Text)
      BY <2>1, <2>6, <1>3, <1>4
  <2> QED
      BY <1>4, <2>2, <2>3, <2>4, <2>5, <2>6 DEF CoordinatorExecutions, FirstMove
<1>5. CASE reason.stage # "none"
  <2>1. CASE e \in Delegates("product_manager", reason)
             /\ reason.stage = "research_findings"
    <3>1. ~ MayDraft("product_manager", reason)
        BY DEF MayDraft
    <3> QED BY <2>1, <3>1, <1>3
  <2>2. CASE e = PrdReadyReply(reason.persisted) /\ reason.stage = "prd_ready"
      BY <2>2 DEF PrdReadyReply, Plain, Voices
  <2>3. CASE \E kind \in Kinds : e \in Replies(kind, env)
      BY <2>3, <1>1
  <2> QED
      BY <1>5, <2>1, <2>2, <2>3 DEF CoordinatorExecutions, HandoffReply
<1> QED BY <1>4, <1>5

\* A specialist adds no message, and streams only where it works on a text.
LEMMA SpecialistVoices ==
    ASSUME NEW role \in Specialists, NEW m \in UserMessage,
           NEW reason \in Reason, NEW recent, NEW env \in Environment,
           NEW e \in Executions(role, m, reason, recent, env)
    PROVE  Voices(role, reason, env, e)
<1> USE DEF Finish, HandBack, Text, Demo, To, Voices, MayDraft, TextOnly
<1>1. CASE role = "product_manager"
  <2>1. CASE e \in PrdExecutions(env)
      BY <1>1, <2>1 DEF PrdExecutions
  <2>2. CASE \E stage \in {"options_summary", "text"}, acted \in BOOLEAN :
                 e = HandBack("product_manager", Demo(stage, "ready"), FALSE, acted)
      BY <1>1, <2>2
  <2> QED BY <1>1, <2>1, <2>2 DEF Executions, ProductManagerExecutions, MayAct
<1>2. CASE role = "user_researcher"
    BY <1>2 DEF Executions, UserResearcherExecutions, Environment
<1>3. CASE role = "product_designer"
    BY <1>3 DEF Executions, ProductDesignerExecutions, PrototypeOutcomes, Environment
<1>4. CASE role = "market_analyst"
    BY <1>4 DEF Executions, MarketAnalystExecutions
<1> QED BY <1>1, <1>2, <1>3, <1>4

\* So does every handler of the table.
LEMMA ResultsVoices ==
    ASSUME TypeOK, NEW t \in Turns, NEW e \in Results(t)
    PROVE  Voices(state[t].current, state[t].reason, task[t].env, e)
<1>1. /\ state[t].current \in AgentRole /\ state[t].reason \in Reason
      /\ request[t] \in UserMessage /\ task[t].env \in Environment
    BY DEF TypeOK, WorkflowState, Task
<1>2. CASE state[t].current = Coordinator
    BY <1>1, <1>2, CoordinatorVoices DEF Results, Executions
<1> QED BY <1>1, <1>2, SpecialistVoices DEF Results

-----------------------------------------------------------------------------
(* What the user has heard of a turn, at each of its places.               *)

Early == {"waiting", "toolset", "invoke", "dispatch"}

\* Before its execution is committed, a turn has shown what it said so far, and
\* of the execution what is announced at once or streamed.
Speaking(label, s, x, heard) ==
    LET e == x.exec IN
    /\ Voices(s.current, s.reason, x.env, e)
    /\ e.handoffs # <<>> =>
          /\ heard = (IF label = "emit" THEN s.turn ELSE s.turn \o e.messages)
          /\ x.published = heard
          /\ x.streamed => e.streamed
    /\ e.handoffs = <<>> =>
          /\ heard = (IF e.streamed THEN s.turn \o e.messages ELSE s.turn)
          /\ x.published = s.turn
          /\ x.streamed = e.streamed

\* x is the task of the turn, heard what the user has seen of it.
Voiced(label, s, x, heard) ==
    /\ label \in Early => heard = <<>> /\ x.published = <<>> /\ ~ x.streamed
    /\ label \in {"agent", "handoff"} => heard = s.turn /\ x.published = s.turn
    /\ label = "agent" /\ x.streamed =>
          s.current = Coordinator /\ s.reason.stage = "text" /\ x.env.deltas
    /\ label = "handoff" /\ x.streamed =>
          /\ x.env.deltas
          /\ \A i \in DOMAIN s.pending :
                /\ s.pending[i].target = Coordinator
                /\ s.pending[i].reason.stage = "text"
    /\ label \in {"emit", "commit"} => Speaking(label, s, x, heard)
    /\ label = "publish" =>
          /\ \E m \in Message : s.turn = x.published \o <<m>>
          /\ heard = (IF x.streamed THEN s.turn ELSE x.published)
    /\ label = "done" => heard = s.turn

VoiceInv == \A t \in Turns : Voiced(pc[t], state[t], task[t], Heard(t))

\* A step of turn t says nothing for the others.
LEMMA VoiceFrame ==
    ASSUME VoiceInv, NEW t \in Turns,
           \A u \in Turns \ {t} :
               /\ pc'[u] = pc[u] /\ state'[u] = state[u] /\ task'[u] = task[u]
               /\ Heard(u)' = Heard(u),
           Voiced(pc'[t], state'[t], task'[t], Heard(t)')
    PROVE  VoiceInv'
BY DEF VoiceInv

\* Nothing shown, nothing heard.
LEMMA HeardSame ==
    ASSUME shown' = shown
    PROVE  \A u \in Turns : Heard(u)' = Heard(u)
BY DEF Heard

\* At most one message shown.
LEMMA HeardMore ==
    ASSUME TypeOK, NEW t \in Turns, NEW messages,
           shown' = shown \o Entries(t, messages),
           messages = <<>> \/ \E m \in Displayed : messages = <<m>>
    PROVE  /\ \A u \in Turns \ {t} : Heard(u)' = Heard(u)
           /\ messages = <<>> => Heard(t)' = Heard(t)
           /\ \A m \in Displayed : messages = <<m>> =>
                 Heard(t)' = IF m.agent = Coordinator THEN Heard(t) \o <<m>>
                             ELSE Heard(t)
<1>1. shown \in Thread(Displayed)
    BY DEF TypeOK, Thread, Said
<1>2. CASE messages = <<>>
  <2>1. shown' = shown
      BY <1>1, <1>2, FewEntries DEF Thread
  <2> QED BY <1>2, <2>1, HeardSame
<1>3. ASSUME NEW m \in Displayed, messages = <<m>>
      PROVE  /\ \A u \in Turns \ {t} : Heard(u)' = Heard(u)
             /\ Heard(t)' = IF m.agent = Coordinator THEN Heard(t) \o <<m>>
                            ELSE Heard(t)
  <2> DEFINE more == shown \o Entries(t, <<m>>)
  <2>1. shown' = more
      BY <1>3
  <2>2. \A u : Heard(u)' = OfTurnBy(more, u, Coordinator)
      BY <2>1 DEF Heard
  <2>3. /\ OfTurnBy(more, t, m.agent) = Plus(OfTurnBy(shown, t, m.agent), m)
        /\ \A u, a : u # t \/ m.agent # a =>
              OfTurnBy(more, u, a) = OfTurnBy(shown, u, a)
    <3>1. more = Plus(shown, [turn |-> t, message |-> m])
        BY <1>1, FewEntries DEF Plus, Thread
    <3> HIDE DEF more, Displayed
    <3> QED BY <1>1, <1>3, <3>1, SaidMore
  <2> HIDE DEF more
  <2> QED BY <2>2, <2>3 DEF Heard, Plus
<1> QED BY <1>2, <1>3

\* Running an agent.
LEMMA RunVoiced ==
    ASSUME TypeOK, TurnInv, VoiceInv, NEW t \in Turns, NEW e \in Results(t),
           RunAgent(t, e)
    PROVE  VoiceInv'
<1> DEFINE s == state[t]
           x == task[t]
           role == s.current
           messages == Deltas(role, e)
<1>1. WellFormed(role, s.reason, e) /\ Voices(role, s.reason, x.env, e)
    BY ResultsWellFormed, ResultsVoices
<1>2. /\ pc[t] = "agent" /\ shown' = shown \o Entries(t, messages)
      /\ pc'[t] = "emit" /\ state' = state
      /\ task'[t].exec = e /\ task'[t].env = x.env
      /\ task'[t].published = x.published /\ task'[t].streamed = (x.streamed \/ e.streamed)
      /\ \A u \in Turns \ {t} : pc'[u] = pc[u] /\ task'[u] = task[u]
    BY DEF RunAgent, Goto, TypeOK, Task
<1>3. /\ s \in WorkflowState /\ x \in Task /\ role \in AgentRole
      /\ s.turn \in Seq(Message) /\ e.streamed \in BOOLEAN /\ x.streamed \in BOOLEAN
    BY <1>1 DEF TypeOK, WorkflowState, Task, WellFormed, Execution
<1>4. /\ Heard(t) = s.turn /\ x.published = s.turn
      /\ x.streamed => role = Coordinator /\ s.reason.stage = "text" /\ x.env.deltas
    BY <1>2 DEF VoiceInv, Voiced
<1>5. CASE e.handoffs # <<>>
  <2>1. messages = <<>> \/ (role \in Specialists /\ messages = <<Draft(role)>>)
      BY <1>1, <1>3, <1>5 DEF Voices, Deltas
  <2>2. role \in Specialists =>
            Draft(role) \in Displayed /\ Draft(role).agent # Coordinator
      BY <1>3 DEF Draft, Displayed
  <2>3. /\ Heard(t)' = Heard(t)
        /\ \A u \in Turns \ {t} : Heard(u)' = Heard(u)
      BY <1>2, <2>1, <2>2, HeardMore
  <2>4. ~ x.streamed
      BY <1>1, <1>4, <1>5 DEF Voices
  <2>5. Speaking("emit", s, task'[t], Heard(t)')
      BY <1>1, <1>2, <1>3, <1>4, <1>5, <2>3, <2>4 DEF Speaking
  <2>6. Voiced(pc'[t], state'[t], task'[t], Heard(t)')
      BY <1>2, <2>5 DEF Voiced, Early
  <2> QED BY <1>2, <2>3, <2>6, VoiceFrame
<1>6. CASE e.handoffs = <<>>
  <2>1. PICK m \in Remark(Kinds \ {"kickoff"}) : e.messages = <<m>>
      BY <1>1, <1>6 DEF WellFormed, PassesOn, Final
  <2>2. m \in Displayed /\ m.agent = Coordinator /\ role = Coordinator
      BY <1>1, <1>6, <2>1 DEF Remark, Displayed, Message, WellFormed, PassesOn
  <2>3. messages = IF e.streamed THEN <<m>> ELSE <<>>
      BY <2>1 DEF Deltas
  <2>4. /\ Heard(t)' = IF e.streamed THEN Heard(t) \o <<m>> ELSE Heard(t)
        /\ \A u \in Turns \ {t} : Heard(u)' = Heard(u)
    <3>1. CASE e.streamed
        BY <1>2, <2>2, <2>3, <3>1, HeardMore
    <3>2. CASE ~ e.streamed
        BY <1>2, <2>2, <2>3, <3>2, HeardMore
    <3> QED BY <3>1, <3>2
  <2>5. (x.streamed \/ e.streamed) = e.streamed
      BY <1>1, <1>3, <1>4 DEF Voices
  <2>6. Speaking("emit", s, task'[t], Heard(t)')
      BY <1>1, <1>2, <1>4, <1>6, <2>1, <2>4, <2>5 DEF Speaking
  <2>7. Voiced(pc'[t], state'[t], task'[t], Heard(t)')
      BY <1>2, <2>6 DEF Voiced, Early
  <2> QED BY <1>2, <2>4, <2>7, VoiceFrame
<1> QED BY <1>5, <1>6

\* Sending an acknowledgement.
LEMMA EmitVoiced ==
    ASSUME TypeOK, TurnInv, VoiceInv, NEW t \in Turns, EmitPublicMessages(t)
    PROVE  VoiceInv'
<1> DEFINE s == state[t]
           x == task[t]
           e == x.exec
           messages == Announced(e)
<1>1. /\ pc[t] = "emit" /\ shown' = shown \o Entries(t, messages)
      /\ pc'[t] = "commit" /\ state' = state
      /\ task'[t].exec = e /\ task'[t].env = x.env
      /\ task'[t].published = x.published \o messages
      /\ task'[t].streamed = x.streamed
      /\ \A u \in Turns \ {t} : pc'[u] = pc[u] /\ task'[u] = task[u]
    BY DEF EmitPublicMessages, Goto, TypeOK, Task
<1>2. WellFormed(s.current, s.reason, e) /\ Speaking("emit", s, x, Heard(t))
    BY <1>1 DEF TurnInv, Shape, VoiceInv, Voiced
<1>3. s.turn \in Seq(Message) /\ x.published \in Seq(Message)
    BY DEF TypeOK, WorkflowState, Task
<1>4. CASE e.handoffs # <<>>
  <2>1. messages = e.messages
      BY <1>4 DEF Announced
  <2>2. \/ e.messages = <<>>
        \/ \E m \in Remark({"kickoff"}) : e.messages = <<m>>
      BY <1>2, <1>4 DEF WellFormed, Final, PassesOn
  <2>3. \A m \in Remark({"kickoff"}) : m \in Displayed /\ m.agent = Coordinator
      BY DEF Remark, Displayed, Message
  <2>4. /\ Heard(t)' = s.turn \o e.messages
        /\ \A u \in Turns \ {t} : Heard(u)' = Heard(u)
    <3>1. Heard(t) = s.turn
        BY <1>2, <1>4 DEF Speaking
    <3>2. CASE e.messages = <<>>
        BY <1>1, <1>3, <2>1, <3>1, <3>2, HeardMore
    <3>3. CASE \E m \in Remark({"kickoff"}) : e.messages = <<m>>
        BY <1>1, <2>1, <2>3, <3>1, <3>3, HeardMore
    <3> QED BY <2>2, <3>2, <3>3
  <2>5. Speaking("commit", s, task'[t], Heard(t)')
      BY <1>1, <1>2, <1>4, <2>1, <2>4 DEF Speaking
  <2>6. Voiced(pc'[t], state'[t], task'[t], Heard(t)')
      BY <1>1, <2>5 DEF Voiced, Early
  <2> QED BY <1>1, <2>4, <2>6, VoiceFrame
<1>5. CASE e.handoffs = <<>>
  <2>1. messages = <<>>
      BY <1>5 DEF Announced
  <2>2. \A u \in Turns : Heard(u)' = Heard(u)
      BY <1>1, <2>1, HeardMore
  <2>3. x.published \o messages = x.published
      BY <1>3, <2>1
  <2>4. Speaking("commit", s, task'[t], Heard(t)')
      BY <1>1, <1>2, <1>5, <2>2, <2>3 DEF Speaking
  <2>5. Voiced(pc'[t], state'[t], task'[t], Heard(t)')
      BY <1>1, <2>4 DEF Voiced, Early
  <2> QED BY <1>1, <2>2, <2>5, VoiceFrame
<1> QED BY <1>4, <1>5

\* What a superstep leaves of a turn's task.
LEMMA SuperstepTask ==
    ASSUME TypeOK, NEW t \in Turns, NEW s, NEW label, Superstep(t, s, label)
    PROVE  /\ task'[t].published = task[t].published
           /\ task'[t].streamed = task[t].streamed
           /\ task'[t].env = task[t].env
BY DEF Superstep, TypeOK, Task

\* A superstep shows nothing.
LEMMA SuperstepVoiced ==
    ASSUME TypeOK, VoiceInv, NEW t \in Turns, NEW s, NEW label,
           Superstep(t, s, label), shown' = shown,
           \A x : /\ x.published = task[t].published
                  /\ x.streamed = task[t].streamed
                  /\ x.env = task[t].env
                  => Voiced(label, s, x, Heard(t))
    PROVE  VoiceInv'
<1>1. Voiced(label, s, task'[t], Heard(t))
    BY SuperstepTask
<1> QED BY <1>1, SuperstepEffect, HeardSame, VoiceFrame

\* Committing an execution.
LEMMA CommitVoiced ==
    ASSUME TypeOK, TurnInv, VoiceInv, NEW t \in Turns, CommitAgent(t)
    PROVE  VoiceInv'
<1> DEFINE s == state[t]
           e == task[t].exec
           r == AfterAgent(s, t, e)
           label == IF e.handoffs # <<>> THEN "handoff" ELSE "publish"
<1>1. Superstep(t, r, label) /\ pc[t] = "commit" /\ shown' = shown
    BY DEF CommitAgent
<1>2. WellFormed(s.current, s.reason, e) /\ Speaking("commit", s, task[t], Heard(t))
    BY <1>1 DEF TurnInv, Shape, VoiceInv, Voiced
<1>3. /\ s \in WorkflowState /\ e \in Execution /\ s.current \in AgentRole
      /\ s.turn \in Seq(Message)
    BY <1>2 DEF TypeOK, WorkflowState, WellFormed
<1>4. r.turn = s.turn \o e.messages /\ r.pending = e.handoffs
    BY <1>3, AfterAgentParts
<1> HIDE DEF r
<1>5. ASSUME NEW x, x.published = task[t].published,
             x.streamed = task[t].streamed, x.env = task[t].env
      PROVE  Voiced(label, r, x, Heard(t))
  <2>1. CASE e.handoffs # <<>>
    <3>1. /\ Heard(t) = r.turn /\ x.published = r.turn
          /\ x.streamed => e.streamed
        BY <1>2, <1>4, <1>5, <2>1 DEF Speaking
    <3>2. e.streamed => /\ s.current \in Specialists /\ x.env.deltas
                        /\ TextOnly(e.handoffs)
        BY <1>2, <1>3, <1>5, <2>1 DEF Speaking, Voices
    <3>3. s.current \in Specialists =>
              \A i \in DOMAIN e.handoffs : e.handoffs[i].target = Coordinator
        BY <1>2 DEF WellFormed, PassesOn
    <3> QED BY <1>4, <2>1, <3>1, <3>2, <3>3 DEF Voiced, Early, TextOnly
  <2>2. CASE e.handoffs = <<>>
    <3>1. PICK m \in Remark(Kinds \ {"kickoff"}) : e.messages = <<m>>
        BY <1>2, <2>2 DEF WellFormed, PassesOn, Final
    <3>2. m \in Message
        BY DEF Remark, Message
    <3>3. /\ r.turn = x.published \o <<m>>
          /\ Heard(t) = (IF x.streamed THEN r.turn ELSE x.published)
        BY <1>2, <1>4, <1>5, <2>2, <3>1 DEF Speaking
    <3> QED BY <2>2, <3>2, <3>3 DEF Voiced, Early
  <2> QED BY <2>1, <2>2
<1> HIDE DEF label
<1> QED BY <1>1, <1>5, SuperstepVoiced

\* The last element by itself.
LEMMA LastAlone ==
    ASSUME NEW S, NEW q \in Seq(S), NEW n \in Nat, Len(q) = n + 1
    PROVE  SubSeq(q, n + 1, Len(q)) = <<q[n + 1]>>
<1> DEFINE rest == SubSeq(q, n + 1, Len(q))
<1>1. rest \in Seq(S) /\ Len(rest) = 1 /\ rest[1] = q[n + 1]
    OBVIOUS
<1> HIDE DEF rest
<1>2. rest = [i \in 1..1 |-> rest[i]]
    BY <1>1
<1>3. rest = <<rest[1]>>
    BY <1>1
<1> QED BY <1>1, <1>3 DEF rest

\* What is left to publish of a reply is its last message, unless it was streamed.
LEMMA LeftToSay ==
    ASSUME TypeOK, TurnInv, VoiceInv, NEW t \in Turns, pc[t] = "publish"
    PROVE  LET s == state[t]
               x == task[t]
               m == s.turn[Len(s.turn)]
           IN  /\ m \in Message /\ m.agent = Coordinator
               /\ s.turn = x.published \o <<m>>
               /\ Heard(t) = (IF x.streamed THEN s.turn ELSE x.published)
               /\ Unsent(s.turn, x.published, x.streamed)
                      = IF x.streamed THEN <<>> ELSE <<m>>
<1> DEFINE s == state[t]
           x == task[t]
           messages == Unsent(s.turn, x.published, x.streamed)
<1>1. /\ \E m \in Message : s.turn = x.published \o <<m>>
      /\ Heard(t) = (IF x.streamed THEN s.turn ELSE x.published)
      /\ Answered(s.turn)
    BY DEF TurnInv, Shape, VoiceInv, Voiced
<1>2. PICK m \in Message : s.turn = x.published \o <<m>>
    BY <1>1
<1>3. x.published \in Seq(Message)
    BY DEF TypeOK, Task
<1>4. /\ Len(s.turn) = Len(x.published) + 1 /\ Len(x.published) \in Nat
      /\ \A i \in 1..Len(x.published) : s.turn[i] = x.published[i]
      /\ s.turn[Len(x.published) + 1] = m /\ s.turn \in Seq(Message)
      /\ DOMAIN s.turn = 1..(Len(x.published) + 1)
    BY <1>2, <1>3, OneMore
<1>5. m.agent = Coordinator
  <2>1. s.turn[Len(x.published) + 1].agent = Coordinator
    <3>1. Len(x.published) + 1 \in DOMAIN s.turn
        BY <1>4
    <3> HIDE DEF s, x
    <3> QED BY <1>1, <3>1 DEF Answered
  <2> QED BY <1>4, <2>1
<1>6. messages = IF x.streamed THEN <<>> ELSE <<m>>
  <2>1. SubSeq(s.turn, 1, Len(x.published)) = x.published
      BY <1>3, <1>4
  <2>2. SubSeq(s.turn, Len(x.published) + 1, Len(s.turn)) = <<m>>
      BY <1>4, LastAlone
  <2>3. messages = IF x.streamed THEN <<>>
                   ELSE SubSeq(s.turn, Len(x.published) + 1, Len(s.turn))
      BY <1>4, <2>1 DEF Unsent
  <2> QED BY <2>2, <2>3
<1> HIDE DEF messages
<1>7. m = s.turn[Len(s.turn)]
    BY <1>4
<1> QED BY <1>1, <1>2, <1>5, <1>6, <1>7 DEF messages

\* Publishing what is left of the reply.
LEMMA PublishVoiced ==
    ASSUME TypeOK, TurnInv, VoiceInv, NEW t \in Turns, PublishTranscript(t)
    PROVE  /\ VoiceInv' /\ Heard(t)' = state[t].turn
           /\ \A u \in Turns \ {t} : Heard(u)' = Heard(u)
<1> DEFINE s == state[t]
           x == task[t]
           m == s.turn[Len(s.turn)]
           messages == Unsent(s.turn, x.published, x.streamed)
<1>1. /\ pc[t] = "publish" /\ shown' = shown \o Entries(t, messages)
      /\ pc'[t] = "done" /\ state' = state
      /\ \A u \in Turns \ {t} : pc'[u] = pc[u] /\ task'[u] = task[u]
    BY DEF PublishTranscript, Goto, TypeOK
<1>2. /\ m \in Message /\ m.agent = Coordinator /\ s.turn = x.published \o <<m>>
      /\ Heard(t) = (IF x.streamed THEN s.turn ELSE x.published)
      /\ messages = IF x.streamed THEN <<>> ELSE <<m>>
    BY <1>1, LeftToSay
<1> HIDE DEF messages, m
<1>3. m \in Displayed
    BY <1>2 DEF Displayed
<1>4. /\ Heard(t)' = s.turn
      /\ \A u \in Turns \ {t} : Heard(u)' = Heard(u)
  <2>1. CASE x.streamed
      BY <1>1, <1>2, <2>1, HeardMore
  <2>2. CASE ~ x.streamed
      BY <1>1, <1>2, <1>3, <2>2, HeardMore
  <2> QED BY <2>1, <2>2
<1>5. Voiced(pc'[t], state'[t], task'[t], Heard(t)')
    BY <1>1, <1>4 DEF Voiced, Early
<1> QED BY <1>1, <1>4, <1>5, VoiceFrame

\* At every place of every turn the user has heard what the place implies.
THEOREM VoiceKept == Spec => []VoiceInv
<1>1. Init => VoiceInv
  <2> SUFFICES ASSUME Init PROVE VoiceInv
      OBVIOUS
  <2>1. ASSUME NEW t \in Turns
        PROVE  Heard(t) = <<>>
    <3>1. shown = <<>> /\ shown \in Thread(Displayed)
        BY DEF Init, Thread
    <3>2. {i \in DOMAIN shown : /\ shown[i].turn = t
                                /\ shown[i].message.agent = Coordinator} = {}
        BY <3>1
    <3> QED BY <3>1, <3>2, MessagesAtType DEF Heard, OfTurnBy
  <2> QED BY <2>1 DEF Init, VoiceInv, Voiced, NewTask
<1>2. TypeOK /\ TurnInv /\ VoiceInv /\ [Next]_vars => VoiceInv'
  <2> SUFFICES ASSUME TypeOK, TurnInv, VoiceInv, [Next]_vars PROVE VoiceInv'
      OBVIOUS
  <2>0. ASSUME NEW t \in Turns
        PROVE  Voiced(pc[t], state[t], task[t], Heard(t)) /\ state[t] \in WorkflowState
      BY DEF VoiceInv, TypeOK
  <2>1. ASSUME NEW t \in Turns, NEW m \in Messages, Receive(t, m)
        PROVE  VoiceInv'
    <3>1. Voiced("toolset", state[t], task[t], Heard(t))
        BY <2>0, <2>1 DEF Receive, Voiced, Early
    <3> QED BY <2>1, <3>1, HeardSame, VoiceFrame DEF Receive, Goto, TypeOK
  <2>2. ASSUME NEW t \in Turns, NEW env \in Environments,
               InitializeToolset(t, env)
        PROVE  VoiceInv'
    <3>1. /\ task'[t].published = task[t].published
          /\ task'[t].streamed = task[t].streamed
          /\ pc[t] = "toolset" /\ pc'[t] = "invoke" /\ UNCHANGED <<state, shown>>
          /\ \A u \in Turns \ {t} : pc'[u] = pc[u] /\ task'[u] = task[u]
        BY <2>2 DEF InitializeToolset, Goto, TypeOK, Task
    <3>2. Voiced("invoke", state[t], task'[t], Heard(t))
        BY <2>0, <3>1 DEF Voiced, Early
    <3> QED BY <3>1, <3>2, HeardSame, VoiceFrame
  <2>3. ASSUME NEW t \in Turns, Invoke(t)
        PROVE  VoiceInv'
    <3>1. Voiced("dispatch", InitialState(checkpoint), task[t], Heard(t))
        BY <2>0, <2>3 DEF Invoke, Voiced, Early
    <3> QED BY <2>3, <3>1, HeardSame, VoiceFrame DEF Invoke, Goto, TypeOK
  <2>4. ASSUME NEW t \in Turns, DispatchNode(t)
        PROVE  VoiceInv'
    <3>1. AfterDispatch(state[t]).turn = <<>>
        BY <2>0 DEF AfterDispatch, WorkflowState
    <3>2. /\ Heard(t) = <<>> /\ task[t].published = <<>> /\ ~ task[t].streamed
        BY <2>0, <2>4 DEF DispatchNode, Voiced, Early
    <3>3. \A x : /\ x.published = task[t].published
                 /\ x.streamed = task[t].streamed
                 /\ x.env = task[t].env
                 => Voiced("agent", AfterDispatch(state[t]), x, Heard(t))
        BY <3>1, <3>2 DEF Voiced, Early
    <3> QED BY <2>4, <3>3, SuperstepVoiced DEF DispatchNode
  <2>5. ASSUME NEW t \in Turns, NEW e \in Results(t), RunAgent(t, e)
        PROVE  VoiceInv'
      BY <2>5, RunVoiced
  <2>6. ASSUME NEW t \in Turns, EmitPublicMessages(t)
        PROVE  VoiceInv'
      BY <2>6, EmitVoiced
  <2>7. ASSUME NEW t \in Turns, CommitAgent(t)
        PROVE  VoiceInv'
      BY <2>7, CommitVoiced
  <2>8. ASSUME NEW t \in Turns, HandoffNode(t)
        PROVE  VoiceInv'
    <3> DEFINE s == state[t]
               r == AfterHandoff(s)
    <3>1. Superstep(t, r, "agent") /\ pc[t] = "handoff" /\ shown' = shown
          /\ s.pending # <<>> /\ s \in WorkflowState
        BY <2>0, <2>8 DEF HandoffNode
    <3>2. /\ r.turn = s.turn /\ r.current = Head(s.pending).target
          /\ r.reason = Head(s.pending).reason
        BY <3>1 DEF AfterHandoff, WorkflowState
    <3>3. s.pending \in Seq(Handoff)
        BY <3>1 DEF WorkflowState
    <3>4. 1 \in DOMAIN s.pending /\ Head(s.pending) = s.pending[1]
        BY <3>1, <3>3
    <3>5. Voiced("handoff", s, task[t], Heard(t))
        BY <2>0, <3>1
    <3> HIDE DEF r, s
    <3>6. \A x : /\ x.published = task[t].published
                 /\ x.streamed = task[t].streamed
                 /\ x.env = task[t].env
                 => Voiced("agent", r, x, Heard(t))
        BY <3>2, <3>4, <3>5 DEF Voiced, Early
    <3> QED BY <3>1, <3>6, SuperstepVoiced
  <2>9. ASSUME NEW t \in Turns, PublishTranscript(t)
        PROVE  VoiceInv'
      BY <2>9, PublishVoiced
  <2>10. ASSUME NEW t \in Turns, FailStep(t)
         PROVE  VoiceInv'
    <3>1. Voiced("failing", state[t], task[t], Heard(t))
        BY DEF Voiced, Early
    <3> QED BY <2>10, <3>1, HeardSame, VoiceFrame DEF FailStep, Goto, TypeOK
  <2>11. ASSUME NEW t \in Turns, ReportError(t)
         PROVE  VoiceInv'
    <3>1. Voiced("failed", state'[t], task'[t], Heard(t))
        BY DEF Voiced, Early
    <3> QED BY <2>11, <3>1, HeardSame, VoiceFrame DEF ReportError, Goto, TypeOK
  <2>12. CASE Persist
      BY <2>12, HeardSame DEF Persist, VoiceInv
  <2>13. CASE Crash
    <3> SUFFICES ASSUME NEW t \in Turns
                 PROVE  Voiced(pc'[t], state'[t], task'[t], Heard(t)')
        BY DEF VoiceInv
    <3>1. task'[t] = NewTask /\ shown' = shown
        BY <2>13 DEF Crash
    <3>2. CASE t \in Active
      <4>1. pc'[t] = "lost"
          BY <2>13, <3>2 DEF Crash
      <4> QED BY <4>1 DEF Voiced, Early
    <3>3. CASE t \notin Active
      <4>1. pc[t] \in {"waiting"} \cup Ended /\ pc'[t] = pc[t] /\ state'[t] = state[t]
          BY <2>13, <3>3 DEF Active, TypeOK, Crash
      <4>2. Heard(t)' = Heard(t)
          BY <3>1, HeardSame
      <4> QED BY <2>0, <3>1, <4>1, <4>2 DEF Voiced, Early, NewTask
    <3> QED BY <3>2, <3>3
  <2>14. CASE UNCHANGED vars
      BY <2>14, HeardSame DEF VoiceInv, vars
  <2> QED
      BY <2>1, <2>2, <2>3, <2>4, <2>5, <2>6, <2>7, <2>8, <2>9, <2>10, <2>11,
         <2>12, <2>13, <2>14 DEF Next, Progress
<1> QED
    BY <1>1, <1>2, TypeCorrect, TurnShape, PTL DEF Spec

\* Acknowledgements sent on the way, the streamed reply and what is published at
\* the end show each message of a finished turn once and in order, however turns
\* overlap in the thread.
THEOREM RepliesShownOnce == Spec => []ShownOnceInOrder
<1>1. VoiceInv => ShownOnceInOrder
    BY DEF VoiceInv, Voiced, ShownOnceInOrder
<1> QED BY <1>1, VoiceKept, PTL

-----------------------------------------------------------------------------
(* The drafts of the demo's artifacts stay private.                        *)

\* A specialist's draft of turn t was streamed to the thread.
Drafted(t) ==
    \E i \in DOMAIN shown :
        shown[i].turn = t /\ shown[i].message.agent # Coordinator

\* A text handed back to the coordinator.
Returned(handoffs) ==
    /\ TextOnly(handoffs)
    /\ \A i \in DOMAIN handoffs : handoffs[i].target = Coordinator

\* Who may draft, or is about to, works on a request passed on as a text.
Drafting(label, s) ==
    /\ label \in {"agent", "emit", "commit"} /\ MayDraft(s.current, s.reason) =>
          TextOnly(s.handoffs)
    /\ label = "handoff" =>
          \A i \in DOMAIN s.pending :
              MayDraft(s.pending[i].target, s.pending[i].reason) =>
                  TextOnly(s.handoffs)

\* After a draft the turn only has its reply to write.
Replying(label, s, e) ==
    /\ label \notin Early
    /\ TextOnly(s.handoffs)
    /\ label = "agent" => s.current = Coordinator /\ s.reason.stage = "text"
    /\ label \in {"emit", "commit"} => Returned(e.handoffs)
    /\ label = "handoff" => Returned(s.pending)

DraftInv ==
    \A t \in Turns :
        /\ Drafting(pc[t], state[t])
        /\ Drafted(t) => Replying(pc[t], state[t], task[t].exec)

\* The graph of another turn does not matter, nor what is shown of it.
LEMMA DraftFrame ==
    ASSUME DraftInv, NEW t \in Turns,
           \A u \in Turns \ {t} :
               /\ pc'[u] = pc[u] /\ state'[u] = state[u]
               /\ task'[u].exec = task[u].exec
               /\ Drafted(u)' => Drafted(u),
           Drafting(pc'[t], state'[t]),
           Drafted(t)' => Replying(pc'[t], state'[t], task'[t].exec)
    PROVE  DraftInv'
BY DEF DraftInv

\* Nothing shown, no draft.
LEMMA DraftedSame ==
    ASSUME shown' = shown
    PROVE  \A u \in Turns : Drafted(u)' = Drafted(u)
BY DEF Drafted

\* A draft is a message of its turn that is not the coordinator's.
LEMMA DraftedMore ==
    ASSUME TypeOK, NEW t \in Turns, NEW messages \in Seq(Displayed),
           shown' = shown \o Entries(t, messages)
    PROVE  /\ \A u \in Turns \ {t} : Drafted(u)' => Drafted(u)
           /\ Drafted(t)' => \/ Drafted(t)
                             \/ \E i \in DOMAIN messages :
                                   messages[i].agent # Coordinator
<1> DEFINE new == Entries(t, messages)
<1>1. /\ DOMAIN new = DOMAIN messages
      /\ \A i \in DOMAIN messages : new[i] = [turn |-> t, message |-> messages[i]]
    BY EntriesElements
<1>2. new \in Seq([turn : Turns, message : Displayed])
    BY EntriesType
<1>3. Joined(shown, new, shown')
    BY <1>2, Concatenation DEF TypeOK
<1> HIDE DEF new
<1>4. \A i \in DOMAIN shown' :
          \/ \E j \in DOMAIN shown : shown'[i] = shown[j]
          \/ \E j \in DOMAIN messages :
                 shown'[i] = [turn |-> t, message |-> messages[j]]
    BY <1>1, <1>3 DEF Joined
<1>5. ASSUME NEW u \in Turns, Drafted(u)'
      PROVE  \/ Drafted(u)
             \/ u = t /\ \E j \in DOMAIN messages : messages[j].agent # Coordinator
  <2>1. PICK i \in DOMAIN shown' :
            shown'[i].turn = u /\ shown'[i].message.agent # Coordinator
      BY <1>5 DEF Drafted
  <2>2. CASE \E j \in DOMAIN shown : shown'[i] = shown[j]
      BY <2>1, <2>2 DEF Drafted
  <2>3. ASSUME NEW j \in DOMAIN messages,
               shown'[i] = [turn |-> t, message |-> messages[j]]
        PROVE  u = t /\ messages[j].agent # Coordinator
      BY <2>1, <2>3
  <2> QED BY <1>4, <2>2, <2>3
<1> QED BY <1>5

\* A superstep shows no draft.
LEMMA SuperstepDrafts ==
    ASSUME TypeOK, DraftInv, NEW t \in Turns, NEW s, NEW label,
           Superstep(t, s, label), shown' = shown, Drafting(label, s),
           Drafted(t) => \A e : Replying(label, s, e)
    PROVE  DraftInv'
BY SuperstepEffect, DraftedSame, DraftFrame

\* Running an agent: who drafts hands a text back, after texts only.
LEMMA RunDrafts ==
    ASSUME TypeOK, TurnInv, DraftInv, NEW t \in Turns, NEW e \in Results(t),
           RunAgent(t, e)
    PROVE  DraftInv'
<1> DEFINE s == state[t]
           role == s.current
           messages == Deltas(role, e)
<1>1. WellFormed(role, s.reason, e) /\ Voices(role, s.reason, task[t].env, e)
    BY ResultsWellFormed, ResultsVoices
<1>2. /\ pc[t] = "agent" /\ shown' = shown \o Entries(t, messages)
      /\ pc'[t] = "emit" /\ state' = state /\ task'[t].exec = e
      /\ \A u \in Turns \ {t} : pc'[u] = pc[u] /\ task'[u] = task[u]
    BY DEF RunAgent, Goto, TypeOK, Task
<1>3. Drafting("agent", s) /\ (Drafted(t) => Replying("agent", s, task[t].exec))
    BY <1>2 DEF DraftInv
<1>4. Drafting("emit", s)
    BY <1>3 DEF Drafting
<1>5. role \in AgentRole /\ e.messages \in Seq(Message)
    BY <1>1 DEF TypeOK, WorkflowState, WellFormed, Execution
<1>6. messages \in Seq(Displayed)
    BY <1>1, <1>5, ShownType DEF WellFormed
<1>7. \A i \in DOMAIN e.messages : e.messages[i].agent = Coordinator
    BY <1>1 DEF WellFormed, Final, PassesOn, Remark
<1>8. (\E i \in DOMAIN messages : messages[i].agent # Coordinator)
          => role \in Specialists /\ e.streamed
    BY <1>5, <1>7 DEF Deltas, Draft
<1>9. ASSUME role \in Specialists, e.streamed
      PROVE  Replying("emit", s, e)
    BY <1>1, <1>3, <1>9 DEF Voices, WellFormed, PassesOn, Drafting, Replying, Returned,
                            TextOnly, Early
<1>10. ASSUME Drafted(t)
       PROVE  Replying("emit", s, e)
  <2>1. e.handoffs = <<>> /\ TextOnly(s.handoffs)
      BY <1>1, <1>3, <1>10 DEF Replying, Voices
  <2> QED BY <2>1 DEF Replying, Returned, TextOnly, Early
<1> HIDE DEF messages
<1>11. /\ \A u \in Turns \ {t} : Drafted(u)' => Drafted(u)
       /\ Drafted(t)' => Replying("emit", s, e)
    BY <1>2, <1>6, <1>8, <1>9, <1>10, DraftedMore
<1> QED BY <1>2, <1>4, <1>11, DraftFrame

\* Committing an execution: a text is drafted at the first handoff only.
LEMMA CommitDrafts ==
    ASSUME TypeOK, TurnInv, VoiceInv, DraftInv, NEW t \in Turns, CommitAgent(t)
    PROVE  DraftInv'
<1> DEFINE s == state[t]
           e == task[t].exec
           r == AfterAgent(s, t, e)
           label == IF e.handoffs # <<>> THEN "handoff" ELSE "publish"
<1>1. Superstep(t, r, label) /\ pc[t] = "commit" /\ shown' = shown
    BY DEF CommitAgent
<1>2. /\ AtWork(s, task[t].steps) /\ WellFormed(s.current, s.reason, e)
      /\ Voices(s.current, s.reason, task[t].env, e)
    BY <1>1 DEF TurnInv, Shape, VoiceInv, Voiced, Speaking
<1>3. /\ s \in WorkflowState /\ e \in Execution /\ s.handoffs \in Seq(Handoff)
      /\ e.handoffs \in Seq(Handoff)
    BY <1>2 DEF TypeOK, WorkflowState, WellFormed, Execution
<1>4. r.handoffs = s.handoffs \o e.handoffs /\ r.pending = e.handoffs
    BY <1>3, AfterAgentParts
<1>5. Drafted(t) => Replying("commit", s, e)
    BY <1>1 DEF DraftInv
<1> HIDE DEF r
<1>6. TextOnly(s.handoffs) /\ TextOnly(e.handoffs) => TextOnly(r.handoffs)
  <2>1. Joined(s.handoffs, e.handoffs, r.handoffs)
      BY <1>3, <1>4, Concatenation
  <2> QED BY <2>1 DEF Joined, TextOnly
<1>7. ASSUME NEW i \in DOMAIN e.handoffs,
             MayDraft(e.handoffs[i].target, e.handoffs[i].reason)
      PROVE  TextOnly(r.handoffs)
  <2>1. /\ s.current = Coordinator /\ s.reason.stage = "none"
        /\ e.handoffs[i].reason.stage = "text"
      BY <1>2, <1>7 DEF Voices
  <2>2. Rank(s.current, s.reason) = 4
      BY <2>1 DEF Rank
  <2>3. Len(s.handoffs) = 0
      BY <1>2, <1>3, <2>2 DEF AtWork
  <2>4. TextOnly(s.handoffs)
      BY <1>3, <2>3 DEF TextOnly
  <2>5. PICK h : e.handoffs = <<h>>
      BY <1>2, <1>7 DEF WellFormed, Final, PassesOn
  <2>6. TextOnly(e.handoffs)
      BY <2>1, <2>5, <1>7 DEF TextOnly
  <2> QED BY <1>6, <2>4, <2>6
<1>8. Drafting(label, r)
    BY <1>4, <1>7 DEF Drafting
<1>9. ASSUME Drafted(t), NEW d
      PROVE  Replying(label, r, d)
    BY <1>4, <1>5, <1>6, <1>9 DEF Replying, Returned, Early
<1> HIDE DEF label
<1> QED BY <1>1, <1>8, <1>9, SuperstepDrafts

\* What a finished turn publishes is the coordinator's.
LEMMA PublishDrafts ==
    ASSUME TypeOK, TurnInv, DraftInv, NEW t \in Turns, PublishTranscript(t)
    PROVE  DraftInv'
<1> DEFINE s == state[t]
           messages == Unsent(s.turn, task[t].published, task[t].streamed)
<1>1. /\ pc[t] = "publish" /\ shown' = shown \o Entries(t, messages)
      /\ pc'[t] = "done" /\ state' = state
      /\ \A u \in Turns \ {t} : pc'[u] = pc[u] /\ task'[u] = task[u]
    BY DEF PublishTranscript, Goto, TypeOK
<1>2. /\ s.turn \in Seq(Message) /\ task[t].published \in Seq(Message)
      /\ task[t].streamed \in BOOLEAN
    BY DEF TypeOK, WorkflowState, Task
<1>3. Answered(s.turn)
    BY <1>1 DEF TurnInv, Shape
<1>4. \A i \in DOMAIN messages : messages[i].agent = Coordinator
    BY <1>2, <1>3, UnsentElements DEF Answered
<1>5. messages \in Seq(Displayed)
  <2>1. messages \in Seq(Message)
      BY <1>2, UnsentType
  <2> HIDE DEF messages
  <2> QED BY <2>1 DEF Displayed
<1> HIDE DEF messages
<1>6. \A u \in Turns : Drafted(u)' => Drafted(u)
    BY <1>1, <1>4, <1>5, DraftedMore
<1>7. Drafted(t) => Replying("publish", s, task[t].exec)
    BY <1>1 DEF DraftInv
<1>8. Drafting("done", s) /\ (Drafted(t) => Replying("done", s, task'[t].exec))
    BY <1>7 DEF Drafting, Replying, Early
<1> QED BY <1>1, <1>6, <1>8, DraftFrame

\* Whoever drafts, and whoever resumes after a draft, works for a text.
THEOREM DraftsKept == Spec => []DraftInv
<1>1. Init => DraftInv
  <2> SUFFICES ASSUME Init PROVE DraftInv
      OBVIOUS
  <2>1. ASSUME NEW t \in Turns
        PROVE  Drafting(pc[t], state[t]) /\ ~ Drafted(t)
      BY DEF Init, Drafting, Drafted
  <2> QED BY <2>1 DEF DraftInv
<1>2. TypeOK /\ TurnInv /\ VoiceInv /\ DraftInv /\ [Next]_vars => DraftInv'
  <2> SUFFICES ASSUME TypeOK, TurnInv, VoiceInv, DraftInv, [Next]_vars
               PROVE  DraftInv'
      OBVIOUS
  <2>0. ASSUME NEW t \in Turns
        PROVE  /\ Drafting(pc[t], state[t])
               /\ Drafted(t) => Replying(pc[t], state[t], task[t].exec)
               /\ state[t] \in WorkflowState
      BY DEF DraftInv, TypeOK
  <2>1. ASSUME NEW t \in Turns, NEW m \in Messages, Receive(t, m)
        PROVE  DraftInv'
    <3>1. Drafting("toolset", state[t]) /\ ~ Drafted(t)
        BY <2>0, <2>1 DEF Receive, Drafting, Replying, Early
    <3> QED BY <2>1, <3>1, DraftedSame, DraftFrame DEF Receive, Goto, TypeOK
  <2>2. ASSUME NEW t \in Turns, NEW env \in Environments,
               InitializeToolset(t, env)
        PROVE  DraftInv'
    <3>1. Drafting("invoke", state[t]) /\ ~ Drafted(t)
        BY <2>0, <2>2 DEF InitializeToolset, Drafting, Replying, Early
    <3> QED BY <2>2, <3>1, DraftedSame, DraftFrame DEF InitializeToolset, Goto, TypeOK
  <2>3. ASSUME NEW t \in Turns, Invoke(t)
        PROVE  DraftInv'
    <3>1. Drafting("dispatch", InitialState(checkpoint)) /\ ~ Drafted(t)
        BY <2>0, <2>3 DEF Invoke, Drafting, Replying, Early
    <3> QED BY <2>3, <3>1, DraftedSame, DraftFrame DEF Invoke, Goto, TypeOK
  <2>4. ASSUME NEW t \in Turns, DispatchNode(t)
        PROVE  DraftInv'
    <3>1. AfterDispatch(state[t]).handoffs = <<>>
        BY <2>0 DEF AfterDispatch, WorkflowState
    <3>2. TextOnly(AfterDispatch(state[t]).handoffs)
        BY <3>1 DEF TextOnly
    <3>3. Drafting("agent", AfterDispatch(state[t])) /\ ~ Drafted(t)
        BY <2>0, <2>4, <3>2 DEF DispatchNode, Drafting, Replying, Early
    <3> QED BY <2>4, <3>3, SuperstepDrafts DEF DispatchNode
  <2>5. ASSUME NEW t \in Turns, NEW e \in Results(t), RunAgent(t, e)
        PROVE  DraftInv'
      BY <2>5, RunDrafts
  <2>6. ASSUME NEW t \in Turns, EmitPublicMessages(t)
        PROVE  DraftInv'
    <3> DEFINE messages == Announced(task[t].exec)
    <3>1. /\ pc[t] = "emit" /\ shown' = shown \o Entries(t, messages)
          /\ pc'[t] = "commit" /\ state' = state
          /\ task'[t].exec = task[t].exec
          /\ \A u \in Turns \ {t} : pc'[u] = pc[u] /\ task'[u] = task[u]
        BY <2>6 DEF EmitPublicMessages, Goto, TypeOK, Task
    <3>2. WellFormed(state[t].current, state[t].reason, task[t].exec)
        BY <3>1 DEF TurnInv, Shape
    <3>3. \A i \in DOMAIN messages : messages[i].agent = Coordinator
        BY <3>2 DEF Announced, WellFormed, Final, PassesOn, Remark
    <3>4. messages \in Seq(Displayed)
      <4>1. messages \in Seq(Message)
          BY <3>2, ShownType DEF WellFormed
      <4> HIDE DEF messages
      <4> QED BY <4>1 DEF Displayed
    <3> HIDE DEF messages
    <3>5. \A u \in Turns : Drafted(u)' => Drafted(u)
        BY <3>1, <3>3, <3>4, DraftedMore
    <3>6. /\ Drafting("commit", state[t])
          /\ Drafted(t) => Replying("commit", state[t], task[t].exec)
        BY <2>0, <3>1 DEF Drafting, Replying, Early
    <3> QED BY <3>1, <3>5, <3>6, DraftFrame
  <2>7. ASSUME NEW t \in Turns, CommitAgent(t)
        PROVE  DraftInv'
      BY <2>7, CommitDrafts
  <2>8. ASSUME NEW t \in Turns, HandoffNode(t)
        PROVE  DraftInv'
    <3> DEFINE s == state[t]
               r == AfterHandoff(s)
    <3>1. Superstep(t, r, "agent") /\ pc[t] = "handoff" /\ shown' = shown
          /\ s.pending # <<>> /\ s \in WorkflowState
        BY <2>0, <2>8 DEF HandoffNode
    <3>2. s.pending \in Seq(Handoff)
        BY <3>1 DEF WorkflowState
    <3>3. 1 \in DOMAIN s.pending /\ Head(s.pending) = s.pending[1]
        BY <3>1, <3>2
    <3>4. /\ r.current = s.pending[1].target /\ r.reason = s.pending[1].reason
          /\ r.handoffs = s.handoffs
        BY <3>1, <3>3 DEF AfterHandoff, WorkflowState
    <3>5. /\ Drafting("handoff", s)
          /\ Drafted(t) => Replying("handoff", s, task[t].exec)
        BY <2>0, <3>1
    <3> HIDE DEF r, s
    <3>6. Drafting("agent", r)
        BY <3>3, <3>4, <3>5 DEF Drafting
    <3>7. Drafted(t) => \A e : Replying("agent", r, e)
        BY <3>3, <3>4, <3>5 DEF Replying, Returned, TextOnly, Early
    <3> QED BY <3>1, <3>6, <3>7, SuperstepDrafts
  <2>9. ASSUME NEW t \in Turns, PublishTranscript(t)
        PROVE  DraftInv'
      BY <2>9, PublishDrafts
  <2>10. ASSUME NEW t \in Turns, FailStep(t)
         PROVE  DraftInv'
    <3>1. /\ Drafting("failing", state[t])
          /\ Drafted(t) => Replying("failing", state[t], task[t].exec)
        BY <2>0 DEF Drafting, Replying, Early
    <3> QED BY <2>10, <3>1, DraftedSame, DraftFrame DEF FailStep, Goto, TypeOK
  <2>11. ASSUME NEW t \in Turns, ReportError(t)
         PROVE  DraftInv'
    <3>1. /\ state'[t].handoffs = <<>> /\ pc'[t] = "failed" /\ shown' = shown
          /\ \A u \in Turns \ {t} :
                pc'[u] = pc[u] /\ state'[u] = state[u] /\ task'[u] = task[u]
        BY <2>11 DEF ReportError, InitialState, Goto, TypeOK
    <3>2. \A e : Replying("failed", state'[t], e)
        BY <3>1 DEF Replying, TextOnly, Early
    <3>3. Drafting("failed", state'[t])
        BY DEF Drafting
    <3> QED BY <3>1, <3>2, <3>3, DraftedSame, DraftFrame
  <2>12. CASE Persist
      BY <2>12, DraftedSame DEF Persist, DraftInv
  <2>13. CASE Crash
    <3> SUFFICES ASSUME NEW t \in Turns
                 PROVE  /\ Drafting(pc'[t], state'[t])
                        /\ Drafted(t)' => Replying(pc'[t], state'[t], task'[t].exec)
        BY DEF DraftInv
    <3>1. Drafted(t)' = Drafted(t)
        BY <2>13, DraftedSame DEF Crash
    <3>2. CASE t \in Active
      <4>1. pc'[t] = "lost" /\ state'[t].handoffs = <<>>
          BY <2>13, <3>2 DEF Crash, InitialState
      <4> QED BY <4>1 DEF Drafting, Replying, TextOnly, Early
    <3>3. CASE t \notin Active
      <4>1. pc[t] \in {"waiting"} \cup Ended /\ pc'[t] = pc[t] /\ state'[t] = state[t]
          BY <2>13, <3>3 DEF Active, TypeOK, Crash
      <4> QED BY <2>0, <3>1, <4>1 DEF Drafting, Replying, Early
    <3> QED BY <3>2, <3>3
  <2>14. CASE UNCHANGED vars
      BY <2>14, DraftedSame DEF DraftInv, vars
  <2> QED
      BY <2>1, <2>2, <2>3, <2>4, <2>5, <2>6, <2>7, <2>8, <2>9, <2>10, <2>11,
         <2>12, <2>13, <2>14 DEF Next, Progress
<1> QED
    BY <1>1, <1>2, TypeCorrect, TurnShape, VoiceKept, PTL DEF Spec

\* A specialist's text that the users see is of a turn in which the agents pass
\* each other texts only: whoever finds, writes or builds one of the demo's
\* artifacts does not stream it (_handle_demo_research_brief).
THEOREM DraftsPrivate == Spec => []DemoKeepsDraftsPrivate
<1>1. TypeOK /\ DraftInv => DemoKeepsDraftsPrivate
  <2> SUFFICES ASSUME TypeOK, DraftInv, NEW i \in DOMAIN shown,
                      shown[i].message.agent # Coordinator
               PROVE  TextOnly(state[shown[i].turn].handoffs)
      BY DEF DemoKeepsDraftsPrivate, TextOnly
  <2>1. shown[i] \in [turn : Turns, message : Displayed]
      BY SeqElement DEF TypeOK
  <2>2. shown[i].turn \in Turns /\ Drafted(shown[i].turn)
      BY <2>1 DEF Drafted
  <2> QED BY <2>2 DEF DraftInv, Replying
<1> QED BY <1>1, TypeCorrect, DraftsKept, PTL

-----------------------------------------------------------------------------
(* One turn at a time: the contract with the user.                         *)

CoordinatorText == [agent : {Coordinator}, kind : Kinds, asks : SUBSET Asks]

\* One superstep adds at most one text of its turn to the transcript.
Extends(t, old, new) ==
    new = old \/ \E m \in CoordinatorText : new = Plus(old, [turn |-> t, message |-> m])

\* The checkpoint that the w-th write replaces.
Before(cp, wr, w) == IF w = 1 THEN cp ELSE wr[w - 1].transcript
Latest(cp, wr) == Before(cp, wr, Len(wr) + 1)

\* A turn in the graph carries on from the last checkpoint or write, and its own
\* part of the conversation is what it said.
InLine(label, t, s, cp, wr) ==
    /\ label \in {"toolset", "invoke"} => wr = <<>>
    /\ label \in {"dispatch", "agent", "emit", "commit", "handoff", "publish"} =>
          s.transcript = Latest(cp, wr) /\ OfTurn(s.transcript, t) = s.turn
    /\ label = "dispatch" => s.turn = <<>>

SerialInv ==
    /\ Active = {} \/ \E t \in Turns : Active = {t}
    /\ \A w \in DOMAIN writes :
          /\ writes[w].turn \in Active
          /\ Extends(writes[w].turn, Before(checkpoint, writes, w), writes[w].transcript)
    /\ \A t \in Turns : InLine(pc[t], t, state[t], checkpoint, writes)

\* The turn in progress, if any.
LEMMA TheActive ==
    ASSUME TypeOK, SerialInv, NEW t \in Turns, pc[t] \in Running
    PROVE  /\ Active = {t}
           /\ \A u \in Turns \ {t} : pc[u] \notin Running
           /\ Saved(t) => writes = <<>>
<1>1. t \in Active
    BY DEF Active
<1>2. Active = {t}
    BY <1>1 DEF SerialInv
<1>3. \A u \in Turns \ {t} : pc[u] \notin Running
    BY <1>2 DEF Active
<1>4. ASSUME Saved(t)
      PROVE  writes = <<>>
  <2>1. DOMAIN writes = {}
      BY <1>2, <1>4 DEF SerialInv, Saved
  <2> QED BY <2>1 DEF TypeOK
<1> QED BY <1>2, <1>3, <1>4

\* No turn in progress, nothing queued.
LEMMA NoActive ==
    ASSUME TypeOK, SerialInv, Active = {}
    PROVE  writes = <<>>
<1>1. DOMAIN writes = {}
    BY DEF SerialInv
<1> QED BY <1>1 DEF TypeOK

\* With one turn at a time, a message is received when no turn is in progress.
LEMMA ReceivedAlone ==
    ASSUME MaxActive = 1, SerialInv, NEW t \in Turns, NEW m \in Messages, Receive(t, m)
    PROVE  Active = {}
<1>1. ASSUME NEW u \in Turns, Active = {u}
      PROVE  FALSE
  <2>1. Cardinality(Active) = 1
      BY <1>1, FS_Singleton
  <2> QED BY <2>1 DEF Receive
<1> QED BY <1>1 DEF SerialInv

\* A turn that is not in progress is in line.
LEMMA InLineIdle ==
    ASSUME NEW label, label \notin Running, NEW t, NEW s, NEW cp, NEW wr
    PROVE  InLine(label, t, s, cp, wr)
BY DEF InLine

\* A step of the turn in progress that saves nothing.
LEMMA SerialStep ==
    ASSUME TypeOK, SerialInv, NEW t \in Turns, NEW label \in Running,
           pc[t] \in Running, pc' = [pc EXCEPT ![t] = label],
           UNCHANGED <<checkpoint, writes>>,
           InLine(label, t, state'[t], checkpoint, writes)
    PROVE  SerialInv'
<1>1. Active = {t} /\ \A u \in Turns \ {t} : pc[u] \notin Running
    BY TheActive
<1>2. pc'[t] = label /\ \A u \in Turns \ {t} : pc'[u] = pc[u]
    BY DEF TypeOK
<1>3. Active' = {t}
    BY <1>1, <1>2 DEF Active
<1>4. ASSUME NEW u \in Turns
      PROVE  InLine(pc'[u], u, state'[u], checkpoint', writes')
    BY <1>1, <1>2, InLineIdle
<1>5. \A w \in DOMAIN writes' :
          /\ writes'[w].turn \in Active'
          /\ Extends(writes'[w].turn, Before(checkpoint', writes', w),
                     writes'[w].transcript)
    BY <1>1, <1>3 DEF SerialInv
<1> QED BY <1>3, <1>4, <1>5 DEF SerialInv

\* A step that ends the turn in progress, whose writes are done or lost.
LEMMA SerialEnd ==
    ASSUME TypeOK, writes' = <<>>, \A u \in Turns : pc'[u] \notin Running
    PROVE  SerialInv'
<1>1. Active' = {}
    BY DEF Active
<1>2. DOMAIN writes' = {}
    OBVIOUS
<1>3. \A u \in Turns : InLine(pc'[u], u, state'[u], checkpoint', writes')
    BY InLineIdle
<1> QED BY <1>1, <1>2, <1>3 DEF SerialInv

\* One more write is the latest, and replaces what was the latest.
Queued(cp, wr, x, more) ==
    /\ \A w \in 1..(Len(wr) + 1) : Before(cp, more, w) = Before(cp, wr, w)
    /\ Latest(cp, more) = x.transcript
    /\ DOMAIN more = 1..(Len(wr) + 1) /\ DOMAIN wr = 1..Len(wr)
    /\ \A w \in 1..Len(wr) : more[w] = wr[w]
    /\ more[Len(wr) + 1] = x

LEMMA BeforeMore ==
    ASSUME NEW S, NEW wr \in Seq(S), NEW x \in S, NEW cp,
           NEW more, more = Append(wr, x)
    PROVE  Queued(cp, wr, x, more)
<1>1. /\ Len(wr) \in Nat /\ Len(more) = Len(wr) + 1
      /\ DOMAIN more = 1..(Len(wr) + 1) /\ DOMAIN wr = 1..Len(wr)
      /\ \A w \in 1..Len(wr) : more[w] = wr[w]
      /\ more[Len(wr) + 1] = x
    OBVIOUS
<1>2. ASSUME NEW w \in 1..(Len(wr) + 1)
      PROVE  Before(cp, more, w) = Before(cp, wr, w)
  <2>1. w # 1 => w - 1 \in 1..Len(wr)
      BY <1>1
  <2> QED BY <1>1, <2>1 DEF Before
<1>3. Latest(cp, more) = x.transcript
  <2>1. Len(more) + 1 # 1 /\ (Len(more) + 1) - 1 = Len(wr) + 1
      BY <1>1
  <2> QED BY <1>1, <2>1 DEF Latest, Before
<1> QED BY <1>1, <1>2, <1>3 DEF Queued

\* The oldest write done, the others move up.
LEMMA BeforeLess ==
    ASSUME NEW S, NEW wr \in Seq(S), wr # <<>>, NEW cp
    PROVE  /\ \A w \in 1..Len(wr) :
                  Before(wr[1].transcript, Tail(wr), w) = Before(cp, wr, w + 1)
           /\ Latest(wr[1].transcript, Tail(wr)) = Latest(cp, wr)
           /\ DOMAIN Tail(wr) = 1..(Len(wr) - 1) /\ DOMAIN wr = 1..Len(wr)
           /\ \A w \in 1..(Len(wr) - 1) : Tail(wr)[w] = wr[w + 1]
           /\ Len(wr) \in Nat \ {0} /\ Head(wr) = wr[1]
<1>1. /\ Len(wr) \in Nat \ {0} /\ Len(Tail(wr)) = Len(wr) - 1
      /\ DOMAIN Tail(wr) = 1..(Len(wr) - 1) /\ DOMAIN wr = 1..Len(wr)
      /\ \A w \in 1..(Len(wr) - 1) : Tail(wr)[w] = wr[w + 1]
      /\ Head(wr) = wr[1]
    OBVIOUS
<1>2. ASSUME NEW w \in 1..Len(wr)
      PROVE  Before(wr[1].transcript, Tail(wr), w) = Before(cp, wr, w + 1)
  <2>1. w + 1 # 1 /\ (w + 1) - 1 = w
      OBVIOUS
  <2>2. w # 1 => w - 1 \in 1..(Len(wr) - 1) /\ (w - 1) + 1 = w
      BY <1>1
  <2>3. CASE w = 1
      BY <2>1, <2>3 DEF Before
  <2>4. CASE w # 1
      BY <1>1, <2>1, <2>2, <2>4 DEF Before
  <2> QED BY <2>3, <2>4
<1>3. Latest(wr[1].transcript, Tail(wr)) = Latest(cp, wr)
  <2>1. Len(Tail(wr)) + 1 = Len(wr) /\ Len(wr) \in 1..Len(wr)
      BY <1>1
  <2> QED BY <1>2, <2>1 DEF Latest
<1> QED BY <1>1, <1>2, <1>3

\* A step of the turn in progress that saves the state it reaches.
LEMMA SerialSave ==
    ASSUME TypeOK, SerialInv, NEW t \in Turns, NEW s \in WorkflowState,
           NEW label \in Running \ {"toolset", "invoke"},
           pc[t] \in Running, pc' = [pc EXCEPT ![t] = label],
           state' = [state EXCEPT ![t] = s], Save(t, s), checkpoint' = checkpoint,
           Extends(t, Latest(checkpoint, writes), s.transcript),
           OfTurn(s.transcript, t) = s.turn,
           label = "dispatch" => s.turn = <<>>
    PROVE  SerialInv'
<1> DEFINE write == [turn |-> t, transcript |-> s.transcript]
           n == Len(writes)
<1>1. Active = {t} /\ \A u \in Turns \ {t} : pc[u] \notin Running
    BY TheActive
<1>2. /\ pc'[t] = label /\ state'[t] = s
      /\ \A u \in Turns \ {t} : pc'[u] = pc[u]
    BY DEF TypeOK
<1>3. Active' = {t}
    BY <1>1, <1>2 DEF Active
<1>4. /\ write \in [turn : Turns, transcript : Seq(Entry)]
      /\ write.turn = t /\ write.transcript = s.transcript
    BY DEF WorkflowState
<1>5. /\ writes \in Seq([turn : Turns, transcript : Seq(Entry)])
      /\ writes' = Append(writes, write)
    BY DEF Save, TypeOK
<1> HIDE DEF write
<1>6. /\ \A w \in 1..(n + 1) : Before(checkpoint, writes', w) = Before(checkpoint, writes, w)
      /\ Latest(checkpoint, writes') = s.transcript
      /\ DOMAIN writes' = 1..(n + 1) /\ DOMAIN writes = 1..n
      /\ \A w \in 1..n : writes'[w] = writes[w]
      /\ writes'[n + 1] = write
  <2> DEFINE W == [turn : Turns, transcript : Seq(Entry)]
  <2>1. write \in W /\ writes \in Seq(W)
      BY <1>4, <1>5
  <2> HIDE DEF W
  <2>2. Queued(checkpoint, writes, write, writes')
      BY <1>5, <2>1, BeforeMore
  <2> QED BY <1>4, <2>2 DEF Queued
<1>7. ASSUME NEW w \in DOMAIN writes'
      PROVE  /\ writes'[w].turn \in Active'
             /\ Extends(writes'[w].turn, Before(checkpoint', writes', w),
                        writes'[w].transcript)
  <2>1. CASE w \in 1..n
    <3>1. w \in 1..(n + 1)
        BY <1>6
    <3> QED BY <1>1, <1>3, <1>6, <2>1, <3>1 DEF SerialInv
  <2>2. CASE w = n + 1
    <3>1. w \in 1..(n + 1)
        BY <1>6
    <3> QED BY <1>3, <1>4, <1>6, <2>2, <3>1 DEF Latest
  <2>3. w \in 1..n \/ w = n + 1
      BY <1>5, <1>6
  <2> QED BY <2>1, <2>2, <2>3
<1>8. ASSUME NEW u \in Turns
      PROVE  InLine(pc'[u], u, state'[u], checkpoint', writes')
  <2>1. CASE u = t
      BY <1>2, <1>6, <2>1 DEF InLine
  <2>2. CASE u # t
      BY <1>1, <1>2, <2>2, InLineIdle
  <2> QED BY <2>1, <2>2
<1> QED BY <1>3, <1>7, <1>8 DEF SerialInv

\* What the turn said, before it said anything.
LEMMA SaidNothing ==
    ASSUME NEW transcript \in Seq(Entry), NEW t, Untouched(transcript, t)
    PROVE  OfTurn(transcript, t) = <<>>
<1>1. {i \in DOMAIN transcript : transcript[i].turn = t} = {}
    BY DEF Untouched
<1>2. transcript \in Thread(Message)
    BY DEF Thread, Said, Entry
<1> QED BY <1>1, <1>2, MessagesAtType DEF OfTurn

\* An execution adds at most one text to the conversation and to the turn.
LEMMA AgentSaid ==
    ASSUME NEW s \in WorkflowState, NEW t \in Turns, NEW e,
           WellFormed(s.current, s.reason, e), OfTurn(s.transcript, t) = s.turn
    PROVE  LET r == AfterAgent(s, t, e) IN
           /\ r \in WorkflowState
           /\ Extends(t, s.transcript, r.transcript)
           /\ OfTurn(r.transcript, t) = r.turn
<1> DEFINE r == AfterAgent(s, t, e)
<1>1. e \in Execution /\ s.transcript \in Seq(Entry) /\ s.turn \in Seq(Message)
    BY DEF WellFormed, WorkflowState
<1>2. /\ r.transcript = s.transcript \o Entries(t, e.messages)
      /\ r.turn = s.turn \o e.messages /\ r \in WorkflowState
    BY <1>1, StateTypes DEF AfterAgent, WorkflowState
<1>3. e.messages = <<>> \/ \E m \in CoordinatorText : e.messages = <<m>>
    BY DEF WellFormed, Final, PassesOn, Remark, CoordinatorText
<1> HIDE DEF r
<1>4. CASE e.messages = <<>>
  <2>1. r.transcript = s.transcript /\ r.turn = s.turn
    <3>1. s.transcript \o Entries(t, <<>>) = s.transcript
        BY <1>1, FewEntries
    <3>2. s.turn \o <<>> = s.turn
        BY <1>1
    <3> QED BY <1>2, <1>4, <3>1, <3>2
  <2> QED BY <1>2, <2>1 DEF Extends, r
<1>5. ASSUME NEW m \in CoordinatorText, e.messages = <<m>>
      PROVE  /\ Extends(t, s.transcript, r.transcript)
             /\ OfTurn(r.transcript, t) = r.turn
  <2>1. r.transcript = Plus(s.transcript, [turn |-> t, message |-> m])
      BY <1>1, <1>2, <1>5, FewEntries DEF Plus
  <2>2. s.transcript \in Thread(Message) /\ m \in Message
      BY <1>1 DEF Thread, Said, Entry, CoordinatorText, Message
  <2>3. OfTurn(r.transcript, t) = Plus(OfTurn(s.transcript, t), m)
      BY <2>1, <2>2, SaidMore
  <2>4. OfTurn(r.transcript, t) = r.turn
      BY <1>2, <1>5, <2>3 DEF Plus
  <2> QED BY <2>1, <2>4 DEF Extends
<1> QED BY <1>2, <1>3, <1>4, <1>5 DEF r

\* With one turn at a time, the checkpoint and its writes are that turn's.
THEOREM SerialKept == ASSUME MaxActive = 1 PROVE Spec => []SerialInv
<1>1. Init => SerialInv
  <2> SUFFICES ASSUME Init PROVE SerialInv
      OBVIOUS
  <2>1. Active = {}
      BY DEF Init, Active
  <2>2. DOMAIN writes = {}
      BY DEF Init
  <2>3. \A t \in Turns : InLine(pc[t], t, state[t], checkpoint, writes)
      BY InLineIdle DEF Init
  <2> QED BY <2>1, <2>2, <2>3 DEF SerialInv
<1>2. TypeOK /\ TurnInv /\ ConsentInv /\ SerialInv /\ [Next]_vars => SerialInv'
  <2> SUFFICES ASSUME TypeOK, TurnInv, ConsentInv, SerialInv, [Next]_vars
               PROVE  SerialInv'
      OBVIOUS
  <2>0. ASSUME NEW t \in Turns
        PROVE  /\ InLine(pc[t], t, state[t], checkpoint, writes)
               /\ state[t] \in WorkflowState
      BY DEF SerialInv, TypeOK
  <2>1. ASSUME NEW t \in Turns, NEW m \in Messages, Receive(t, m)
        PROVE  SerialInv'
    <3>1. Active = {}
        BY <2>1, ReceivedAlone
    <3>2. writes = <<>>
        BY <3>1, NoActive
    <3>3. /\ pc'[t] = "toolset" /\ \A u \in Turns \ {t} : pc'[u] = pc[u]
          /\ checkpoint' = checkpoint /\ writes' = writes
        BY <2>1 DEF Receive, Goto, TypeOK
    <3>4. \A u \in Turns : pc[u] \notin Running
        BY <3>1 DEF Active
    <3>5. Active' = {t}
        BY <3>3, <3>4 DEF Active
    <3>6. DOMAIN writes' = {}
        BY <3>2, <3>3
    <3>7. ASSUME NEW u \in Turns
          PROVE  InLine(pc'[u], u, state'[u], checkpoint', writes')
      <4>1. CASE u = t
          BY <3>2, <3>3, <4>1 DEF InLine
      <4>2. CASE u # t
          BY <3>3, <3>4, <4>2, InLineIdle
      <4> QED BY <4>1, <4>2
    <3> QED BY <3>5, <3>6, <3>7 DEF SerialInv
  <2>2. ASSUME NEW t \in Turns, NEW env \in Environments,
               InitializeToolset(t, env)
        PROVE  SerialInv'
    <3>1. InLine("invoke", t, state'[t], checkpoint, writes)
        BY <2>0, <2>2 DEF InitializeToolset, InLine
    <3> QED BY <2>2, <3>1, SerialStep DEF InitializeToolset, Goto
  <2>3. ASSUME NEW t \in Turns, Invoke(t)
        PROVE  SerialInv'
    <3> DEFINE s == InitialState(checkpoint)
    <3>1. writes = <<>> /\ pc[t] = "invoke" /\ checkpoint \in Seq(Entry)
        BY <2>0, <2>3 DEF Invoke, InLine, TypeOK
    <3>2. s.transcript = checkpoint /\ s.turn = <<>> /\ s \in WorkflowState
        BY <3>1, StateTypes DEF InitialState
    <3>3. Latest(checkpoint, writes) = checkpoint
        BY <3>1 DEF Latest, Before
    <3>4. Untouched(checkpoint, t)
        BY <3>1 DEF ConsentInv, NotHeardOf
    <3>5. OfTurn(s.transcript, t) = s.turn
        BY <3>1, <3>2, <3>4, SaidNothing
    <3> HIDE DEF s
    <3>6. Extends(t, Latest(checkpoint, writes), s.transcript)
        BY <3>2, <3>3 DEF Extends
    <3>7. /\ pc' = [pc EXCEPT ![t] = "dispatch"] /\ Save(t, s)
          /\ state' = [state EXCEPT ![t] = s] /\ checkpoint' = checkpoint
        BY <2>3 DEF Invoke, Goto, s
    <3> QED BY <3>1, <3>2, <3>5, <3>6, <3>7, SerialSave
  <2>4. ASSUME NEW t \in Turns, DispatchNode(t)
        PROVE  SerialInv'
    <3> DEFINE s == AfterDispatch(state[t])
    <3>1. /\ pc[t] = "dispatch" /\ InLine("dispatch", t, state[t], checkpoint, writes)
        BY <2>0, <2>4 DEF DispatchNode
    <3>2. /\ s.transcript = state[t].transcript /\ s.turn = <<>>
          /\ s \in WorkflowState
        BY <2>0, StateTypes DEF AfterDispatch, WorkflowState
    <3>3. /\ Extends(t, Latest(checkpoint, writes), s.transcript)
          /\ OfTurn(s.transcript, t) = s.turn
        BY <3>1, <3>2 DEF InLine, Extends
    <3> HIDE DEF s
    <3>4. /\ pc' = [pc EXCEPT ![t] = "agent"] /\ Save(t, s)
          /\ state' = [state EXCEPT ![t] = s] /\ checkpoint' = checkpoint
        BY <2>4 DEF DispatchNode, Superstep, Goto, s
    <3> QED BY <3>1, <3>2, <3>3, <3>4, SerialSave
  <2>5. ASSUME NEW t \in Turns, NEW e \in Results(t), RunAgent(t, e)
        PROVE  SerialInv'
    <3>1. InLine("emit", t, state'[t], checkpoint, writes)
        BY <2>0, <2>5 DEF RunAgent, InLine
    <3> QED BY <2>5, <3>1, SerialStep DEF RunAgent, Goto
  <2>6. ASSUME NEW t \in Turns, EmitPublicMessages(t)
        PROVE  SerialInv'
    <3>1. InLine("commit", t, state'[t], checkpoint, writes)
        BY <2>0, <2>6 DEF EmitPublicMessages, InLine
    <3> QED BY <2>6, <3>1, SerialStep DEF EmitPublicMessages, Goto
  <2>7. ASSUME NEW t \in Turns, CommitAgent(t)
        PROVE  SerialInv'
    <3> DEFINE e == task[t].exec
               s == AfterAgent(state[t], t, e)
               label == IF e.handoffs # <<>> THEN "handoff" ELSE "publish"
    <3>1. /\ pc[t] = "commit" /\ InLine("commit", t, state[t], checkpoint, writes)
        BY <2>0, <2>7 DEF CommitAgent
    <3>2. WellFormed(state[t].current, state[t].reason, e)
        BY <3>1 DEF TurnInv, Shape
    <3>3. /\ state[t].transcript = Latest(checkpoint, writes)
          /\ OfTurn(state[t].transcript, t) = state[t].turn
        BY <3>1 DEF InLine
    <3>4. /\ s \in WorkflowState
          /\ Extends(t, Latest(checkpoint, writes), s.transcript)
          /\ OfTurn(s.transcript, t) = s.turn
        BY <2>0, <3>2, <3>3, AgentSaid
    <3> HIDE DEF s
    <3>5. /\ pc' = [pc EXCEPT ![t] = label] /\ Save(t, s)
          /\ state' = [state EXCEPT ![t] = s] /\ checkpoint' = checkpoint
        BY <2>7 DEF CommitAgent, Superstep, Goto, s
    <3>6. label \in Running \ {"toolset", "invoke"} /\ label # "dispatch"
        OBVIOUS
    <3> HIDE DEF label
    <3> QED BY <3>1, <3>4, <3>5, <3>6, SerialSave
  <2>8. ASSUME NEW t \in Turns, HandoffNode(t)
        PROVE  SerialInv'
    <3> DEFINE s == AfterHandoff(state[t])
    <3>1. /\ pc[t] = "handoff" /\ InLine("handoff", t, state[t], checkpoint, writes)
        BY <2>0, <2>8 DEF HandoffNode
    <3>2. /\ s.transcript = state[t].transcript /\ s.turn = state[t].turn
          /\ s \in WorkflowState
      <4>1. state[t].pending # <<>>
          BY <2>8 DEF HandoffNode
      <4>2. s \in WorkflowState
          BY <2>0, <4>1, StateTypes
      <4> QED BY <2>0, <4>2 DEF AfterHandoff, WorkflowState
    <3>3. /\ Extends(t, Latest(checkpoint, writes), s.transcript)
          /\ OfTurn(s.transcript, t) = s.turn
        BY <3>1, <3>2 DEF InLine, Extends
    <3> HIDE DEF s
    <3>4. /\ pc' = [pc EXCEPT ![t] = "agent"] /\ Save(t, s)
          /\ state' = [state EXCEPT ![t] = s] /\ checkpoint' = checkpoint
        BY <2>8 DEF HandoffNode, Superstep, Goto, s
    <3> QED BY <3>1, <3>2, <3>3, <3>4, SerialSave
  <2>9. ASSUME NEW t \in Turns, PublishTranscript(t)
        PROVE  SerialInv'
    <3>1. writes = <<>> /\ \A u \in Turns \ {t} : pc[u] \notin Running
        BY <2>9, TheActive DEF PublishTranscript
    <3>2. writes' = <<>> /\ \A u \in Turns : pc'[u] \notin Running
        BY <2>9, <3>1 DEF PublishTranscript, Goto, TypeOK
    <3> QED BY <3>2, SerialEnd
  <2>10. ASSUME NEW t \in Turns, FailStep(t)
         PROVE  SerialInv'
    <3>1. InLine("failing", t, state'[t], checkpoint, writes)
        BY DEF InLine
    <3> QED BY <2>10, <3>1, SerialStep DEF FailStep, Goto
  <2>11. ASSUME NEW t \in Turns, ReportError(t)
         PROVE  SerialInv'
    <3>1. writes = <<>> /\ \A u \in Turns \ {t} : pc[u] \notin Running
        BY <2>11, TheActive DEF ReportError
    <3>2. writes' = <<>> /\ \A u \in Turns : pc'[u] \notin Running
        BY <2>11, <3>1 DEF ReportError, Goto, TypeOK
    <3> QED BY <3>2, SerialEnd
  <2>12. CASE Persist
    <3>1. /\ writes \in Seq([turn : Turns, transcript : Seq(Entry)]) /\ writes # <<>>
          /\ checkpoint' = Head(writes).transcript /\ writes' = Tail(writes)
          /\ UNCHANGED <<pc, state>>
        BY <2>12 DEF Persist, TypeOK
    <3>2. /\ \A w \in 1..Len(writes) :
                Before(checkpoint', writes', w) = Before(checkpoint, writes, w + 1)
          /\ Latest(checkpoint', writes') = Latest(checkpoint, writes)
          /\ DOMAIN writes' = 1..(Len(writes) - 1)
          /\ DOMAIN writes = 1..Len(writes)
          /\ \A w \in 1..(Len(writes) - 1) : writes'[w] = writes[w + 1]
          /\ Len(writes) \in Nat \ {0}
        BY <3>1, BeforeLess
    <3>3. Active' = Active
        BY <3>1 DEF Active
    <3>4. ASSUME NEW w \in DOMAIN writes'
          PROVE  /\ writes'[w].turn \in Active'
                 /\ Extends(writes'[w].turn, Before(checkpoint', writes', w),
                            writes'[w].transcript)
      <4>1. w \in 1..(Len(writes) - 1) /\ w \in 1..Len(writes)
            /\ w + 1 \in DOMAIN writes
          BY <3>2
      <4> QED BY <3>2, <3>3, <4>1 DEF SerialInv
    <3>5. ASSUME NEW u \in Turns
          PROVE  InLine(pc'[u], u, state'[u], checkpoint', writes')
        BY <2>0, <3>1, <3>2 DEF InLine
    <3> QED BY <3>3, <3>4, <3>5 DEF SerialInv
  <2>13. CASE Crash
    <3>1. writes' = <<>> /\ \A u \in Turns : pc'[u] \notin Running
        BY <2>13 DEF Crash, Active
    <3> QED BY <3>1, SerialEnd
  <2>14. CASE UNCHANGED vars
      BY <2>14 DEF SerialInv, Active, vars
  <2> QED
      BY <2>1, <2>2, <2>3, <2>4, <2>5, <2>6, <2>7, <2>8, <2>9, <2>10, <2>11,
         <2>12, <2>13, <2>14 DEF Next, Progress
<1> QED
    BY <1>1, <1>2, TypeCorrect, TurnShape, ConsentKept, PTL DEF Spec

-----------------------------------------------------------------------------
(* The steps of the workflow, as steps of the contract.                    *)

\* Where a turn of the contract is.
LEMMA Statuses ==
    /\ \A label \in Running : StatusOf(label) = "working"
    /\ StatusOf("waiting") = "idle" /\ StatusOf("done") = "answered"
    /\ StatusOf("failed") = "failed" /\ StatusOf("lost") = "lost"
BY DEF StatusOf

\* The contract reads the memory as the workflow does.
LEMMA ContractRemembered == \A t : Contract!Remembered(t) = OfTurn(checkpoint, t)
BY DEF Contract!Remembered, Contract!OfTurn, OfTurn, Contract!MessagesAt, MessagesAt,
       Contract!Nth, Nth, Contract!Cardinality, Cardinality

\* A longer text, in the words of the contract.
LEMMA ContractMore ==
    ASSUME NEW S, NEW q \in Seq(S), NEW x \in S
    PROVE  /\ Contract!OneMore(q, Plus(q, x)) /\ Contract!IsPrefix(q, Plus(q, x))
           /\ Contract!Last(Plus(q, x)) = x /\ Contract!IsPrefix(q, q)
<1> DEFINE more == Plus(q, x)
<1>1. /\ Len(more) = Len(q) + 1 /\ Len(q) \in Nat /\ more \in Seq(S)
      /\ more[Len(q) + 1] = x
      /\ \A i \in 1..Len(q) : more[i] = q[i]
    BY OneMore DEF Plus
<1> HIDE DEF more
<1>2. SubSeq(q, 1, Len(q)) = SubSeq(more, 1, Len(q))
    BY <1>1
<1>3. Contract!IsPrefix(q, more) /\ Contract!IsPrefix(q, q)
    BY <1>1, <1>2 DEF Contract!IsPrefix
<1> QED BY <1>1, <1>3 DEF Contract!OneMore, Contract!Last, more

\* The users hear and the thread remembers nothing new, and no turn changes status.
LEMMA ContractSame ==
    ASSUME \A u \in Turns : StatusOf(pc'[u]) = StatusOf(pc[u]),
           \A u \in Turns : Heard(u)' = Heard(u),
           checkpoint' = checkpoint
    PROVE  UNCHANGED Contract!vars
BY DEF Contract!vars

\* A step of the turn in progress, as far as the contract's status goes.
LEMMA StillWorking ==
    ASSUME TypeOK, NEW t \in Turns, NEW label \in Running, pc[t] \in Running,
           pc' = [pc EXCEPT ![t] = label]
    PROVE  \A u \in Turns : StatusOf(pc'[u]) = StatusOf(pc[u])
<1>1. pc'[t] = label /\ \A u \in Turns \ {t} : pc'[u] = pc[u]
    BY DEF TypeOK
<1>2. StatusOf(pc'[t]) = StatusOf(pc[t])
    BY <1>1, Statuses
<1> QED BY <1>1, <1>2

\* One more text heard.
LEMMA ContractSpeaks ==
    ASSUME NEW t \in Turns, pc[t] \in Running,
           \A u \in Turns : StatusOf(pc'[u]) = StatusOf(pc[u]),
           \A u \in Turns \ {t} : Heard(u)' = Heard(u),
           Heard(t) \in Seq(Displayed), NEW m \in CoordinatorText,
           Heard(t)' = Plus(Heard(t), m), checkpoint' = checkpoint
    PROVE  Contract!Next
<1> DEFINE said == [u \in Turns |-> Heard(u)]
           said2 == [u \in Turns |-> Heard(u)']
           status == [u \in Turns |-> StatusOf(pc[u])]
           status2 == [u \in Turns |-> StatusOf(pc'[u])]
<1>1. status2 = status /\ status[t] = "working"
    BY Statuses
<1>2. said2 = [said EXCEPT ![t] = said2[t]]
    OBVIOUS
<1>3. m \in Displayed
    BY DEF Displayed, Message, CoordinatorText
<1>4. Contract!OneMore(said[t], said2[t]) /\ Contract!Last(said2[t]) = m
    BY <1>3, ContractMore
<1>5. Contract!Speak(t)
    BY <1>1, <1>2, <1>4 DEF Contract!Speak, CoordinatorText
<1> QED BY <1>5 DEF Contract!Next

\* A step of the turn in progress that shows at most one message.
LEMMA ContractShows ==
    ASSUME TypeOK, NEW t \in Turns, NEW label \in Running, pc[t] \in Running,
           pc' = [pc EXCEPT ![t] = label], checkpoint' = checkpoint,
           NEW messages, shown' = shown \o Entries(t, messages),
           \/ messages = <<>>
           \/ \E m \in CoordinatorText : messages = <<m>>
           \/ \E role \in Specialists : messages = <<Draft(role)>>
    PROVE  [Contract!Next]_(Contract!vars)
<1>1. \A u \in Turns : StatusOf(pc'[u]) = StatusOf(pc[u])
    BY StillWorking
<1>2. Heard(t) \in Seq(Displayed)
  <2>1. shown \in Thread(Displayed)
      BY DEF TypeOK, Thread, Said
  <2> QED BY <2>1, SaidType DEF Heard
<1>3. CASE messages = <<>>
  <2>1. \A u \in Turns : Heard(u)' = Heard(u)
      BY <1>3, HeardMore
  <2> QED BY <1>1, <2>1, ContractSame
<1>4. ASSUME NEW m \in CoordinatorText, messages = <<m>>
      PROVE  Contract!Next
  <2>1. m \in Displayed /\ m.agent = Coordinator
      BY DEF CoordinatorText, Displayed, Message
  <2>2. /\ Heard(t)' = Plus(Heard(t), m)
        /\ \A u \in Turns \ {t} : Heard(u)' = Heard(u)
      BY <1>4, <2>1, HeardMore DEF Plus
  <2> QED BY <1>1, <1>2, <2>2, ContractSpeaks
<1>5. ASSUME NEW role \in Specialists, messages = <<Draft(role)>>
      PROVE  UNCHANGED Contract!vars
  <2>1. Draft(role) \in Displayed /\ Draft(role).agent # Coordinator
      BY DEF Draft, Displayed
  <2>2. \A u \in Turns : Heard(u)' = Heard(u)
      BY <1>5, <2>1, HeardMore
  <2> QED BY <1>1, <2>2, ContractSame
<1> QED BY <1>3, <1>4, <1>5

\* Running an agent lets the users hear a reply, or nothing.
LEMMA ContractRuns ==
    ASSUME TypeOK, TurnInv, NEW t \in Turns, NEW e \in Results(t), RunAgent(t, e)
    PROVE  [Contract!Next]_(Contract!vars)
<1> DEFINE role == state[t].current
           messages == Deltas(role, e)
<1>1. /\ WellFormed(role, state[t].reason, e)
      /\ Voices(role, state[t].reason, task[t].env, e)
    BY ResultsWellFormed, ResultsVoices DEF RunAgent
<1>2. role \in AgentRole
    BY DEF TypeOK, WorkflowState
<1>3. \/ messages = <<>>
      \/ \E m \in CoordinatorText : messages = <<m>>
      \/ \E r \in Specialists : messages = <<Draft(r)>>
  <2>1. CASE role \in Specialists
      BY <1>1, <2>1 DEF Voices, Deltas
  <2>2. CASE role = Coordinator /\ e.handoffs # <<>>
      BY <1>1, <2>2 DEF Voices, Deltas
  <2>3. CASE role = Coordinator /\ e.handoffs = <<>>
    <3>1. PICK m \in CoordinatorText : e.messages = <<m>>
        BY <1>1, <2>3 DEF WellFormed, Final, PassesOn, Remark, CoordinatorText
    <3> QED BY <3>1 DEF Deltas
  <2> QED BY <1>2, <2>1, <2>2, <2>3
<1>4. /\ pc[t] = "agent" /\ pc' = [pc EXCEPT ![t] = "emit"]
      /\ shown' = shown \o Entries(t, messages) /\ checkpoint' = checkpoint
    BY DEF RunAgent, Goto
<1> HIDE DEF messages
<1> QED BY <1>3, <1>4, ContractShows

\* Sending an acknowledgement.
LEMMA ContractEmits ==
    ASSUME TypeOK, TurnInv, NEW t \in Turns, EmitPublicMessages(t)
    PROVE  [Contract!Next]_(Contract!vars)
<1> DEFINE messages == Announced(task[t].exec)
<1>1. /\ pc[t] = "emit" /\ pc' = [pc EXCEPT ![t] = "commit"]
      /\ shown' = shown \o Entries(t, messages) /\ checkpoint' = checkpoint
    BY DEF EmitPublicMessages, Goto
<1>2. WellFormed(state[t].current, state[t].reason, task[t].exec)
    BY <1>1 DEF TurnInv, Shape
<1>3. messages = <<>> \/ \E m \in CoordinatorText : messages = <<m>>
    BY <1>2 DEF Announced, WellFormed, Final, PassesOn, Remark, CoordinatorText
<1> HIDE DEF messages
<1> QED BY <1>1, <1>3, ContractShows

\* The turn that is done has shown what the thread remembers of it.
LEMMA ContractAnswers ==
    ASSUME TypeOK, TurnInv, VoiceInv, SerialInv, NEW t \in Turns,
           PublishTranscript(t)
    PROVE  Contract!Next
<1> DEFINE said == [u \in Turns |-> Heard(u)]
           said2 == [u \in Turns |-> Heard(u)']
           status == [u \in Turns |-> StatusOf(pc[u])]
           status2 == [u \in Turns |-> StatusOf(pc'[u])]
<1>1. /\ pc[t] = "publish" /\ pc'[t] = "done" /\ Saved(t) /\ checkpoint' = checkpoint
      /\ \A u \in Turns \ {t} : pc'[u] = pc[u]
    BY DEF PublishTranscript, Goto, TypeOK
<1>2. writes = <<>>
    BY <1>1, TheActive
<1>3. InLine("publish", t, state[t], checkpoint, writes)
    BY <1>1 DEF SerialInv
<1>4. Contract!Remembered(t) = state[t].turn
    BY <1>2, <1>3, ContractRemembered DEF InLine, Latest, Before
<1>5. Voiced("publish", state[t], task[t], Heard(t)) /\ Answered(state[t].turn)
    BY <1>1 DEF VoiceInv, TurnInv, Shape
<1>6. PICK m \in Message : state[t].turn = Plus(task[t].published, m)
    BY <1>5 DEF Voiced, Plus
<1>7. Contract!IsPrefix(Heard(t), state[t].turn)
  <2>1. task[t].published \in Seq(Message) /\ state[t].turn \in Seq(Message)
      BY DEF TypeOK, Task, WorkflowState
  <2>2. /\ Contract!IsPrefix(state[t].turn, state[t].turn)
        /\ Contract!IsPrefix(task[t].published, state[t].turn)
      BY <1>6, <2>1, ContractMore
  <2> QED BY <1>5, <2>2 DEF Voiced
<1>8. Heard(t)' = state[t].turn /\ \A u \in Turns \ {t} : Heard(u)' = Heard(u)
    BY PublishVoiced
<1>9. said2 = [said EXCEPT ![t] = state[t].turn]
    BY <1>8
<1>10. status[t] = "working" /\ status2 = [status EXCEPT ![t] = "answered"]
    BY <1>1, Statuses
<1>11. state[t].turn # <<>>
    BY <1>5 DEF Answered
<1>12. Contract!Answer(t)
    BY <1>1, <1>4, <1>7, <1>9, <1>10, <1>11 DEF Contract!Answer
<1> QED BY <1>12 DEF Contract!Next

\* A write that is done is remembered, when it adds something.
LEMMA ContractRemembers ==
    ASSUME TypeOK, SerialInv, Persist
    PROVE  [Contract!Next]_(Contract!vars)
<1> DEFINE t == writes[1].turn
<1>1. /\ writes \in Seq([turn : Turns, transcript : Seq(Entry)]) /\ writes # <<>>
      /\ checkpoint' = Head(writes).transcript /\ UNCHANGED <<pc, shown>>
      /\ checkpoint \in Seq(Entry)
    BY DEF Persist, TypeOK
<1>2. 1 \in DOMAIN writes /\ Head(writes) = writes[1]
    BY <1>1
<1>3. t \in Active /\ Extends(t, checkpoint, checkpoint')
    BY <1>1, <1>2 DEF SerialInv, Before
<1>4. t \in Turns /\ pc[t] \in Running
    BY <1>3 DEF Active
<1> HIDE DEF t
<1>5. /\ \A u \in Turns : StatusOf(pc'[u]) = StatusOf(pc[u])
      /\ \A u \in Turns : Heard(u)' = Heard(u)
    BY <1>1, HeardSame
<1>6. CASE checkpoint' = checkpoint
    BY <1>5, <1>6, ContractSame
<1>7. ASSUME NEW m \in CoordinatorText,
             checkpoint' = Plus(checkpoint, [turn |-> t, message |-> m])
      PROVE  Contract!Next
  <2> DEFINE entry == [turn |-> t, message |-> m]
  <2>1. entry \in Entry /\ entry.turn = t /\ entry.message = m
      BY <1>4 DEF Entry, CoordinatorText, Message
  <2> HIDE DEF entry
  <2>2. checkpoint' = Plus(checkpoint, entry)
      BY <1>7 DEF entry
  <2>3. Contract!OneMore(checkpoint, checkpoint') /\ Contract!Last(checkpoint') = entry
      BY <1>1, <2>1, <2>2, ContractMore
  <2>4. StatusOf(pc[t]) = "working"
      BY <1>4, Statuses
  <2>5. Contract!Remember(t)
      BY <1>4, <1>5, <2>1, <2>3, <2>4 DEF Contract!Remember, CoordinatorText
  <2> QED BY <1>4, <2>5 DEF Contract!Next
<1> QED BY <1>3, <1>6, <1>7 DEF Extends

\* With one turn at a time in the thread, the workflow implements the contract:
\* the users of an answered turn have seen what the thread remembers of it, and
\* what it remembers only grows, for any messages, any models and any failures.
THEOREM ContractKept == ASSUME MaxActive = 1 PROVE Spec => TurnsKeepContract
<1>1. Init => Contract!Init
  <2> SUFFICES ASSUME Init PROVE Contract!Init
      OBVIOUS
  <2>1. ASSUME NEW t \in Turns
        PROVE  Heard(t) = <<>> /\ StatusOf(pc[t]) = "idle"
    <3>1. shown = <<>> /\ shown \in Thread(Displayed)
        BY DEF Init, Thread
    <3>2. {i \in DOMAIN shown : /\ shown[i].turn = t
                                /\ shown[i].message.agent = Coordinator} = {}
        BY <3>1
    <3>3. Heard(t) = <<>>
        BY <3>1, <3>2, MessagesAtType DEF Heard, OfTurnBy
    <3> QED BY <3>3, Statuses DEF Init
  <2> QED BY <2>1 DEF Init, Contract!Init
<1>2. TypeOK /\ TurnInv /\ VoiceInv /\ SerialInv /\ [Next]_vars
          => [Contract!Next]_(Contract!vars)
  <2> SUFFICES ASSUME TypeOK, TurnInv, VoiceInv, SerialInv, [Next]_vars
               PROVE  [Contract!Next]_(Contract!vars)
      OBVIOUS
  <2> DEFINE status == [u \in Turns |-> StatusOf(pc[u])]
             status2 == [u \in Turns |-> StatusOf(pc'[u])]
             said == [u \in Turns |-> Heard(u)]
             said2 == [u \in Turns |-> Heard(u)']
  <2>1. ASSUME NEW t \in Turns, NEW m \in Messages, Receive(t, m)
        PROVE  Contract!Next
    <3>1. Active = {}
        BY <2>1, ReceivedAlone
    <3>2. \A u \in Turns : StatusOf(pc[u]) # "working"
      <4>1. \A u \in Turns : pc[u] \in {"waiting"} \cup Ended
          BY <3>1 DEF Active, TypeOK
      <4> QED BY <4>1, Statuses
    <3>3. /\ pc[t] = "waiting" /\ pc'[t] = "toolset"
          /\ \A u \in Turns \ {t} : pc'[u] = pc[u]
          /\ checkpoint' = checkpoint /\ shown' = shown
        BY <2>1 DEF Receive, Goto, TypeOK
    <3>4. status[t] = "idle" /\ status2 = [status EXCEPT ![t] = "working"]
        BY <3>3, Statuses
    <3>5. said2 = said
        BY <3>3, HeardSame
    <3>6. Contract!Ask(t)
        BY <3>2, <3>3, <3>4, <3>5 DEF Contract!Ask
    <3> QED BY <3>6 DEF Contract!Next
  <2>2. ASSUME NEW t \in Turns, NEW label \in Running, pc[t] \in Running,
               pc' = [pc EXCEPT ![t] = label], UNCHANGED <<checkpoint, shown>>
        PROVE  UNCHANGED Contract!vars
      BY <2>2, StillWorking, HeardSame, ContractSame
  <2>3. ASSUME NEW t \in Turns, NEW e \in Results(t), RunAgent(t, e)
        PROVE  [Contract!Next]_(Contract!vars)
      BY <2>3, ContractRuns
  <2>4. ASSUME NEW t \in Turns, EmitPublicMessages(t)
        PROVE  [Contract!Next]_(Contract!vars)
      BY <2>4, ContractEmits
  <2>5. ASSUME NEW t \in Turns, PublishTranscript(t)
        PROVE  Contract!Next
      BY <2>5, ContractAnswers
  <2>6. ASSUME NEW t \in Turns, ReportError(t)
        PROVE  Contract!Next
    <3>1. /\ pc[t] = "failing" /\ pc'[t] = "failed"
          /\ \A u \in Turns \ {t} : pc'[u] = pc[u]
          /\ checkpoint' = checkpoint /\ shown' = shown
        BY <2>6 DEF ReportError, Goto, TypeOK
    <3>2. status[t] = "working" /\ status2 = [status EXCEPT ![t] = "failed"]
        BY <3>1, Statuses
    <3>3. said2 = said
        BY <3>1, HeardSame
    <3>4. Contract!Fail(t)
        BY <3>1, <3>2, <3>3 DEF Contract!Fail
    <3> QED BY <3>4 DEF Contract!Next
  <2>7. CASE Persist
      BY <2>7, ContractRemembers
  <2>8. CASE Crash
    <3>1. PICK t \in Turns : Active = {t}
        BY <2>8 DEF Crash, SerialInv
    <3>2. /\ pc[t] \in Running /\ pc'[t] = "lost"
          /\ \A u \in Turns \ {t} : pc'[u] = pc[u]
          /\ checkpoint' = checkpoint /\ shown' = shown
      <4>1. t \in Active /\ \A u \in Turns \ {t} : u \notin Active
          BY <3>1
      <4> QED BY <2>8, <4>1 DEF Crash, Active
    <3>3. status[t] = "working" /\ status2 = [status EXCEPT ![t] = "lost"]
        BY <3>2, Statuses
    <3>4. said2 = said
        BY <3>2, HeardSame
    <3>5. Contract!Restart(t)
        BY <3>2, <3>3, <3>4 DEF Contract!Restart
    <3> QED BY <3>5 DEF Contract!Next
  <2>9. CASE UNCHANGED vars
      BY <2>9, HeardSame, ContractSame DEF vars
  <2>10. ASSUME NEW t \in Turns,
                \/ \E env \in Environments : InitializeToolset(t, env)
                \/ Invoke(t) \/ DispatchNode(t) \/ CommitAgent(t) \/ HandoffNode(t)
                \/ FailStep(t)
         PROVE  UNCHANGED Contract!vars
    <3>1. /\ pc[t] \in Running
          /\ \E label \in Running : pc' = [pc EXCEPT ![t] = label]
        BY <2>10 DEF InitializeToolset, Invoke, DispatchNode, CommitAgent, HandoffNode,
                     FailStep, Superstep, Goto
    <3>2. UNCHANGED <<checkpoint, shown>>
        BY <2>10 DEF InitializeToolset, Invoke, DispatchNode, CommitAgent, HandoffNode,
                     FailStep
    <3> QED BY <2>2, <3>1, <3>2
  <2> QED
      BY <2>1, <2>3, <2>4, <2>5, <2>6, <2>7, <2>8, <2>9, <2>10 DEF Next, Progress
<1> QED
    BY <1>1, <1>2, TypeCorrect, TurnShape, VoiceKept, SerialKept, PTL
       DEF Spec, TurnsKeepContract, Contract!Spec

-----------------------------------------------------------------------------
(* One turn at a time: what a yes or a pick answers.                       *)

\* Entry i of transcript T is the last thing an answered turn said; label tells
\* where each turn is.
LastAnswer(T, i, label) ==
    /\ label[T[i].turn] = "done" /\ T[i].message.agent = Coordinator
    /\ \A k \in DOMAIN T :
          k > i /\ T[k].message.agent = Coordinator => label[T[k].turn] # "done"

\* The thread sh shows the entry, and no answered turn said more since.
Stands(entry, sh, label) ==
    \E j \in DOMAIN sh :
        sh[j] = entry /\ \A k \in DOMAIN sh : k > j => label[sh[k].turn] # "done"

Kept(T, sh, label) == \A i \in DOMAIN T : LastAnswer(T, i, label) => Stands(T[i], sh, label)

\* What a turn could read when it is invoked, now or later.
Memories(cp, wr) == {cp} \cup {wr[w].transcript : w \in DOMAIN wr}

Ends(q, t, m) == q # <<>> /\ q[Len(q)] = [turn |-> t, message |-> m]

\* The reply of a turn is the last entry of its transcript before it is published,
\* and of the thread if it was streamed.
LastSaid(label, t, s, x, sh) ==
    /\ label \in {"emit", "commit"} /\ x.exec.handoffs = <<>> /\ x.exec.streamed =>
          Ends(sh, t, x.exec.messages[1])
    /\ label = "publish" =>
          /\ Ends(s.transcript, t, s.turn[Len(s.turn)])
          /\ x.streamed => Ends(sh, t, s.turn[Len(s.turn)])

AnswerInv ==
    /\ \A T \in Memories(checkpoint, writes) : Kept(T, shown, pc)
    /\ \A t \in Turns : LastSaid(pc[t], t, state[t], task[t], shown)

\* Whoever is not about to answer has nothing to have said last.
LEMMA LastSaidIdle ==
    ASSUME NEW label, label \notin {"emit", "commit", "publish"}, NEW t, NEW s, NEW x, NEW sh
    PROVE  LastSaid(label, t, s, x, sh)
BY DEF LastSaid

\* What the memories hold, in types.
LEMMA MemoriesType ==
    ASSUME TypeOK
    PROVE  \A T \in Memories(checkpoint, writes) : T \in Seq(Entry)
<1>1. \A w \in DOMAIN writes : writes[w].transcript \in Seq(Entry)
  <2>1. \A w \in DOMAIN writes : writes[w] \in [turn : Turns, transcript : Seq(Entry)]
      BY SeqElement DEF TypeOK
  <2> QED BY <2>1
<1> QED BY <1>1 DEF TypeOK, Memories

\* The turn in progress carries on from a memory.
LEMMA LatestIsMemory ==
    ASSUME TypeOK
    PROVE  Latest(checkpoint, writes) \in Memories(checkpoint, writes)
<1>1. Len(writes) \in Nat /\ DOMAIN writes = 1..Len(writes)
    BY DEF TypeOK
<1>2. CASE Len(writes) = 0
    BY <1>2 DEF Latest, Before, Memories
<1>3. CASE Len(writes) # 0
  <2>1. Len(writes) + 1 # 1 /\ (Len(writes) + 1) - 1 = Len(writes)
        /\ Len(writes) \in DOMAIN writes
      BY <1>1, <1>3
  <2> QED BY <2>1 DEF Latest, Before, Memories
<1> QED BY <1>2, <1>3

\* What a turn that is not answered shows changes nothing of what stands.
LEMMA StandsMore ==
    ASSUME NEW D, NEW sh \in Seq([turn : Turns, message : D]),
           NEW t \in Turns, NEW messages \in Seq(D),
           NEW entry, NEW label, label[t] # "done", Stands(entry, sh, label)
    PROVE  Stands(entry, sh \o Entries(t, messages), label)
<1> DEFINE more == sh \o Entries(t, messages)
           S == [turn : Turns, message : D]
<1>1. PICK j \in DOMAIN sh :
          sh[j] = entry /\ \A k \in DOMAIN sh : k > j => label[sh[k].turn] # "done"
    BY DEF Stands
<1>2. Entries(t, messages) \in Seq(S)
    BY DEF Entries
<1>3. /\ Len(sh) \in Nat /\ DOMAIN sh = 1..Len(sh)
      /\ DOMAIN more = 1..(Len(sh) + Len(messages)) /\ Len(messages) \in Nat
      /\ \A i \in 1..Len(sh) : more[i] = sh[i]
      /\ \A i \in 1..Len(messages) : more[Len(sh) + i] = [turn |-> t, message |-> messages[i]]
  <2>1. Len(Entries(t, messages)) = Len(messages)
      BY DEF Entries
  <2>2. \A i \in 1..Len(messages) : Entries(t, messages)[i] = [turn |-> t, message |-> messages[i]]
      BY DEF Entries
  <2> DEFINE more2 == Entries(t, messages)
  <2> HIDE DEF more2
  <2>3. more2 \in Seq(S) /\ Len(more2) = Len(messages) /\ Len(messages) \in Nat
      BY <1>2, <2>1 DEF more2
  <2>4. /\ Len(sh) \in Nat /\ DOMAIN sh = 1..Len(sh)
        /\ DOMAIN (sh \o more2) = 1..(Len(sh) + Len(messages))
        /\ \A i \in 1..Len(sh) : (sh \o more2)[i] = sh[i]
        /\ \A i \in 1..Len(messages) : (sh \o more2)[Len(sh) + i] = more2[i]
      BY <2>3
  <2> QED BY <2>2, <2>3, <2>4 DEF more2
<1> HIDE DEF more
<1>4. ASSUME NEW k \in DOMAIN more, k > j
      PROVE  label[more[k].turn] # "done"
  <2>1. CASE k \in 1..Len(sh)
      BY <1>1, <1>3, <1>4, <2>1
  <2>2. CASE k \notin 1..Len(sh)
    <3>1. k - Len(sh) \in 1..Len(messages) /\ k = Len(sh) + (k - Len(sh))
        BY <1>3, <2>2
    <3>2. more[k] = [turn |-> t, message |-> messages[k - Len(sh)]]
        BY <1>3, <3>1
    <3> QED BY <3>2
  <2> QED BY <2>1, <2>2
<1>5. j \in DOMAIN more /\ more[j] = entry
    BY <1>1, <1>3
<1> QED BY <1>4, <1>5 DEF Stands, more

\* One more entry of a turn that is not answered is no answer.
LEMMA KeptMore ==
    ASSUME NEW T \in Seq(Entry), NEW T2, NEW t \in Turns, Extends(t, T, T2),
           NEW sh, NEW label, label[t] # "done", Kept(T, sh, label)
    PROVE  Kept(T2, sh, label)
<1>1. CASE T2 = T
    BY <1>1
<1>2. ASSUME NEW m \in CoordinatorText, T2 = Plus(T, [turn |-> t, message |-> m])
      PROVE  Kept(T2, sh, label)
  <2> DEFINE entry == [turn |-> t, message |-> m]
  <2>1. entry \in Entry /\ entry.turn = t
      BY DEF Entry, CoordinatorText, Message
  <2> HIDE DEF entry
  <2>2. /\ DOMAIN T = 1..Len(T) /\ DOMAIN T2 = 1..(Len(T) + 1) /\ Len(T) \in Nat
        /\ \A i \in 1..Len(T) : T2[i] = T[i]
        /\ T2[Len(T) + 1] = entry
      BY <1>2, <2>1, OneMore DEF Plus, entry
  <2>3. ASSUME NEW i \in DOMAIN T2, LastAnswer(T2, i, label)
        PROVE  i \in DOMAIN T /\ LastAnswer(T, i, label) /\ T2[i] = T[i]
    <3>1. i # Len(T) + 1
        BY <2>1, <2>2, <2>3 DEF LastAnswer
    <3>2. i \in 1..Len(T)
        BY <2>2, <3>1
    <3> QED BY <2>2, <2>3, <3>2 DEF LastAnswer
  <2> QED BY <2>3 DEF Kept
<1> QED BY <1>1, <1>2 DEF Extends

\* What is kept depends on which turns are answered.
LEMMA KeptSame ==
    ASSUME NEW T \in Seq(Entry), NEW D, NEW sh \in Seq([turn : Turns, message : D]),
           NEW label, NEW label2, \A u \in Turns : label2[u] = "done" <=> label[u] = "done",
           Kept(T, sh, label)
    PROVE  Kept(T, sh, label2)
<1>1. /\ \A i \in DOMAIN T : T[i].turn \in Turns
      /\ \A i \in DOMAIN sh : sh[i].turn \in Turns
  <2>1. (\A i \in DOMAIN T : T[i] \in Entry)
        /\ \A i \in DOMAIN sh : sh[i] \in [turn : Turns, message : D]
      BY SeqElement
  <2> QED BY <2>1 DEF Entry
<1>2. ASSUME NEW i \in DOMAIN T, LastAnswer(T, i, label2)
      PROVE  Stands(T[i], sh, label2)
  <2>1. LastAnswer(T, i, label)
      BY <1>1, <1>2 DEF LastAnswer
  <2>2. Stands(T[i], sh, label)
      BY <2>1 DEF Kept
  <2> QED BY <1>1, <2>2 DEF Stands
<1> QED BY <1>2 DEF Kept

\* A step of turns that are not answered keeps what stands.
LEMMA AnswerFrame ==
    ASSUME TypeOK, AnswerInv, TypeOK',
           \A u \in Turns : pc'[u] = "done" <=> pc[u] = "done",
           \/ shown' = shown
           \/ \E t \in Turns, messages \in Seq(Displayed) :
                 pc[t] # "done" /\ shown' = shown \o Entries(t, messages),
           \A T \in Memories(checkpoint', writes') :
              \/ T \in Memories(checkpoint, writes)
              \/ \E t \in Turns, T0 \in Memories(checkpoint, writes) :
                    pc[t] # "done" /\ Extends(t, T0, T),
           \A u \in Turns : LastSaid(pc'[u], u, state'[u], task'[u], shown')
    PROVE  AnswerInv'
<1> DEFINE S == Seq([turn : Turns, message : Displayed])
<1>1. shown \in S /\ shown' \in S
    BY DEF TypeOK
<1>2. \A T \in Memories(checkpoint, writes) : T \in Seq(Entry)
    BY MemoriesType
<1>3. ASSUME NEW T \in Memories(checkpoint', writes')
      PROVE  Kept(T, shown', pc')
  <2>1. T \in Seq(Entry) /\ Kept(T, shown, pc)
    <3>1. CASE T \in Memories(checkpoint, writes)
        BY <1>2, <3>1 DEF AnswerInv
    <3>2. CASE \E t \in Turns, T0 \in Memories(checkpoint, writes) :
                    pc[t] # "done" /\ Extends(t, T0, T)
      <4>1. PICK t \in Turns, T0 \in Memories(checkpoint, writes) :
                    pc[t] # "done" /\ Extends(t, T0, T)
          BY <3>2
      <4>2. T0 \in Seq(Entry) /\ Kept(T0, shown, pc)
          BY <1>2 DEF AnswerInv
      <4>3. T \in Seq(Entry)
        <5>1. ASSUME NEW m \in CoordinatorText, T = Plus(T0, [turn |-> t, message |-> m])
              PROVE  T \in Seq(Entry)
          <6>1. [turn |-> t, message |-> m] \in Entry
              BY DEF Entry, CoordinatorText, Message
          <6> QED BY <4>2, <5>1, <6>1, OneMore DEF Plus
        <5> QED BY <4>1, <4>2, <5>1 DEF Extends
      <4> QED BY <4>1, <4>2, <4>3, KeptMore
    <3> QED BY <3>1, <3>2
  <2>2. Kept(T, shown', pc)
    <3>1. CASE shown' = shown
        BY <2>1, <3>1
    <3>2. CASE \E t \in Turns, messages \in Seq(Displayed) :
                 pc[t] # "done" /\ shown' = shown \o Entries(t, messages)
        BY <1>1, <2>1, <3>2, StandsMore DEF Kept
    <3> QED BY <3>1, <3>2
  <2> HIDE DEF S
  <2> QED BY <1>1, <2>1, <2>2, KeptSame DEF S
<1> QED BY <1>3 DEF AnswerInv

\* A superstep remembers at most one text more of its turn.
LEMMA AnswerSuperstep ==
    ASSUME TypeOK, SerialInv, AnswerInv, TypeOK', NEW t \in Turns, NEW s, NEW label,
           pc[t] \in {"invoke", "dispatch", "commit", "handoff"}, label \in Running,
           pc'[t] = label, \A u \in Turns \ {t} : pc'[u] = pc[u],
           Save(t, s), checkpoint' = checkpoint, shown' = shown, s \in WorkflowState,
           Extends(t, Latest(checkpoint, writes), s.transcript),
           LastSaid(label, t, state'[t], task'[t], shown)
    PROVE  AnswerInv'
<1>1. /\ \A u \in Turns \ {t} : pc'[u] = pc[u] /\ pc[u] \notin Running
      /\ pc[t] # "done" /\ label # "done"
    BY TheActive
<1>2. \A u \in Turns : pc'[u] = "done" <=> pc[u] = "done"
    BY <1>1
<1>3. \A u \in Turns : LastSaid(pc'[u], u, state'[u], task'[u], shown')
  <2>1. \A u \in Turns \ {t} : LastSaid(pc'[u], u, state'[u], task'[u], shown')
      BY <1>1, LastSaidIdle
  <2> QED BY <1>1, <2>1
<1>4. \A T \in Memories(checkpoint', writes') :
          T \in Memories(checkpoint, writes) \/ T = s.transcript
  <2> DEFINE write == [turn |-> t, transcript |-> s.transcript]
             W == [turn : Turns, transcript : Seq(Entry)]
  <2>1. write \in W /\ writes \in Seq(W) /\ writes' = Append(writes, write)
      BY DEF TypeOK, WorkflowState, Save
  <2>2. write.transcript = s.transcript
      OBVIOUS
  <2> HIDE DEF write, W
  <2>3. Queued(checkpoint, writes, write, writes')
      BY <2>1, BeforeMore
  <2>4. ASSUME NEW w \in DOMAIN writes'
        PROVE  \/ w \in DOMAIN writes /\ writes'[w] = writes[w]
               \/ writes'[w] = write
    <3>1. Len(writes) \in Nat
        BY <2>1
    <3> QED BY <2>3, <3>1 DEF Queued
  <2> QED BY <2>2, <2>4 DEF Memories
<1>5. Latest(checkpoint, writes) \in Memories(checkpoint, writes)
    BY LatestIsMemory
<1> QED BY <1>1, <1>2, <1>3, <1>4, <1>5, AnswerFrame

\* The handler of an agent has run: a final reply it streamed ends the thread.
LEMMA RunSaid ==
    ASSUME TypeOK, NEW t \in Turns, NEW e \in Results(t), RunAgent(t, e)
    PROVE  /\ LastSaid("emit", t, state'[t], task'[t], shown')
           /\ \E messages \in Seq(Displayed) : shown' = shown \o Entries(t, messages)
<1> DEFINE s == state[t]
           role == s.current
<1>1. WellFormed(role, s.reason, e)
    BY ResultsWellFormed
<1>2. /\ shown' = shown \o Entries(t, Deltas(role, e)) /\ task'[t].exec = e
      /\ shown \in Thread(Displayed)
    BY DEF RunAgent, TypeOK, Task, Thread, Said
<1>3. role \in AgentRole /\ e \in Execution
    BY <1>1 DEF WellFormed, TypeOK, WorkflowState
<1>4. Deltas(role, e) \in Seq(Displayed)
    BY <1>3, ShownType
<1>5. ASSUME e.handoffs = <<>>, e.streamed
      PROVE  Ends(shown', t, e.messages[1])
  <2>1. PICK m \in Remark(Kinds \ {"kickoff"}) : e.messages = <<m>>
      BY <1>1, <1>5 DEF WellFormed, PassesOn, Final
  <2>2. Deltas(role, e) = <<m>> /\ e.messages[1] = m /\ m \in Displayed
      BY <1>5, <2>1 DEF Deltas, Remark, Displayed, Message
  <2>3. shown' = shown \o <<[turn |-> t, message |-> m]>>
      BY <1>2, <2>2, FewEntries DEF Thread
  <2>4. [turn |-> t, message |-> m] \in Said(Displayed)
      BY <2>2 DEF Said
  <2>5. Len(shown') = Len(shown) + 1 /\ shown'[Len(shown) + 1] = [turn |-> t, message |-> m]
        /\ Len(shown) \in Nat
      BY <1>2, <2>3, <2>4, OneMore DEF Thread
  <2>6. shown' # <<>>
      BY <2>5
  <2> QED BY <2>2, <2>5, <2>6 DEF Ends
<1>6. LastSaid("emit", t, state'[t], task'[t], shown')
    BY <1>2, <1>5 DEF LastSaid
<1> QED BY <1>2, <1>4, <1>6

\* A final reply is committed as the last entry of the transcript.
LEMMA CommitSaid ==
    ASSUME TypeOK, TurnInv, VoiceInv, AnswerInv, NEW t \in Turns, CommitAgent(t)
    PROVE  LastSaid(pc'[t], t, state'[t], task'[t], shown)
<1> DEFINE s == state[t]
           x == task[t]
           e == x.exec
           r == AfterAgent(s, t, e)
           label == IF e.handoffs # <<>> THEN "handoff" ELSE "publish"
<1>1. Superstep(t, r, label) /\ pc[t] = "commit"
    BY DEF CommitAgent
<1>2. /\ WellFormed(s.current, s.reason, e) /\ Speaking("commit", s, x, Heard(t))
      /\ LastSaid("commit", t, s, x, shown)
    BY <1>1 DEF TurnInv, Shape, VoiceInv, Voiced, AnswerInv
<1>3. pc'[t] = label /\ state'[t] = r /\ task'[t].streamed = x.streamed
    BY <1>1, SuperstepEffect, SuperstepTask
<1>4. /\ s \in WorkflowState /\ e \in Execution /\ s.turn \in Seq(Message)
      /\ s.transcript \in Seq(Entry)
    BY <1>2 DEF TypeOK, WorkflowState, WellFormed
<1>5. CASE e.handoffs # <<>>
    BY <1>3, <1>5, LastSaidIdle
<1>6. CASE e.handoffs = <<>>
  <2>1. PICK m \in Remark(Kinds \ {"kickoff"}) : e.messages = <<m>>
      BY <1>2, <1>6 DEF WellFormed, PassesOn, Final
  <2>2. m \in Message /\ e.messages[1] = m /\ [turn |-> t, message |-> m] \in Entry
      BY <2>1 DEF Remark, Message, Entry
  <2>3. r.turn = s.turn \o <<m>> /\ r.transcript = s.transcript \o Entries(t, <<m>>)
      BY <1>4, <2>1 DEF AfterAgent, WorkflowState
  <2> HIDE DEF r
  <2>4. r.transcript = s.transcript \o <<[turn |-> t, message |-> m]>>
      BY <1>4, <2>3, FewEntries
  <2>5. r.turn[Len(r.turn)] = m
      BY <1>4, <2>2, <2>3, OneMore
  <2>6. Ends(r.transcript, t, m)
    <3>1. /\ Len(r.transcript) = Len(s.transcript) + 1 /\ Len(s.transcript) \in Nat
          /\ r.transcript[Len(s.transcript) + 1] = [turn |-> t, message |-> m]
        BY <1>4, <2>2, <2>4, OneMore
    <3>2. r.transcript # <<>>
        BY <3>1
    <3> QED BY <3>1, <3>2 DEF Ends
  <2>7. x.streamed => Ends(shown, t, m)
      BY <1>2, <1>6, <2>2 DEF Speaking, LastSaid
  <2>8. label = "publish"
      BY <1>6
  <2> QED BY <1>3, <2>5, <2>6, <2>7, <2>8 DEF LastSaid
<1> QED BY <1>5, <1>6

\* Publishing the reply makes it the last answer, of the memory and of the thread.
LEMMA PublishAnswers ==
    ASSUME TypeOK, TypeOK', TurnInv, VoiceInv, SerialInv, AnswerInv, NEW t \in Turns,
           PublishTranscript(t)
    PROVE  AnswerInv'
<1> DEFINE s == state[t]
           x == task[t]
           T == s.transcript
           said == s.turn[Len(s.turn)]
           messages == Unsent(s.turn, x.published, x.streamed)
<1>1. /\ pc[t] = "publish" /\ shown' = shown \o Entries(t, messages)
      /\ pc'[t] = "done" /\ \A u \in Turns \ {t} : pc'[u] = pc[u]
      /\ checkpoint' = checkpoint /\ writes' = writes
    BY DEF PublishTranscript, Goto, TypeOK
<1>2. writes = <<>> /\ \A u \in Turns \ {t} : pc[u] \notin Running
    BY TheActive DEF PublishTranscript
<1>3. checkpoint = T
    BY <1>1, <1>2 DEF SerialInv, InLine, Latest, Before
<1>4. Memories(checkpoint', writes') = {T}
    BY <1>1, <1>2, <1>3 DEF Memories
<1>5. LastSaid("publish", t, s, x, shown)
    BY <1>1 DEF AnswerInv
<1>6. /\ T \in Seq(Entry) /\ x.published \in Seq(Message) /\ shown \in Thread(Displayed)
    BY DEF TypeOK, WorkflowState, Task, Thread, Said
<1>7. /\ said.agent = Coordinator /\ said \in Message
      /\ messages = IF x.streamed THEN <<>> ELSE <<said>>
    BY <1>1, LeftToSay
<1> HIDE DEF messages, said
<1>8. Ends(shown', t, said)
  <2>1. CASE x.streamed
    <3>1. shown' = shown
        BY <1>1, <1>6, <1>7, <2>1, FewEntries DEF Thread
    <3> QED BY <1>5, <2>1, <3>1 DEF LastSaid, said
  <2>2. CASE ~ x.streamed
    <3>1. shown' = shown \o <<[turn |-> t, message |-> said]>>
        BY <1>1, <1>6, <1>7, <2>2, FewEntries DEF Thread
    <3>2. [turn |-> t, message |-> said] \in Said(Displayed)
        BY <1>7 DEF Said, Displayed
    <3>3. /\ Len(shown') = Len(shown) + 1 /\ Len(shown) \in Nat
          /\ shown'[Len(shown) + 1] = [turn |-> t, message |-> said]
        BY <1>6, <3>1, <3>2, OneMore DEF Thread
    <3>4. shown' # <<>>
        BY <3>3
    <3> QED BY <3>3, <3>4 DEF Ends
  <2> QED BY <2>1, <2>2
<1>9. Kept(T, shown', pc')
  <2>1. T # <<>> /\ T[Len(T)] = [turn |-> t, message |-> said]
      BY <1>5 DEF LastSaid, Ends, said
  <2>2. ASSUME NEW i \in DOMAIN T, LastAnswer(T, i, pc')
        PROVE  Stands(T[i], shown', pc')
    <3>1. Len(T) \in DOMAIN T /\ DOMAIN T = 1..Len(T) /\ Len(T) \in Nat
        BY <1>6, <2>1
    <3>2. T[Len(T)].message.agent = Coordinator /\ pc'[T[Len(T)].turn] = "done"
        BY <1>1, <1>7, <2>1
    <3>3. i = Len(T)
        BY <2>2, <3>1, <3>2 DEF LastAnswer
    <3>4. shown' # <<>> /\ shown'[Len(shown')] = T[i]
        BY <1>8, <2>1, <3>3 DEF Ends
    <3>5. /\ Len(shown') \in DOMAIN shown'
          /\ \A k \in DOMAIN shown' : ~ (k > Len(shown'))
      <4>1. shown' \in Seq(Said(Displayed))
          BY DEF TypeOK, Said
      <4> QED BY <3>4, <4>1
    <3> QED BY <3>4, <3>5 DEF Stands
  <2> QED BY <2>2 DEF Kept
<1>10. \A u \in Turns : LastSaid(pc'[u], u, state'[u], task'[u], shown')
  <2>1. \A u \in Turns : pc'[u] \notin {"emit", "commit", "publish"}
      BY <1>1, <1>2
  <2> QED BY <2>1, LastSaidIdle
<1> QED BY <1>4, <1>9, <1>10 DEF AnswerInv

\* With one turn at a time, the last thing an answered turn said, in any memory a
\* turn may read, stands in the thread as the last an answered turn said there.
THEOREM AnswersStand == ASSUME MaxActive = 1 PROVE Spec => []AnswerInv
<1>1. Init => AnswerInv
  <2> SUFFICES ASSUME Init PROVE AnswerInv
      OBVIOUS
  <2>1. Memories(checkpoint, writes) = {<<>>}
      BY DEF Init, Memories
  <2>2. Kept(<<>>, shown, pc)
      BY DEF Kept
  <2>3. \A t \in Turns : LastSaid(pc[t], t, state[t], task[t], shown)
      BY LastSaidIdle DEF Init
  <2> QED BY <2>1, <2>2, <2>3 DEF AnswerInv
<1>2. TypeOK /\ TypeOK' /\ TurnInv /\ VoiceInv /\ SerialInv /\ AnswerInv /\ [Next]_vars
          => AnswerInv'
  <2> SUFFICES ASSUME TypeOK, TypeOK', TurnInv, VoiceInv, SerialInv, AnswerInv, [Next]_vars
               PROVE  AnswerInv'
      OBVIOUS
  <2>0. ASSUME NEW t \in Turns
        PROVE  /\ LastSaid(pc[t], t, state[t], task[t], shown)
               /\ InLine(pc[t], t, state[t], checkpoint, writes)
               /\ state[t] \in WorkflowState
      BY DEF AnswerInv, SerialInv, TypeOK
  <2>1. ASSUME NEW t \in Turns, NEW label \in Running \cup {"failed"}, shown' = shown,
               checkpoint' = checkpoint, writes' = writes,
               \A u \in Turns \ {t} : /\ pc'[u] = pc[u] /\ state'[u] = state[u]
                                      /\ task'[u] = task[u],
               pc'[t] = label, pc[t] # "done",
               LastSaid(label, t, state'[t], task'[t], shown)
        PROVE  AnswerInv'
    <3>1. \A u \in Turns : LastSaid(pc'[u], u, state'[u], task'[u], shown')
        BY <2>0, <2>1
    <3>2. \A u \in Turns : pc'[u] = "done" <=> pc[u] = "done"
        BY <2>1
    <3> QED BY <2>1, <3>1, <3>2, AnswerFrame
  <2>2. ASSUME NEW t \in Turns, NEW m \in Messages, Receive(t, m)
        PROVE  AnswerInv'
      BY <2>1, <2>2, LastSaidIdle DEF Receive, Goto, TypeOK
  <2>3. ASSUME NEW t \in Turns, NEW env \in Environments, InitializeToolset(t, env)
        PROVE  AnswerInv'
      BY <2>1, <2>3, LastSaidIdle DEF InitializeToolset, Goto, TypeOK
  <2>4. ASSUME NEW t \in Turns, Invoke(t)
        PROVE  AnswerInv'
    <3> DEFINE s == InitialState(checkpoint)
    <3>1. writes = <<>> /\ pc[t] = "invoke" /\ checkpoint \in Seq(Entry)
        BY <2>0, <2>4 DEF Invoke, InLine, TypeOK
    <3>2. s.transcript = checkpoint /\ s \in WorkflowState
        BY <3>1, StateTypes DEF InitialState
    <3> HIDE DEF s
    <3>3. Extends(t, Latest(checkpoint, writes), s.transcript)
        BY <3>1, <3>2 DEF Extends, Latest, Before
    <3>4. LastSaid("dispatch", t, state'[t], task'[t], shown)
        BY LastSaidIdle
    <3>5. /\ pc'[t] = "dispatch" /\ \A u \in Turns \ {t} : pc'[u] = pc[u]
          /\ Save(t, s) /\ checkpoint' = checkpoint /\ shown' = shown
        BY <2>4 DEF Invoke, Goto, TypeOK, s
    <3>6. pc[t] \in {"invoke", "dispatch", "commit", "handoff"} /\ "dispatch" \in Running
        BY <3>1
    <3> QED BY <3>2, <3>3, <3>4, <3>5, <3>6, AnswerSuperstep
  <2>5. ASSUME NEW t \in Turns, DispatchNode(t)
        PROVE  AnswerInv'
    <3> DEFINE s == AfterDispatch(state[t])
    <3>1. pc[t] = "dispatch" /\ InLine("dispatch", t, state[t], checkpoint, writes)
        BY <2>0, <2>5 DEF DispatchNode
    <3>2. s.transcript = state[t].transcript /\ s \in WorkflowState
        BY <2>0, StateTypes DEF AfterDispatch, WorkflowState
    <3> HIDE DEF s
    <3>3. Extends(t, Latest(checkpoint, writes), s.transcript)
        BY <3>1, <3>2 DEF InLine, Extends
    <3>4. LastSaid("agent", t, state'[t], task'[t], shown)
        BY LastSaidIdle
    <3>5. /\ pc'[t] = "agent" /\ \A u \in Turns \ {t} : pc'[u] = pc[u]
          /\ Save(t, s) /\ checkpoint' = checkpoint /\ shown' = shown
        BY <2>5 DEF DispatchNode, Superstep, Goto, TypeOK, s
    <3>6. pc[t] \in {"invoke", "dispatch", "commit", "handoff"} /\ "agent" \in Running
        BY <3>1
    <3> QED BY <3>2, <3>3, <3>4, <3>5, <3>6, AnswerSuperstep
  <2>6. ASSUME NEW t \in Turns, NEW e \in Results(t), RunAgent(t, e)
        PROVE  AnswerInv'
    <3>1. /\ pc[t] = "agent" /\ pc'[t] = "emit" /\ UNCHANGED <<checkpoint, writes>>
          /\ \A u \in Turns \ {t} : pc'[u] = pc[u]
        BY <2>6 DEF RunAgent, Goto, TypeOK
    <3>2. \A u \in Turns \ {t} : pc'[u] \notin Running
        BY <3>1, TheActive
    <3>3. /\ LastSaid("emit", t, state'[t], task'[t], shown')
          /\ \E messages \in Seq(Displayed) : shown' = shown \o Entries(t, messages)
        BY <2>6, RunSaid
    <3>4. \A u \in Turns : LastSaid(pc'[u], u, state'[u], task'[u], shown')
      <4>1. \A u \in Turns \ {t} : LastSaid(pc'[u], u, state'[u], task'[u], shown')
          BY <3>2, LastSaidIdle
      <4> QED BY <3>1, <3>3, <4>1
    <3>5. \A u \in Turns : pc'[u] = "done" <=> pc[u] = "done"
        BY <3>1
    <3>6. Memories(checkpoint', writes') = Memories(checkpoint, writes)
        BY <3>1
    <3>7. pc[t] # "done"
        BY <3>1
    <3> QED BY <3>3, <3>4, <3>5, <3>6, <3>7, AnswerFrame
  <2>7. ASSUME NEW t \in Turns, EmitPublicMessages(t)
        PROVE  AnswerInv'
    <3> DEFINE e == task[t].exec
    <3>1. /\ pc[t] = "emit" /\ pc'[t] = "commit" /\ UNCHANGED <<checkpoint, writes>>
          /\ \A u \in Turns \ {t} : pc'[u] = pc[u]
          /\ shown' = shown \o Entries(t, Announced(e)) /\ task'[t].exec = e
        BY <2>7 DEF EmitPublicMessages, Goto, TypeOK, Task
    <3>2. \A u \in Turns \ {t} : pc'[u] \notin Running
        BY <3>1, TheActive
    <3>3. e \in Execution /\ shown \in Seq(Said(Displayed))
        BY DEF TypeOK, Task, Said
    <3>4. Announced(e) \in Seq(Displayed)
        BY <3>3 DEF Announced, Execution, Displayed
    <3>5. e.handoffs = <<>> => shown' = shown
        BY <3>1, <3>3, FewEntries DEF Announced
    <3>6. LastSaid("commit", t, state'[t], task'[t], shown')
        BY <2>0, <3>1, <3>5 DEF LastSaid
    <3>7. \A u \in Turns : LastSaid(pc'[u], u, state'[u], task'[u], shown')
      <4>1. \A u \in Turns \ {t} : LastSaid(pc'[u], u, state'[u], task'[u], shown')
          BY <3>2, LastSaidIdle
      <4> QED BY <3>1, <3>6, <4>1
    <3>8. (\A u \in Turns : pc'[u] = "done" <=> pc[u] = "done") /\ pc[t] # "done"
        BY <3>1
    <3>9. Memories(checkpoint', writes') = Memories(checkpoint, writes)
        BY <3>1
    <3> QED BY <3>1, <3>4, <3>7, <3>8, <3>9, AnswerFrame
  <2>8. ASSUME NEW t \in Turns, CommitAgent(t)
        PROVE  AnswerInv'
    <3> DEFINE e == task[t].exec
               s == AfterAgent(state[t], t, e)
               label == IF e.handoffs # <<>> THEN "handoff" ELSE "publish"
    <3>1. pc[t] = "commit" /\ InLine("commit", t, state[t], checkpoint, writes)
        BY <2>0, <2>8 DEF CommitAgent
    <3>2. WellFormed(state[t].current, state[t].reason, e)
        BY <3>1 DEF TurnInv, Shape
    <3>3. s \in WorkflowState /\ Extends(t, Latest(checkpoint, writes), s.transcript)
        BY <2>0, <3>1, <3>2, AgentSaid DEF InLine
    <3>4. LastSaid(pc'[t], t, state'[t], task'[t], shown)
        BY <2>8, CommitSaid
    <3> HIDE DEF s
    <3>5. /\ pc'[t] = label /\ \A u \in Turns \ {t} : pc'[u] = pc[u]
          /\ Save(t, s) /\ checkpoint' = checkpoint /\ shown' = shown
        BY <2>8 DEF CommitAgent, Superstep, Goto, TypeOK, s
    <3>6. label \in Running /\ pc'[t] = label
        BY <3>5
    <3> HIDE DEF label
    <3>7. pc[t] \in {"invoke", "dispatch", "commit", "handoff"}
        BY <3>1
    <3>8. LastSaid(label, t, state'[t], task'[t], shown)
        BY <3>4, <3>6
    <3> QED BY <3>3, <3>5, <3>6, <3>7, <3>8, AnswerSuperstep
  <2>9. ASSUME NEW t \in Turns, HandoffNode(t)
        PROVE  AnswerInv'
    <3> DEFINE s == AfterHandoff(state[t])
    <3>1. pc[t] = "handoff" /\ InLine("handoff", t, state[t], checkpoint, writes)
        BY <2>0, <2>9 DEF HandoffNode
    <3>2. s.transcript = state[t].transcript /\ s \in WorkflowState
      <4>1. state[t].pending # <<>>
          BY <2>9 DEF HandoffNode
      <4>2. s \in WorkflowState
          BY <2>0, <4>1, StateTypes
      <4> QED BY <2>0, <4>2 DEF AfterHandoff, WorkflowState
    <3> HIDE DEF s
    <3>3. Extends(t, Latest(checkpoint, writes), s.transcript)
        BY <3>1, <3>2 DEF InLine, Extends
    <3>4. LastSaid("agent", t, state'[t], task'[t], shown)
        BY LastSaidIdle
    <3>5. /\ pc'[t] = "agent" /\ \A u \in Turns \ {t} : pc'[u] = pc[u]
          /\ Save(t, s) /\ checkpoint' = checkpoint /\ shown' = shown
        BY <2>9 DEF HandoffNode, Superstep, Goto, TypeOK, s
    <3>6. pc[t] \in {"invoke", "dispatch", "commit", "handoff"} /\ "agent" \in Running
        BY <3>1
    <3> QED BY <3>2, <3>3, <3>4, <3>5, <3>6, AnswerSuperstep
  <2>10. ASSUME NEW t \in Turns, PublishTranscript(t)
         PROVE  AnswerInv'
      BY <2>10, PublishAnswers
  <2>11. ASSUME NEW t \in Turns, FailStep(t)
         PROVE  AnswerInv'
    <3>1. /\ pc[t] # "done" /\ pc'[t] = "failing"
          /\ \A u \in Turns \ {t} : pc'[u] = pc[u]
          /\ UNCHANGED <<task, state, checkpoint, writes, shown>>
        BY <2>11 DEF FailStep, Goto, TypeOK
    <3>2. LastSaid("failing", t, state'[t], task'[t], shown)
        BY LastSaidIdle
    <3> QED BY <2>1, <3>1, <3>2
  <2>12. ASSUME NEW t \in Turns, ReportError(t)
         PROVE  AnswerInv'
      BY <2>1, <2>12, LastSaidIdle DEF ReportError, Goto, TypeOK
  <2>13. CASE Persist
    <3>1. /\ writes \in Seq([turn : Turns, transcript : Seq(Entry)]) /\ writes # <<>>
          /\ checkpoint' = Head(writes).transcript /\ writes' = Tail(writes)
          /\ UNCHANGED <<pc, state, task, shown>>
        BY <2>13 DEF Persist, TypeOK
    <3>2. /\ DOMAIN writes' = 1..(Len(writes) - 1) /\ DOMAIN writes = 1..Len(writes)
          /\ \A w \in 1..(Len(writes) - 1) : writes'[w] = writes[w + 1]
          /\ Len(writes) \in Nat \ {0} /\ Head(writes) = writes[1]
        BY <3>1, BeforeLess
    <3>3. \A T \in Memories(checkpoint', writes') : T \in Memories(checkpoint, writes)
      <4>1. 1 \in DOMAIN writes /\ \A w \in DOMAIN writes' : w + 1 \in DOMAIN writes
          BY <3>2
      <4> QED BY <3>1, <3>2, <4>1 DEF Memories
    <3> QED BY <2>0, <3>1, <3>3, AnswerFrame
  <2>14. CASE Crash
    <3>1. /\ checkpoint' = checkpoint /\ writes' = <<>> /\ shown' = shown
          /\ \A u \in Turns : pc'[u] = IF pc[u] \in Running THEN "lost" ELSE pc[u]
        BY <2>14 DEF Crash, Active
    <3>2. \A T \in Memories(checkpoint', writes') : T \in Memories(checkpoint, writes)
        BY <3>1 DEF Memories
    <3>3. \A u \in Turns : pc'[u] \notin {"emit", "commit", "publish"}
                            /\ (pc'[u] = "done" <=> pc[u] = "done")
        BY <3>1
    <3>4. \A u \in Turns : LastSaid(pc'[u], u, state'[u], task'[u], shown')
        BY <3>3, LastSaidIdle
    <3> QED BY <3>1, <3>2, <3>3, <3>4, AnswerFrame
  <2>15. CASE UNCHANGED vars
      BY <2>15 DEF AnswerInv, vars
  <2> QED
      BY <2>2, <2>3, <2>4, <2>5, <2>6, <2>7, <2>8, <2>9, <2>10, <2>11, <2>12, <2>13,
         <2>14, <2>15 DEF Next, Progress
<1> QED
    BY <1>1, <1>2, TypeCorrect, TurnShape, VoiceKept, SerialKept, PTL DEF Spec

\* With one turn at a time, the code publishes a prototype and saves the PRD of
\* picked options on an answer to what the thread still shows as the last thing an
\* answered turn said, whatever failed or died in between.
THEOREM ConsentsCurrent == ASSUME MaxActive = 1 PROVE Spec => ConsentIsCurrent
<1> DEFINE Step ==
        /\ \A t \in deploys' \ deploys : CurrentQuestion(t, "prototype")
        /\ \A t \in pages' \ pages :
              "prd_request" \in request[t].matches \/ CurrentQuestion(t, "option")
<1>1. TypeOK /\ ConsentInv /\ SerialInv /\ AnswerInv /\ [Next]_vars => [Step]_vars
  <2> SUFFICES ASSUME TypeOK, ConsentInv, SerialInv, AnswerInv, [Next]_vars PROVE Step
      OBVIOUS
  <2>1. ASSUME NEW t \in Turns, pc[t] = "agent", NEW question, OpenQuestion(t, question)
        PROVE  CurrentQuestion(t, question)
    <3> DEFINE T == state[t].transcript
    <3>1. PICK i \in DOMAIN T : LastWord(t, i) /\ question \in T[i].message.asks
        BY <2>1 DEF OpenQuestion
    <3>2. Kept(T, shown, pc)
      <4>1. T = Latest(checkpoint, writes)
          BY <2>1 DEF SerialInv, InLine
      <4> QED BY <4>1, LatestIsMemory DEF AnswerInv
    <3>3. ASSUME pc[T[i].turn] = "done"
          PROVE  StillStands(T[i])
      <4>1. \A k \in DOMAIN T : k > i /\ T[k].message.agent = Coordinator => T[k].turn = t
        <5>1. T \in Seq(Entry)
            BY DEF TypeOK, WorkflowState
        <5>2. \A k \in DOMAIN T : ~ (k > i /\ k <= i)
            BY <5>1
        <5> QED BY <3>1, <5>2 DEF LastWord
      <4>2. LastAnswer(T, i, pc)
          BY <2>1, <3>1, <3>3, <4>1 DEF LastAnswer, LastWord
      <4>3. Stands(T[i], shown, pc)
          BY <3>2, <4>2 DEF Kept
      <4> QED BY <4>3 DEF Stands, StillStands
    <3> QED BY <3>1, <3>3 DEF CurrentQuestion
  <2> QED BY <2>1, EffectsStep
<1>2. [][Step]_vars <=> ConsentIsCurrent
    BY DEF ConsentIsCurrent
<1> QED
    BY <1>1, <1>2, TypeCorrect, ConsentKept, SerialKept, AnswersStand, PTL DEF Spec
=============================================================================
