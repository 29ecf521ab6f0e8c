--------------------------- MODULE DeliveryProofs ---------------------------
(***************************************************************************)
(* Theorems about module Delivery, for any replies, acknowledgements and   *)
(* statuses, any window and limit, and any bounds.                         *)
(***************************************************************************)
EXTENDS Delivery, SequenceTheorems, WellFoundedInduction, TLAPS

-----------------------------------------------------------------------------
(* Induction on naturals and on sequences, for sets.                       *)

\* A set of naturals that has a member has a least one.
LEMMA Least ==
    ASSUME NEW T \in SUBSET Nat, T # {}
    PROVE  \E x \in T : \A y \in T : x <= y
<1> DEFINE less == {pair \in Nat \X Nat : pair[1] < pair[2]}
<1>1. IsWellFoundedOn(less, Nat)
  <2>1. OpToRel(<, Nat) = less
      BY DEF OpToRel
  <2> QED BY <2>1, NatLessThanWellFounded
<1>2. PICK x \in T : \A y \in T : ~ (<<y, x>> \in less)
    BY <1>1, WFMin
<1>3. ASSUME NEW y \in T
      PROVE  x <= y
  <2>1. <<y, x>> \notin less
      BY <1>2
  <2>2. ~ (y < x)
      BY <2>1
  <2> QED BY <2>2
<1> QED BY <1>3

LEMMA NaturalsCovered ==
    ASSUME NEW T \in SUBSET Nat, 0 \in T, \A n \in T : n + 1 \in T
    PROVE  T = Nat
<1>1. ASSUME Nat \ T # {}
      PROVE  FALSE
  <2>1. PICK x \in Nat \ T : \A y \in Nat \ T : x <= y
      BY <1>1, Least
  <2>2. x - 1 \in Nat /\ ~ (x <= x - 1)
      BY <2>1
  <2>3. x - 1 \in T
      BY <2>1, <2>2
  <2> QED BY <2>1, <2>3
<1> QED BY <1>1

LEMMA SequencesCovered ==
    ASSUME NEW S, NEW T \in SUBSET Seq(S), <<>> \in T,
           \A q \in T, x \in S : Append(q, x) \in T
    PROVE  T = Seq(S)
<1> DEFINE N == {n \in Nat : \A q \in Seq(S) : Len(q) = n => q \in T}
<1>1. 0 \in N
  <2>1. \A q \in Seq(S) : Len(q) = 0 => q = <<>>
      BY EmptySeq
  <2> QED BY <2>1
<1>2. ASSUME NEW n \in N
      PROVE  n + 1 \in N
  <2>1. ASSUME NEW q \in Seq(S), Len(q) = n + 1
        PROVE  q \in T
    <3>1. q # <<>>
        BY <2>1, <1>2, EmptySeq
    <3>2. PICK p \in Seq(S), x \in S : q = Append(p, x)
        BY <3>1, SequenceEmptyOrAppend
    <3>3. Len(p) = n
        BY <3>2, <2>1, <1>2, AppendProperties, LenProperties
    <3>4. p \in T
        BY <3>3, <1>2
    <3> QED BY <3>2, <3>4
  <2>2. n + 1 \in Nat
      BY <1>2
  <2> QED BY <2>1, <2>2
<1>3. N \in SUBSET Nat
    OBVIOUS
<1> HIDE DEF N
<1>4. N = Nat
    BY <1>1, <1>2, <1>3, NaturalsCovered
<1>5. \A q \in Seq(S) : Len(q) \in Nat
    BY LenProperties
<1> QED BY <1>4, <1>5 DEF N

\* What Append does, for members of any set.
LEMMA Grown ==
    ASSUME NEW S, NEW q \in Seq(S), NEW x \in S
    PROVE  /\ Append(q, x) \in Seq(S) /\ Len(Append(q, x)) = Len(q) + 1
           /\ Len(q) \in Nat
           /\ \A i \in 1..Len(q) : Append(q, x)[i] = q[i]
           /\ Append(q, x)[Len(q) + 1] = x
OBVIOUS

LEMMA ConcatAppend ==
    ASSUME NEW S, NEW p \in Seq(S), NEW q \in Seq(S), NEW x \in S
    PROVE  p \o Append(q, x) = Append(p \o q, x) /\ p \o q \in Seq(S)
<1>1. /\ p \o Append(q, x) \in Seq(S)
      /\ Append(p \o q, x) \in Seq(S) /\ p \o q \in Seq(S)
      /\ Len(p \o Append(q, x)) = Len(p) + Len(q) + 1
      /\ Len(Append(p \o q, x)) = Len(p) + Len(q) + 1
    OBVIOUS
<1>2. \A i \in 1..(Len(p) + Len(q) + 1) :
          (p \o Append(q, x))[i] = Append(p \o q, x)[i]
    OBVIOUS
<1> QED BY <1>1, <1>2, SeqEqual

LEMMA TableIsSequence ==
    ASSUME NEW S, NEW n \in Nat, NEW f \in [1..n -> S]
    PROVE  f \in Seq(S) /\ Len(f) = n
OBVIOUS

\* A sequence that starts as p and goes on as q.
LEMMA Joined ==
    ASSUME NEW S, NEW p \in Seq(S), NEW q \in Seq(S), NEW r \in Seq(S),
           Len(r) = Len(p) + Len(q),
           \A i \in 1..Len(p) : r[i] = p[i],
           \A i \in 1..Len(q) : r[Len(p) + i] = q[i]
    PROVE  r = p \o q
<1>1. p \o q \in Seq(S) /\ Len(p \o q) = Len(r)
    OBVIOUS
<1>2. ASSUME NEW i \in 1..Len(r)
      PROVE  r[i] = (p \o q)[i]
  <2>1. CASE i <= Len(p)
      BY <2>1
  <2>2. CASE ~ (i <= Len(p))
    <3>1. i - Len(p) \in 1..Len(q) /\ Len(p) + (i - Len(p)) = i
        BY <2>2
    <3>2. r[i] = q[i - Len(p)]
        BY <3>1
    <3> QED BY <2>2, <3>1, <3>2
  <2> QED BY <2>1, <2>2
<1> QED BY <1>1, <1>2, SeqEqual

-----------------------------------------------------------------------------
(* FlattenSeq: its value on a sequence that grows at the end.              *)

\* f is the function FlattenSeq computes along q.
Flattens(q, f) ==
    f = [i \in 1..Len(q) |-> IF i = 1 THEN q[i] ELSE f[i - 1] \o q[i]]

LEMMA FlattenRun ==
    ASSUME NEW S, NEW q \in Seq(Seq(S))
    PROVE  \E f \in [1..Len(q) -> Seq(S)] : Flattens(q, f)
<1> DEFINE T == {p \in Seq(Seq(S)) :
                    \E f \in [1..Len(p) -> Seq(S)] : Flattens(p, f)}
<1>1. <<>> \in T
  <2>1. <<>> \in Seq(Seq(S)) /\ Len(<<>>) = 0
      BY EmptySeq
  <2>2. <<>> \in [1..0 -> Seq(S)]
      OBVIOUS
  <2>3. Flattens(<<>>, <<>>)
      BY <2>1 DEF Flattens
  <2> QED BY <2>1, <2>2, <2>3
<1>2. ASSUME NEW p \in T, NEW x \in Seq(S)
      PROVE  Append(p, x) \in T
  <2>1. PICK f \in [1..Len(p) -> Seq(S)] : Flattens(p, f)
      BY <1>2
  <2> DEFINE n == Len(p)
  <2> DEFINE g == [i \in 1..(n + 1) |->
                      IF i \in 1..n THEN f[i] ELSE IF i = 1 THEN x ELSE f[n] \o x]
  <2>2. /\ Append(p, x) \in Seq(Seq(S)) /\ Len(Append(p, x)) = n + 1 /\ n \in Nat
        /\ \A i \in 1..n : Append(p, x)[i] = p[i]
        /\ Append(p, x)[n + 1] = x
      BY Grown
  <2>3. g \in [1..(n + 1) -> Seq(S)]
    <3>1. ASSUME NEW i \in 1..(n + 1)
          PROVE  g[i] \in Seq(S)
      <4>1. CASE i \in 1..n
          BY <4>1
      <4>2. CASE i = 1 /\ i \notin 1..n
          BY <4>2
      <4>3. CASE i # 1 /\ i \notin 1..n
        <5>1. n \in 1..n
            BY <4>3, <2>2
        <5>2. f[n] \in Seq(S)
            BY <5>1
        <5>3. f[n] \o x \in Seq(S)
            BY <5>2, ConcatProperties
        <5> QED BY <5>3, <4>3
      <4> QED BY <4>1, <4>2, <4>3
    <3> QED BY <3>1
  <2>4. ASSUME NEW i \in 1..(n + 1)
        PROVE  g[i] = IF i = 1 THEN Append(p, x)[i] ELSE g[i - 1] \o Append(p, x)[i]
    <3>1. CASE i \in 1..n
      <4>1. f[i] = IF i = 1 THEN p[i] ELSE f[i - 1] \o p[i]
          BY <2>1, <3>1 DEF Flattens
      <4>2. i # 1 => i - 1 \in 1..n
          BY <3>1, <2>2
      <4>3. i # 1 => g[i - 1] = f[i - 1]
          BY <4>2, <2>2
      <4> QED BY <3>1, <4>1, <4>3, <2>2
    <3>2. CASE i = n + 1
      <4>1. i \notin 1..n
          BY <3>2, <2>2
      <4>2. g[i] = IF i = 1 THEN x ELSE f[n] \o x
          BY <4>1
      <4>3. i # 1 => n \in 1..n
          BY <3>2, <2>2
      <4>4. i # 1 => g[i - 1] = f[n]
          BY <3>2, <4>3, <2>2
      <4> QED BY <4>2, <4>4, <3>2, <2>2
    <3> QED BY <3>1, <3>2, <2>2
  <2>5. Flattens(Append(p, x), g)
    <3> DEFINE h == [i \in 1..Len(Append(p, x)) |->
                        IF i = 1 THEN Append(p, x)[i]
                        ELSE g[i - 1] \o Append(p, x)[i]]
    <3>1. DOMAIN h = DOMAIN g
        BY <2>2
    <3>2. \A i \in 1..(n + 1) : h[i] = g[i]
        BY <2>4, <2>2
    <3> HIDE DEF g
    <3>3. g = h
        BY <3>1, <3>2, <2>2, <2>3
    <3> QED BY <3>3 DEF Flattens
  <2> HIDE DEF g
  <2>6. g \in [1..Len(Append(p, x)) -> Seq(S)]
      BY <2>3, <2>2
  <2> QED BY <2>2, <2>5, <2>6
<1>3. T \in SUBSET Seq(Seq(S))
    OBVIOUS
<1> HIDE DEF T
<1>4. T = Seq(Seq(S))
    BY <1>1, <1>2, <1>3, SequencesCovered
<1> QED BY <1>4 DEF T

LEMMA FlattenAgrees ==
    ASSUME NEW S, NEW q \in Seq(Seq(S)), NEW x \in Seq(S), NEW f, NEW g,
           Flattens(q, f), Flattens(Append(q, x), g)
    PROVE  \A i \in 1..Len(q) : f[i] = g[i]
<1> DEFINE n == Len(q)
<1>0. /\ n \in Nat /\ Len(Append(q, x)) = n + 1
      /\ \A i \in 1..n : Append(q, x)[i] = q[i]
    BY Grown
<1>1. \A i \in 1..n : f[i] = IF i = 1 THEN q[i] ELSE f[i - 1] \o q[i]
    BY DEF Flattens
<1>2. ASSUME NEW i \in 1..n
      PROVE  g[i] = IF i = 1 THEN q[i] ELSE g[i - 1] \o q[i]
  <2>1. i \in 1..Len(Append(q, x))
      BY <1>0
  <2>2. g[i] = IF i = 1 THEN Append(q, x)[i] ELSE g[i - 1] \o Append(q, x)[i]
      BY <2>1 DEF Flattens
  <2> QED BY <2>2, <1>0
<1> HIDE DEF n
<1> DEFINE T == {i \in Nat : i \in 1..n => f[i] = g[i]}
<1>3. 0 \in T
    BY <1>0
<1>4. ASSUME NEW i \in T
      PROVE  i + 1 \in T
  <2>1. CASE i + 1 \in 1..n
    <3>1. CASE i = 0
        BY <2>1, <3>1, <1>1, <1>2
    <3>2. CASE i # 0
      <4>1. i \in 1..n /\ (i + 1) - 1 = i /\ i + 1 # 1
          BY <2>1, <3>2, <1>0
      <4>2. f[i] = g[i]
          BY <4>1
      <4> QED BY <4>1, <4>2, <2>1, <1>1, <1>2
    <3> QED BY <3>1, <3>2
  <2> QED BY <2>1
<1>5. T \in SUBSET Nat
    OBVIOUS
<1> HIDE DEF T
<1>6. T = Nat
    BY <1>3, <1>4, <1>5, NaturalsCovered
<1>7. \A i \in 1..n : i \in Nat
    BY <1>0
<1> QED BY <1>6, <1>7 DEF T, n

\* The function FlattenSeq computes, named.
Run(q) == CHOOSE f : Flattens(q, f)

LEMMA FlattenIsRun ==
    ASSUME NEW q, Len(q) # 0
    PROVE  FlattenSeq(q) = Run(q)[Len(q)]
BY DEF FlattenSeq, Run, Flattens

\* FlattenSeq of nothing is nothing, and a last sequence comes last.
LEMMA Flattened ==
    ASSUME NEW S
    PROVE  /\ FlattenSeq(<<>>) = <<>>
           /\ \A q \in Seq(Seq(S)), x \in Seq(S) :
                 /\ FlattenSeq(q) \in Seq(S)
                 /\ FlattenSeq(Append(q, x)) = FlattenSeq(q) \o x
<1>1. FlattenSeq(<<>>) = <<>>
    BY EmptySeq DEF FlattenSeq
<1>2. ASSUME NEW q \in Seq(Seq(S))
      PROVE  Flattens(q, Run(q)) /\ Run(q) \in [1..Len(q) -> Seq(S)]
  <2>1. \E f \in [1..Len(q) -> Seq(S)] : Flattens(q, f)
      BY FlattenRun
  <2>2. Flattens(q, Run(q))
      BY <2>1 DEF Run
  <2>3. PICK f \in [1..Len(q) -> Seq(S)] : Flattens(q, f)
      BY <2>1
  <2>4. PICK x \in Seq(S) : TRUE
      BY EmptySeq
  <2>5. Append(q, x) \in Seq(Seq(S))
      BY <2>4, Grown
  <2>6. PICK g : Flattens(Append(q, x), g)
      BY <2>5, FlattenRun
  <2>7. \A i \in 1..Len(q) : f[i] = g[i]
      BY <2>3, <2>4, <2>6, FlattenAgrees
  <2>8. \A i \in 1..Len(q) : Run(q)[i] = g[i]
      BY <2>2, <2>4, <2>6, FlattenAgrees
  <2>9. Run(q) = [i \in 1..Len(q) |-> Run(q)[i]]
      BY <2>2 DEF Flattens
  <2>10. \A i \in 1..Len(q) : Run(q)[i] \in Seq(S)
      BY <2>3, <2>7, <2>8
  <2> QED BY <2>2, <2>9, <2>10
<1>3. ASSUME NEW q \in Seq(Seq(S))
      PROVE  FlattenSeq(q) \in Seq(S)
  <2>1. CASE Len(q) = 0
    <3>1. FlattenSeq(q) = q /\ q = <<>>
        BY <2>1, EmptySeq DEF FlattenSeq
    <3> QED BY <3>1, EmptySeq
  <2>2. CASE Len(q) # 0
    <3>1. FlattenSeq(q) = Run(q)[Len(q)]
        BY <2>2, FlattenIsRun
    <3>2. Len(q) \in 1..Len(q)
        BY <2>2, LenProperties
    <3> QED BY <3>1, <3>2, <1>2
  <2> QED BY <2>1, <2>2
<1>4. ASSUME NEW q \in Seq(Seq(S)), NEW x \in Seq(S)
      PROVE  FlattenSeq(Append(q, x)) = FlattenSeq(q) \o x
  <2> DEFINE n == Len(q)
  <2> DEFINE p == Append(q, x)
  <2>1. /\ p \in Seq(Seq(S)) /\ Len(p) = n + 1 /\ n \in Nat
        /\ p[n + 1] = x
      BY Grown
  <2>2. FlattenSeq(p) = Run(p)[n + 1]
    <3>1. Len(p) # 0
        BY <2>1
    <3> HIDE DEF p
    <3>2. FlattenSeq(p) = Run(p)[Len(p)]
        BY <3>1, FlattenIsRun
    <3> QED BY <2>1, <3>2
  <2>3. Flattens(p, Run(p)) /\ Flattens(q, Run(q))
      BY <2>1, <1>2
  <2>4. Run(p)[n + 1] = IF n + 1 = 1 THEN p[n + 1] ELSE Run(p)[(n + 1) - 1] \o p[n + 1]
    <3>1. n + 1 \in 1..Len(p)
        BY <2>1
    <3> HIDE DEF p, n
    <3> QED BY <2>3, <3>1 DEF Flattens
  <2>5. CASE n = 0
    <3>1. q = <<>>
        BY <2>5, EmptySeq
    <3>2. FlattenSeq(p) = x
        BY <2>1, <2>2, <2>4, <2>5
    <3>3. <<>> \o x = x
        BY ConcatEmptySeq
    <3> QED BY <1>1, <3>1, <3>2, <3>3
  <2>6. CASE n # 0
    <3>1. n \in 1..n /\ (n + 1) - 1 = n /\ n + 1 # 1
        BY <2>1, <2>6
    <3>2. Run(q)[n] = Run(p)[n]
        BY <2>3, <3>1, FlattenAgrees
    <3>3. FlattenSeq(q) = Run(q)[n]
        BY <2>6, FlattenIsRun
    <3>4. FlattenSeq(p) = Run(p)[n] \o x
        BY <2>1, <2>2, <2>4, <3>1
    <3> QED BY <3>2, <3>3, <3>4
  <2> QED BY <2>5, <2>6
<1> QED BY <1>1, <1>3, <1>4

\* Associativity as a predicate, which the provers need not look into.
Joins(a, b, c) == (a \o b) \o c = a \o (b \o c)

LEMMA SequencesJoin == \A S : \A a, b, c \in Seq(S) : Joins(a, b, c)
<1>1. \A S : \A a, b, c \in Seq(S) : (a \o b) \o c = a \o (b \o c)
    BY ConcatAssociative, Zenon
<1> QED BY <1>1, Zenon DEF Joins

\* Flattening takes concatenation to concatenation.
LEMMA FlattenConcat ==
    ASSUME NEW S, NEW p \in Seq(Seq(S)), NEW q \in Seq(Seq(S))
    PROVE  FlattenSeq(p \o q) = FlattenSeq(p) \o FlattenSeq(q)
<1> DEFINE T == {r \in Seq(Seq(S)) :
                    FlattenSeq(p \o r) = FlattenSeq(p) \o FlattenSeq(r)}
<1>1. <<>> \in T
  <2>1. <<>> \in Seq(Seq(S)) /\ p \o <<>> = p
      BY EmptySeq, ConcatEmptySeq
  <2>2. FlattenSeq(p) \in Seq(S) /\ FlattenSeq(<<>>) = <<>>
      BY Flattened
  <2>3. FlattenSeq(p) \o <<>> = FlattenSeq(p)
      BY <2>2, ConcatEmptySeq
  <2> QED BY <2>1, <2>2, <2>3
<1>2. ASSUME NEW r \in T, NEW x \in Seq(S)
      PROVE  Append(r, x) \in T
  <2>1. p \o Append(r, x) = Append(p \o r, x) /\ p \o r \in Seq(Seq(S))
      BY ConcatAppend
  <2>2. FlattenSeq(Append(p \o r, x)) = FlattenSeq(p \o r) \o x
      BY <2>1, Flattened
  <2>3. FlattenSeq(Append(r, x)) = FlattenSeq(r) \o x
      BY Flattened
  <2>4. FlattenSeq(p) \in Seq(S) /\ FlattenSeq(r) \in Seq(S)
      BY Flattened
  <2>5. (FlattenSeq(p) \o FlattenSeq(r)) \o x = FlattenSeq(p) \o (FlattenSeq(r) \o x)
    <3>1. Joins(FlattenSeq(p), FlattenSeq(r), x)
        BY <2>4, SequencesJoin, Zenon
    <3> QED BY <3>1 DEF Joins
  <2>6. FlattenSeq(p \o r) = FlattenSeq(p) \o FlattenSeq(r)
      BY <1>2
  <2>7. Append(r, x) \in Seq(Seq(S))
      BY <1>2, Grown
  <2>8. FlattenSeq(p \o Append(r, x)) = FlattenSeq(p) \o FlattenSeq(Append(r, x))
      BY <2>1, <2>2, <2>3, <2>5, <2>6
  <2> QED BY <2>7, <2>8
<1>3. T \in SUBSET Seq(Seq(S))
    OBVIOUS
<1> HIDE DEF T
<1>4. T = Seq(Seq(S))
    BY <1>1, <1>2, <1>3, SequencesCovered
<1> QED BY <1>4 DEF T

-----------------------------------------------------------------------------
(* Spelled: each unit by itself, so concatenation to concatenation.        *)

Text == Seq(Unit)
Spellings == [Unit -> Text]

LEMMA SpelledOne ==
    ASSUME NEW form \in Spellings
    PROVE  /\ Spelled(<<>>, form) = <<>>
           /\ \A u \in Unit : Spelled(<<u>>, form) = form[u]
<1>1. Spelled(<<>>, form) = FlattenSeq(<<>>)
  <2>1. [i \in DOMAIN <<>> |-> form[<<>>[i]]] = <<>>
      OBVIOUS
  <2> QED BY <2>1 DEF Spelled
<1>2. ASSUME NEW u \in Unit
      PROVE  Spelled(<<u>>, form) = form[u]
  <2>1. form[u] \in Text /\ <<>> \in Seq(Text)
      BY EmptySeq DEF Spellings
  <2>0. PICK v \in Text : v = form[u]
      BY <2>1
  <2>2. [i \in DOMAIN <<u>> |-> form[<<u>>[i]]] = <<form[u]>>
    <3> DEFINE f == [i \in DOMAIN <<u>> |-> form[<<u>>[i]]]
    <3>1. Len(<<u>>) = 1 /\ <<u>>[1] = u /\ DOMAIN <<u>> = 1..1
        OBVIOUS
    <3>2. f \in [1..1 -> Text] /\ f[1] = v
        BY <3>1, <2>0, <2>1 DEF Spellings
    <3> HIDE DEF f
    <3>3. f \in Seq(Text) /\ Len(f) = 1
        BY <3>2, TableIsSequence
    <3>4. <<v>> \in Seq(Text) /\ Len(<<v>>) = 1 /\ <<v>>[1] = v
        OBVIOUS
    <3>5. f = <<v>>
        BY <2>0, <3>2, <3>3, <3>4, SeqEqual
    <3> QED BY <2>0, <3>5 DEF f
  <2>3. <<form[u]>> = Append(<<>>, form[u])
      OBVIOUS
  <2>4. FlattenSeq(Append(<<>>, form[u])) = FlattenSeq(<<>>) \o form[u]
      BY <2>1, Flattened DEF Text
  <2>5. FlattenSeq(<<>>) = <<>>
      BY Flattened
  <2>6. <<>> \o form[u] = form[u]
      BY <2>1, ConcatEmptySeq DEF Text
  <2> QED BY <2>2, <2>3, <2>4, <2>5, <2>6 DEF Spelled
<1> QED BY <1>1, <1>2, Flattened

\* The forms of the units of a text.
Letters(x, text, form) ==
    Len(x) = Len(text) /\ \A i \in 1..Len(text) : x[i] = form[text[i]]

LEMMA EachJoined ==
    ASSUME NEW form \in Spellings, NEW p \in Text, NEW q \in Text,
           NEW x \in Seq(Text), NEW y \in Seq(Text), NEW z \in Seq(Text),
           Letters(x, p, form), Letters(y, q, form), Letters(z, p \o q, form)
    PROVE  z = x \o y
<1> USE DEF Letters
<1>1. /\ Len(p) \in Nat /\ Len(q) \in Nat /\ Len(p \o q) = Len(p) + Len(q)
      /\ \A i \in 1..Len(p) : (p \o q)[i] = p[i]
      /\ \A i \in 1..Len(q) : (p \o q)[Len(p) + i] = q[i]
      /\ \A i \in 1..Len(p) : p[i] \in Unit
      /\ \A i \in 1..Len(q) : q[i] \in Unit
      /\ form \in [Unit -> Text]
    BY DEF Text, Spellings
<1>2. ASSUME NEW i \in 1..Len(p)
      PROVE  z[i] = x[i]
  <2>1. i \in 1..Len(p \o q)
      BY <1>1
  <2> QED BY <1>1, <2>1
<1>3. ASSUME NEW i \in 1..Len(q)
      PROVE  z[Len(x) + i] = y[i]
  <2>1. Len(p) + i \in 1..Len(p \o q)
      BY <1>1
  <2>2. z[Len(p) + i] = form[(p \o q)[Len(p) + i]]
      BY <2>1
  <2> QED BY <1>1, <2>2
<1>4. Len(z) = Len(x) + Len(y)
    BY <1>1
<1>5. /\ \A i \in 1..Len(x) : z[i] = x[i]
      /\ \A i \in 1..Len(y) : z[Len(x) + i] = y[i]
    BY <1>2, <1>3
<1> QED BY <1>4, <1>5, Joined

LEMMA SpelledConcat ==
    ASSUME NEW form \in Spellings, NEW p \in Text, NEW q \in Text
    PROVE  /\ Spelled(p, form) \in Text
           /\ Spelled(p \o q, form) = Spelled(p, form) \o Spelled(q, form)
<1> DEFINE Each(r) == [i \in DOMAIN r |-> form[r[i]]]
<1>1. ASSUME NEW r \in Text
      PROVE  /\ Each(r) \in Seq(Text)
             /\ Len(Each(r)) = Len(r)
             /\ \A i \in 1..Len(r) : Each(r)[i] = form[r[i]]
  <2>1. Len(r) \in Nat /\ DOMAIN r = 1..Len(r)
      BY LenProperties DEF Text
  <2>2. \A i \in 1..Len(r) : r[i] \in Unit
      BY ElementOfSeq DEF Text
  <2>3. \A i \in 1..Len(r) : form[r[i]] \in Text
      BY <2>2 DEF Spellings
  <2>4. Each(r) = [i \in 1..Len(r) |-> form[r[i]]]
      BY <2>1
  <2>5. Each(r) \in [1..Len(r) -> Text]
      BY <2>3, <2>4
  <2>6. Each(r) \in Seq(Text) /\ Len(Each(r)) = Len(r)
    <3> HIDE DEF Each
    <3> QED BY <2>1, <2>5
  <2> QED BY <2>4, <2>6
<1>2. p \o q \in Text /\ Len(p \o q) = Len(p) + Len(q)
    BY ConcatProperties DEF Text
<1>3. Each(p \o q) = Each(p) \o Each(q)
  <2>1. /\ Each(p) \in Seq(Text) /\ Len(Each(p)) = Len(p)
        /\ \A i \in 1..Len(p) : Each(p)[i] = form[p[i]]
      BY <1>1
  <2>2. /\ Each(q) \in Seq(Text) /\ Len(Each(q)) = Len(q)
        /\ \A i \in 1..Len(q) : Each(q)[i] = form[q[i]]
      BY <1>1
  <2>3. /\ Each(p \o q) \in Seq(Text) /\ Len(Each(p \o q)) = Len(p \o q)
        /\ \A i \in 1..Len(p \o q) : Each(p \o q)[i] = form[(p \o q)[i]]
      BY <1>1, <1>2
  <2> HIDE DEF Each
  <2>4. PICK x \in Seq(Text) : x = Each(p)
      BY <2>1
  <2>5. PICK y \in Seq(Text) : y = Each(q)
      BY <2>2
  <2>6. PICK z \in Seq(Text) : z = Each(p \o q)
      BY <2>3
  <2>7. Letters(x, p, form)
      BY <2>1, <2>4 DEF Letters
  <2>8. Letters(y, q, form)
      BY <2>2, <2>5 DEF Letters
  <2>9. Letters(z, p \o q, form)
      BY <2>3, <2>6 DEF Letters
  <2>10. z = x \o y
      BY <2>7, <2>8, <2>9, EachJoined
  <2> QED BY <2>4, <2>5, <2>6, <2>10
<1>4. Each(p) \in Seq(Text) /\ Each(q) \in Seq(Text)
    BY <1>1
<1>5. /\ Spelled(p, form) = FlattenSeq(Each(p)) /\ Spelled(q, form) = FlattenSeq(Each(q))
      /\ Spelled(p \o q, form) = FlattenSeq(Each(p \o q))
    BY DEF Spelled
<1> HIDE DEF Each
<1>6. FlattenSeq(Each(p) \o Each(q)) = FlattenSeq(Each(p)) \o FlattenSeq(Each(q))
    BY <1>4, FlattenConcat DEF Text
<1>7. FlattenSeq(Each(p)) \in Text
    BY <1>4, Flattened DEF Text
<1> QED BY <1>3, <1>5, <1>6, <1>7

LEMMA SpellingsTyped ==
    /\ SeenAs \in Spellings /\ RenderedAs \in Spellings
<1>1. SeenAs \in Spellings
  <2>1. ASSUME NEW u \in Unit
        PROVE  (IF u = "s" THEN <<>> ELSE <<u>>) \in Seq(Unit)
      OBVIOUS
  <2> QED BY <2>1 DEF SeenAs, Spellings, Text
<1>2. RenderedAs \in Spellings
  <2>1. [k \in 1..Width |-> "w"] \in Seq(Unit)
      BY BoundsAssumption DEF Unit
  <2>2. ASSUME NEW u \in Unit
        PROVE  (IF u = "t" THEN [k \in 1..Width |-> "w"] ELSE <<u>>) \in Seq(Unit)
      BY <2>1
  <2> QED BY <2>2 DEF RenderedAs, Spellings, Text
<1> QED BY <1>1, <1>2

\* What a reader sees of a text once it is rendered.
Shown(text) == Visible(Rendered(text))

LEMMA TextConcat ==
    ASSUME NEW p \in Text, NEW q \in Text
    PROVE  /\ p \o q \in Text
           /\ Visible(p) \in Text /\ Rendered(p) \in Text /\ Shown(p) \in Text
           /\ Visible(p \o q) = Visible(p) \o Visible(q)
           /\ Rendered(p \o q) = Rendered(p) \o Rendered(q)
           /\ Shown(p \o q) = Shown(p) \o Shown(q)
<1>1. \A r \in Text : Visible(r) \in Text /\ Rendered(r) \in Text
    BY SpelledConcat, SpellingsTyped DEF Visible, Rendered
<1>2. \A r, t \in Text : /\ Visible(r \o t) = Visible(r) \o Visible(t)
                         /\ Rendered(r \o t) = Rendered(r) \o Rendered(t)
    BY SpelledConcat, SpellingsTyped DEF Visible, Rendered
<1>3. p \o q \in Text
    BY ConcatProperties DEF Text
<1>4. Shown(p \o q) = Visible(Rendered(p) \o Rendered(q))
    BY <1>2 DEF Shown
<1>5. Visible(Rendered(p) \o Rendered(q)) = Visible(Rendered(p)) \o Visible(Rendered(q))
    BY <1>1, <1>2
<1> QED BY <1>1, <1>2, <1>3, <1>4, <1>5 DEF Shown

-----------------------------------------------------------------------------
(* White space, stripping and cutting.                                     *)

LEMMA BlankConcat ==
    ASSUME NEW p \in Text, NEW q \in Text
    PROVE  Blank(p \o q) <=> Blank(p) /\ Blank(q)
<1>1. /\ Len(p) \in Nat /\ Len(q) \in Nat
      /\ DOMAIN p = 1..Len(p) /\ DOMAIN q = 1..Len(q)
      /\ DOMAIN (p \o q) = 1..(Len(p) + Len(q))
      /\ \A i \in 1..Len(p) : (p \o q)[i] = p[i]
      /\ \A i \in 1..Len(q) : (p \o q)[Len(p) + i] = q[i]
    BY DEF Text
<1>2. ASSUME Blank(p \o q)
      PROVE  Blank(p) /\ Blank(q)
  <2>1. ASSUME NEW i \in 1..Len(p) PROVE p[i] = "s"
    <3>1. i \in 1..(Len(p) + Len(q))
        BY <1>1
    <3> QED BY <1>1, <1>2, <3>1 DEF Blank
  <2>2. ASSUME NEW i \in 1..Len(q) PROVE q[i] = "s"
    <3>1. Len(p) + i \in 1..(Len(p) + Len(q))
        BY <1>1
    <3> QED BY <1>1, <1>2, <3>1 DEF Blank
  <2> QED BY <1>1, <2>1, <2>2 DEF Blank
<1>3. ASSUME Blank(p), Blank(q)
      PROVE  Blank(p \o q)
  <2>1. ASSUME NEW i \in 1..(Len(p) + Len(q)) PROVE (p \o q)[i] = "s"
    <3>1. CASE i <= Len(p)
      <4>1. i \in 1..Len(p)
          BY <1>1, <3>1
      <4> QED BY <1>1, <1>3, <4>1 DEF Blank
    <3>2. CASE ~ (i <= Len(p))
      <4>1. i - Len(p) \in 1..Len(q) /\ Len(p) + (i - Len(p)) = i
          BY <1>1, <3>2
      <4> QED BY <1>1, <1>3, <4>1 DEF Blank
    <3> QED BY <3>1, <3>2
  <2> QED BY <1>1, <2>1 DEF Blank
<1> QED BY <1>2, <1>3

\* Nothing is seen of white space.
LEMMA BlankUnseen ==
    ASSUME NEW b \in Text, Blank(b)
    PROVE  Visible(b) = <<>>
<1> DEFINE T == {p \in Text : Blank(p) => Visible(p) = <<>>}
<1>0. SeenAs \in Spellings /\ SeenAs["s"] = <<>>
    BY SpellingsTyped DEF SeenAs, Unit
<1>1. <<>> \in T
  <2>1. <<>> \in Text
      BY EmptySeq DEF Text
  <2>2. Visible(<<>>) = <<>>
      BY <1>0, SpelledOne DEF Visible
  <2> QED BY <2>1, <2>2
<1>2. ASSUME NEW p \in T, NEW u \in Unit
      PROVE  Append(p, u) \in T
  <2>1. Append(p, u) = p \o <<u>> /\ <<u>> \in Text /\ Append(p, u) \in Text
      BY AppendIsConcat, AppendProperties DEF Text
  <2>2. ASSUME Blank(Append(p, u))
        PROVE  Visible(Append(p, u)) = <<>>
    <3>1. Blank(p) /\ Blank(<<u>>)
        BY <2>1, <2>2, BlankConcat
    <3>2. u = "s"
        BY <3>1 DEF Blank
    <3>3. Visible(<<u>>) = SeenAs[u]
        BY <1>0, SpelledOne DEF Visible
    <3>4. Visible(p \o <<u>>) = Visible(p) \o Visible(<<u>>)
        BY <2>1, TextConcat
    <3>5. Visible(p) = <<>> /\ Visible(<<u>>) = <<>>
        BY <3>1, <3>2, <3>3, <1>0
    <3> QED BY <2>1, <3>4, <3>5, EmptySeq, ConcatEmptySeq
  <2> QED BY <2>1, <2>2
<1>3. T \in SUBSET Seq(Unit)
    BY DEF Text
<1> HIDE DEF T
<1>4. T = Seq(Unit)
    BY <1>1, <1>2, <1>3, SequencesCovered
<1> QED BY <1>4 DEF T, Text

\* Only tables are changed by rendering.
LEMMA PlainRendered ==
    ASSUME NEW b \in Text, \A i \in 1..Len(b) : b[i] # "t"
    PROVE  Rendered(b) = b
<1> DEFINE T == {p \in Text : (\A i \in 1..Len(p) : p[i] # "t") => Rendered(p) = p}
<1>0. RenderedAs \in Spellings /\ \A u \in Unit : u # "t" => RenderedAs[u] = <<u>>
    BY SpellingsTyped DEF RenderedAs
<1>1. <<>> \in T
  <2>1. <<>> \in Text
      BY EmptySeq DEF Text
  <2>2. Rendered(<<>>) = <<>>
      BY <1>0, SpelledOne DEF Rendered
  <2> QED BY <2>1, <2>2
<1>2. ASSUME NEW p \in T, NEW u \in Unit
      PROVE  Append(p, u) \in T
  <2>1. /\ Append(p, u) = p \o <<u>> /\ <<u>> \in Text /\ Append(p, u) \in Text
        /\ Len(Append(p, u)) = Len(p) + 1 /\ Len(p) \in Nat
        /\ \A i \in 1..Len(p) : Append(p, u)[i] = p[i]
        /\ Append(p, u)[Len(p) + 1] = u
      BY AppendIsConcat, AppendProperties, LenProperties DEF Text
  <2>2. ASSUME \A i \in 1..Len(Append(p, u)) : Append(p, u)[i] # "t"
        PROVE  Rendered(Append(p, u)) = Append(p, u)
    <3>1. \A i \in 1..Len(p) : i \in 1..Len(Append(p, u))
        BY <2>1
    <3>2. \A i \in 1..Len(p) : p[i] # "t"
        BY <2>1, <2>2, <3>1
    <3>3. Len(p) + 1 \in 1..Len(Append(p, u))
        BY <2>1
    <3>4. u # "t"
        BY <2>1, <2>2, <3>3
    <3>5. Rendered(<<u>>) = RenderedAs[u]
        BY <1>0, SpelledOne DEF Rendered
    <3>6. Rendered(p \o <<u>>) = Rendered(p) \o Rendered(<<u>>)
        BY <2>1, TextConcat
    <3>7. Rendered(p) = p /\ Rendered(<<u>>) = <<u>>
        BY <3>2, <3>4, <3>5, <1>0
    <3> QED BY <2>1, <3>6, <3>7
  <2> QED BY <2>1, <2>2
<1>3. T \in SUBSET Seq(Unit)
    BY DEF Text
<1> HIDE DEF T
<1>4. T = Seq(Unit)
    BY <1>1, <1>2, <1>3, SequencesCovered
<1> QED BY <1>4 DEF T, Text

LEMMA BlankShown ==
    ASSUME NEW b \in Text, Blank(b)
    PROVE  Visible(b) = <<>> /\ Rendered(b) = b /\ Shown(b) = <<>>
<1>1. \A i \in 1..Len(b) : b[i] # "t"
    BY LenProperties DEF Blank, Text
<1>2. Rendered(b) = b
    BY <1>1, PlainRendered
<1> QED BY <1>2, BlankUnseen DEF Shown

\* A text is what comes up to a place and what comes after it.
LEMMA CutAt ==
    ASSUME NEW text \in Text, NEW at \in 0..Len(text)
    PROVE  /\ Cut(text, at) \in Text /\ SubSeq(text, at + 1, Len(text)) \in Text
           /\ text = Cut(text, at) \o SubSeq(text, at + 1, Len(text))
           /\ Len(Cut(text, at)) = at
           /\ Len(SubSeq(text, at + 1, Len(text))) = Len(text) - at
           /\ \A i \in 1..at : Cut(text, at)[i] = text[i]
           /\ \A i \in 1..(Len(text) - at) :
                 SubSeq(text, at + 1, Len(text))[i] = text[at + i]
           /\ Len(text) \in Nat
<1>1. /\ Cut(text, at) \in Text /\ SubSeq(text, at + 1, Len(text)) \in Text
      /\ Len(Cut(text, at)) = at
      /\ Len(SubSeq(text, at + 1, Len(text))) = Len(text) - at
      /\ \A i \in 1..at : Cut(text, at)[i] = text[i]
      /\ \A i \in 1..(Len(text) - at) :
            SubSeq(text, at + 1, Len(text))[i] = text[at + i]
    BY DEF Cut, Text
<1>2. Len(text) \in Nat
    BY LenProperties DEF Text
<1>3. text = Cut(text, at) \o SubSeq(text, at + 1, Len(text))
  <2>1. /\ 1 \in 1..(Len(text) + 1) /\ at \in (1 - 1)..Len(text)
        /\ Len(text) \in at..Len(text)
      BY <1>2
  <2>2. SubSeq(text, 1, at) \o SubSeq(text, at + 1, Len(text)) = SubSeq(text, 1, Len(text))
      BY <2>1, ConcatAdjacentSubSeq DEF Text
  <2> QED BY <2>2, SubSeqFull DEF Cut, Text
<1> QED BY <1>1, <1>2, <1>3

\* What lstrip takes off is white space, and it takes all there is.
LEMMA Lstripped ==
    ASSUME NEW text \in Text
    PROVE  /\ Lstrip(text) \in Text
           /\ \E b \in Text : Blank(b) /\ text = b \o Lstrip(text)
           /\ Lstrip(text) # <<>> => Lstrip(text)[1] # "s"
<1>0. Len(text) \in Nat /\ DOMAIN text = 1..Len(text)
    BY LenProperties DEF Text
<1>1. CASE Blank(text)
  <2>1. Lstrip(text) = <<>> /\ <<>> \in Text
      BY <1>1, EmptySeq DEF Lstrip, Text
  <2>2. text = text \o <<>>
      BY ConcatEmptySeq DEF Text
  <2> QED BY <1>1, <2>1, <2>2
<1>2. CASE ~ Blank(text)
  <2> DEFINE Starts(i) == text[i] # "s" /\ \A j \in 1..(i - 1) : text[j] = "s"
  <2> DEFINE first == CHOOSE i \in DOMAIN text : Starts(i)
  <2>1. \E i \in DOMAIN text : Starts(i)
    <3> DEFINE T == {i \in 1..Len(text) : text[i] # "s"}
    <3>1. T # {} /\ T \in SUBSET Nat
        BY <1>0, <1>2 DEF Blank
    <3> HIDE DEF T
    <3>2. PICK i \in T : \A j \in T : i <= j
        BY <3>1, Least
    <3>3. i \in 1..Len(text) /\ text[i] # "s"
        BY <3>2 DEF T
    <3>4. ASSUME NEW j \in 1..(i - 1)
          PROVE  text[j] = "s"
      <4>1. j \in 1..Len(text) /\ ~ (i <= j)
          BY <3>3, <1>0
      <4> QED BY <4>1, <3>2 DEF T
    <3> QED BY <1>0, <3>3, <3>4
  <2>2. first \in 1..Len(text) /\ Starts(first)
      BY <1>0, <2>1
  <2>3. Lstrip(text) = SubSeq(text, first, Len(text))
      BY <1>2 DEF Lstrip
  <2> HIDE DEF first
  <2>4. PICK k \in 0..Len(text) : first = k + 1
    <3>1. first - 1 \in 0..Len(text) /\ first = (first - 1) + 1
        BY <1>0, <2>2
    <3> QED BY <3>1
  <2>5. /\ Cut(text, k) \in Text /\ Lstrip(text) \in Text
        /\ text = Cut(text, k) \o Lstrip(text)
        /\ Len(Cut(text, k)) = k
        /\ \A i \in 1..k : Cut(text, k)[i] = text[i]
        /\ \A i \in 1..(Len(text) - k) : Lstrip(text)[i] = text[k + i]
    <3>1. Lstrip(text) = SubSeq(text, k + 1, Len(text))
        BY <2>3, <2>4
    <3>2. /\ Cut(text, k) \in Text /\ SubSeq(text, k + 1, Len(text)) \in Text
          /\ text = Cut(text, k) \o SubSeq(text, k + 1, Len(text))
          /\ Len(Cut(text, k)) = k
          /\ \A i \in 1..k : Cut(text, k)[i] = text[i]
          /\ \A i \in 1..(Len(text) - k) :
                SubSeq(text, k + 1, Len(text))[i] = text[k + i]
        BY CutAt
    <3> QED BY <3>1, <3>2
  <2>6. Blank(Cut(text, k))
    <3>1. DOMAIN Cut(text, k) = 1..k
        BY <2>5, LenProperties DEF Text
    <3>2. \A i \in 1..k : text[i] = "s"
      <4>1. first - 1 = k
          BY <2>4
      <4> QED BY <2>2, <4>1
    <3> QED BY <3>1, <3>2, <2>5 DEF Blank
  <2>7. Lstrip(text)[1] # "s"
    <3>1. 1 \in 1..(Len(text) - k)
        BY <1>0, <2>2, <2>4
    <3>2. Lstrip(text)[1] = text[k + 1]
        BY <2>5, <3>1
    <3> QED BY <2>2, <2>4, <3>2
  <2> QED BY <2>5, <2>6, <2>7
<1> QED BY <1>1, <1>2

LEMMA Reversed ==
    ASSUME NEW S, NEW p \in Seq(S)
    PROVE  /\ Reverse(p) \in Seq(S) /\ Len(Reverse(p)) = Len(p)
           /\ \A i \in 1..Len(p) : Reverse(p)[i] = p[(Len(p) - i) + 1]
           /\ Reverse(Reverse(p)) = p
<1>0. Len(p) \in Nat
    BY LenProperties
<1>1. ASSUME NEW q \in Seq(S)
      PROVE  /\ Reverse(q) \in Seq(S) /\ Len(Reverse(q)) = Len(q)
             /\ \A i \in 1..Len(q) : Reverse(q)[i] = q[(Len(q) - i) + 1]
  <2>0. Len(q) \in Nat
      BY LenProperties
  <2>1. \A i \in 1..Len(q) : (Len(q) - i) + 1 \in 1..Len(q)
      BY <2>0
  <2>2. \A i \in 1..Len(q) : q[(Len(q) - i) + 1] \in S
      BY <2>1, ElementOfSeq
  <2>3. Reverse(q) \in [1..Len(q) -> S]
      BY <2>2 DEF Reverse
  <2> QED BY <2>0, <2>3, TableIsSequence DEF Reverse
<1>2. ASSUME NEW i \in 1..Len(p)
      PROVE  Reverse(Reverse(p))[i] = p[i]
  <2>1. (Len(p) - i) + 1 \in 1..Len(p) /\ (Len(p) - ((Len(p) - i) + 1)) + 1 = i
      BY <1>0
  <2>2. Reverse(Reverse(p))[i] = Reverse(p)[(Len(p) - i) + 1]
      BY <1>1
  <2>3. Reverse(p)[(Len(p) - i) + 1] = p[(Len(p) - ((Len(p) - i) + 1)) + 1]
      BY <1>1, <2>1
  <2> QED BY <2>1, <2>2, <2>3
<1>3. Reverse(Reverse(p)) \in Seq(S) /\ Len(Reverse(Reverse(p))) = Len(p)
    BY <1>1
<1>4. Reverse(Reverse(p)) = p
    BY <1>2, <1>3, SeqEqual
<1> QED BY <1>1, <1>4

LEMMA ReversedConcat ==
    ASSUME NEW S, NEW p \in Seq(S), NEW q \in Seq(S)
    PROVE  Reverse(p \o q) = Reverse(q) \o Reverse(p)
<1>0. Len(p) \in Nat /\ Len(q) \in Nat
    BY LenProperties
<1>1. /\ p \o q \in Seq(S) /\ Len(p \o q) = Len(p) + Len(q)
      /\ \A i \in 1..Len(p) : (p \o q)[i] = p[i]
      /\ \A i \in 1..Len(q) : (p \o q)[Len(p) + i] = q[i]
    OBVIOUS
<1>2. /\ Reverse(p) \in Seq(S) /\ Reverse(q) \in Seq(S)
      /\ Len(Reverse(p)) = Len(p) /\ Len(Reverse(q)) = Len(q)
      /\ \A i \in 1..Len(p) : Reverse(p)[i] = p[(Len(p) - i) + 1]
      /\ \A i \in 1..Len(q) : Reverse(q)[i] = q[(Len(q) - i) + 1]
    BY Reversed
<1>3. /\ Reverse(p \o q) \in Seq(S) /\ Len(Reverse(p \o q)) = Len(p) + Len(q)
      /\ \A i \in 1..(Len(p) + Len(q)) :
            Reverse(p \o q)[i] = (p \o q)[((Len(p) + Len(q)) - i) + 1]
  <2>1. /\ Reverse(p \o q) \in Seq(S) /\ Len(Reverse(p \o q)) = Len(p \o q)
        /\ \A i \in 1..Len(p \o q) :
              Reverse(p \o q)[i] = (p \o q)[(Len(p \o q) - i) + 1]
      BY <1>1, Reversed
  <2> QED BY <2>1, <1>1
<1>4. ASSUME NEW i \in 1..Len(q)
      PROVE  Reverse(p \o q)[i] = Reverse(q)[i]
  <2>1. /\ i \in 1..(Len(p) + Len(q)) /\ (Len(q) - i) + 1 \in 1..Len(q)
        /\ ((Len(p) + Len(q)) - i) + 1 = Len(p) + ((Len(q) - i) + 1)
      BY <1>0
  <2>2. Reverse(p \o q)[i] = (p \o q)[Len(p) + ((Len(q) - i) + 1)]
      BY <1>3, <2>1
  <2> QED BY <1>1, <1>2, <2>1, <2>2
<1>5. ASSUME NEW i \in 1..Len(p)
      PROVE  Reverse(p \o q)[Len(q) + i] = Reverse(p)[i]
  <2>1. /\ Len(q) + i \in 1..(Len(p) + Len(q)) /\ (Len(p) - i) + 1 \in 1..Len(p)
        /\ ((Len(p) + Len(q)) - (Len(q) + i)) + 1 = (Len(p) - i) + 1
      BY <1>0
  <2>2. Reverse(p \o q)[Len(q) + i] = (p \o q)[(Len(p) - i) + 1]
      BY <1>3, <2>1
  <2> QED BY <1>1, <1>2, <2>1, <2>2
<1>6. Len(Reverse(p \o q)) = Len(Reverse(q)) + Len(Reverse(p))
    BY <1>0, <1>2, <1>3
<1>7. /\ \A i \in 1..Len(Reverse(q)) : Reverse(p \o q)[i] = Reverse(q)[i]
      /\ \A i \in 1..Len(Reverse(p)) :
            Reverse(p \o q)[Len(Reverse(q)) + i] = Reverse(p)[i]
    BY <1>2, <1>4, <1>5
<1> HIDE DEF Reverse
<1> QED BY <1>2, <1>3, <1>6, <1>7, Joined

\* A text begins with its beginning, and ends with its end.
LEMMA Begins ==
    ASSUME NEW S, NEW p \in Seq(S), NEW q \in Seq(S)
    PROVE  IsPrefix(p, p \o q)
<1>1. /\ p \o q \in Seq(S) /\ Len(p) <= Len(p \o q)
      /\ SubSeq(p, 1, Len(p)) \in Seq(S) /\ SubSeq(p \o q, 1, Len(p)) \in Seq(S)
      /\ Len(SubSeq(p, 1, Len(p))) = Len(p) /\ Len(SubSeq(p \o q, 1, Len(p))) = Len(p)
      /\ \A i \in 1..Len(p) : SubSeq(p, 1, Len(p))[i] = SubSeq(p \o q, 1, Len(p))[i]
    OBVIOUS
<1>2. SubSeq(p, 1, Len(p)) = SubSeq(p \o q, 1, Len(p))
    BY <1>1, SeqEqual
<1> QED BY <1>1, <1>2 DEF IsPrefix

LEMMA Ends ==
    ASSUME NEW S, NEW p \in Seq(S), NEW q \in Seq(S)
    PROVE  IsSuffix(q, p \o q)
<1>1. /\ Reverse(p \o q) = Reverse(q) \o Reverse(p)
      /\ Reverse(p) \in Seq(S) /\ Reverse(q) \in Seq(S)
    BY Reversed, ReversedConcat
<1>2. IsPrefix(Reverse(q), Reverse(q) \o Reverse(p))
    BY <1>1, Begins
<1> QED BY <1>1, <1>2 DEF IsSuffix

LEMMA Rstripped ==
    ASSUME NEW text \in Text
    PROVE  /\ Rstrip(text) \in Text
           /\ \E b \in Text : Blank(b) /\ text = Rstrip(text) \o b
<1>1. Reverse(text) \in Text /\ Reverse(Reverse(text)) = text
    BY Reversed DEF Text
<1>2. Lstrip(Reverse(text)) \in Text
    BY <1>1, Lstripped
<1>3. PICK b \in Text : Blank(b) /\ Reverse(text) = b \o Lstrip(Reverse(text))
    BY <1>1, Lstripped
<1>4. Reverse(Reverse(text)) = Reverse(Lstrip(Reverse(text))) \o Reverse(b)
    BY <1>2, <1>3, ReversedConcat DEF Text
<1>5. Blank(Reverse(b))
  <2>1. Len(b) \in Nat /\ DOMAIN b = 1..Len(b)
      BY LenProperties DEF Text
  <2>2. \A i \in 1..Len(b) : (Len(b) - i) + 1 \in 1..Len(b)
      BY <2>1
  <2>3. \A i \in 1..Len(b) : b[i] = "s"
      BY <1>3, <2>1 DEF Blank
  <2>4. \A i \in 1..Len(b) : Reverse(b)[i] = b[(Len(b) - i) + 1]
      BY Reversed DEF Text
  <2>5. Reverse(b) \in Text /\ Len(Reverse(b)) = Len(b)
      BY Reversed DEF Text
  <2>6. DOMAIN Reverse(b) = 1..Len(b)
      BY <2>5, LenProperties DEF Text
  <2> QED BY <2>2, <2>3, <2>4, <2>6 DEF Blank
<1>6. Reverse(Lstrip(Reverse(text))) \in Text /\ Reverse(b) \in Text
    BY <1>2, Reversed DEF Text
<1> QED BY <1>1, <1>4, <1>5, <1>6 DEF Rstrip

\* Stripping takes off white space only: what is seen of a text stays.
LEMMA Stripped ==
    ASSUME NEW text \in Text
    PROVE  /\ Lstrip(text) \in Text /\ Rstrip(text) \in Text /\ Strip(text) \in Text
           /\ Visible(Lstrip(text)) = Visible(text) /\ Shown(Lstrip(text)) = Shown(text)
           /\ Visible(Rstrip(text)) = Visible(text) /\ Shown(Rstrip(text)) = Shown(text)
           /\ Shown(Strip(text)) = Shown(text)
           /\ Blank(Lstrip(text)) <=> Blank(text)
           /\ Blank(Rstrip(text)) <=> Blank(text)
           /\ Len(Lstrip(text)) <= Len(text) /\ Len(Rstrip(text)) <= Len(text)
<1>1. ASSUME NEW p \in Text
      PROVE  /\ Lstrip(p) \in Text
             /\ Visible(Lstrip(p)) = Visible(p) /\ Shown(Lstrip(p)) = Shown(p)
             /\ Blank(Lstrip(p)) <=> Blank(p)
             /\ Len(Lstrip(p)) <= Len(p)
  <2>1. Lstrip(p) \in Text
      BY Lstripped
  <2>2. PICK b \in Text : Blank(b) /\ p = b \o Lstrip(p)
      BY Lstripped
  <2>3. PICK r \in Text : r = Lstrip(p)
      BY <2>1
  <2>4. Visible(b) = <<>> /\ Shown(b) = <<>>
      BY <2>2, BlankShown
  <2>5. Visible(b \o r) = Visible(b) \o Visible(r) /\ Shown(b \o r) = Shown(b) \o Shown(r)
      BY TextConcat
  <2>6. Visible(r) \in Text /\ Shown(r) \in Text
      BY TextConcat
  <2>7. <<>> \o Visible(r) = Visible(r) /\ <<>> \o Shown(r) = Shown(r)
      BY <2>6, ConcatEmptySeq DEF Text
  <2>8. Blank(b \o r) <=> Blank(b) /\ Blank(r)
      BY BlankConcat
  <2>9. Len(r) <= Len(b \o r)
      BY DEF Text
  <2> QED BY <2>1, <2>2, <2>3, <2>4, <2>5, <2>7, <2>8, <2>9
<1>2. ASSUME NEW p \in Text
      PROVE  /\ Rstrip(p) \in Text
             /\ Visible(Rstrip(p)) = Visible(p) /\ Shown(Rstrip(p)) = Shown(p)
             /\ Blank(Rstrip(p)) <=> Blank(p)
             /\ Len(Rstrip(p)) <= Len(p)
  <2>1. Rstrip(p) \in Text
      BY Rstripped
  <2>2. PICK b \in Text : Blank(b) /\ p = Rstrip(p) \o b
      BY Rstripped
  <2>3. PICK r \in Text : r = Rstrip(p)
      BY <2>1
  <2>4. Visible(b) = <<>> /\ Shown(b) = <<>>
      BY <2>2, BlankShown
  <2>5. Visible(r \o b) = Visible(r) \o Visible(b) /\ Shown(r \o b) = Shown(r) \o Shown(b)
      BY TextConcat
  <2>6. Visible(r) \in Text /\ Shown(r) \in Text
      BY TextConcat
  <2>7. Visible(r) \o <<>> = Visible(r) /\ Shown(r) \o <<>> = Shown(r)
      BY <2>6, ConcatEmptySeq DEF Text
  <2>8. Blank(r \o b) <=> Blank(r) /\ Blank(b)
      BY BlankConcat
  <2>9. Len(r) <= Len(r \o b)
      BY DEF Text
  <2> QED BY <2>1, <2>2, <2>3, <2>4, <2>5, <2>7, <2>8, <2>9
<1>3. Strip(text) \in Text /\ Shown(Strip(text)) = Shown(text)
    BY <1>1, <1>2 DEF Strip
<1> QED BY <1>1, <1>2, <1>3

\* What is left of a text after a cut is shorter and starts with visible text.
LEMMA AfterCut ==
    ASSUME NEW text \in Text, NEW at \in 1..Len(text)
    PROVE  /\ After(text, at) \in Text
           /\ Len(After(text, at)) < Len(text)
           /\ After(text, at) # <<>> => After(text, at)[1] # "s"
           /\ Visible(text) = Visible(Cut(text, at)) \o Visible(After(text, at))
           /\ Shown(text) = Shown(Cut(text, at)) \o Shown(After(text, at))
<1>0. Len(text) \in Nat
    BY LenProperties DEF Text
<1>1. at \in 0..Len(text)
    OBVIOUS
<1>2. PICK rest \in Text : rest = SubSeq(text, at + 1, Len(text))
    BY <1>1, CutAt
<1>3. PICK head \in Text : head = Cut(text, at)
    BY <1>1, CutAt
<1>4. text = head \o rest /\ Len(rest) = Len(text) - at
    BY <1>1, <1>2, <1>3, CutAt
<1>5. After(text, at) = Lstrip(rest)
    BY <1>2 DEF After
<1>6. /\ Lstrip(rest) \in Text /\ Len(Lstrip(rest)) <= Len(rest)
      /\ Visible(Lstrip(rest)) = Visible(rest) /\ Shown(Lstrip(rest)) = Shown(rest)
    BY Stripped
<1>7. Lstrip(rest) # <<>> => Lstrip(rest)[1] # "s"
    BY Lstripped
<1>8. Len(Lstrip(rest)) \in Nat /\ Len(rest) \in Nat
    BY <1>6, LenProperties DEF Text
<1>9. Len(Lstrip(rest)) < Len(text)
    BY <1>0, <1>4, <1>6, <1>8
<1>10. /\ Visible(head \o rest) = Visible(head) \o Visible(rest)
       /\ Shown(head \o rest) = Shown(head) \o Shown(rest)
    BY TextConcat
<1> QED BY <1>3, <1>4, <1>5, <1>6, <1>7, <1>9, <1>10

\* A piece of text that rstrip shortens keeps its units.
LEMMA RstrippedUnits ==
    ASSUME NEW text \in Text
    PROVE  \A i \in 1..Len(Rstrip(text)) : i \in 1..Len(text) /\ Rstrip(text)[i] = text[i]
<1>1. PICK r \in Text : r = Rstrip(text)
    BY Rstripped
<1>2. PICK b \in Text : text = r \o b
    BY <1>1, Rstripped
<1>3. \A i \in 1..Len(r) : i \in 1..Len(r \o b) /\ (r \o b)[i] = r[i]
    BY DEF Text
<1> QED BY <1>1, <1>2, <1>3

\* A chunk is a non-empty head of the buffer without the white space after it,
\* and at most a window long where it is cut.
LEMMA ChunkTaken ==
    ASSUME NEW text \in Text, NEW final \in BOOLEAN, NEW chunk \in Chunks(text, final)
    PROVE  /\ chunk.at \in 1..Len(text)
           /\ chunk.content \in Text
           /\ Shown(chunk.content) = Shown(Cut(text, chunk.at))
           /\ Len(chunk.content) <= Window
           /\ \A i \in 1..Len(chunk.content) :
                 i \in 1..Len(text) /\ chunk.content[i] = text[i]
           /\ Blank(chunk.content) =>
                 \A i \in 1..Len(text) : i <= Window => text[i] = "s"
<1>0. Len(text) \in Nat /\ Window \in Nat \ {0} /\ DOMAIN text = 1..Len(text)
    BY LenProperties, BoundsAssumption DEF Text
<1>1. text # <<>>
    BY DEF Chunks
<1>2. Len(text) # 0
    BY <1>1, EmptySeq DEF Text
<1>3. CASE final /\ Len(text) <= Window
  <2>1. chunk = [at |-> Len(text), content |-> text]
      BY <1>1, <1>3 DEF Chunks
  <2>2. Cut(text, Len(text)) = text
      BY SubSeqFull DEF Cut, Text
  <2>3. chunk.at = Len(text) /\ chunk.content = text
      BY <2>1
  <2> QED BY <1>0, <1>2, <1>3, <2>2, <2>3 DEF Blank
<1>4. CASE ~ (final /\ Len(text) <= Window)
  <2>1. Len(text) >= Window /\ chunk \in Pieces(text)
    <3>1. CASE Len(text) < Window
        BY <1>0, <1>1, <1>4, <3>1 DEF Chunks
    <3>2. CASE ~ (Len(text) < Window)
        BY <1>0, <1>1, <1>4, <3>2 DEF Chunks
    <3> QED BY <3>1, <3>2
  <2>2. PICK cut \in 1..Window :
            chunk = IF Blank(Cut(text, cut))
                    THEN [at |-> Window, content |-> Rstrip(Cut(text, Window))]
                    ELSE [at |-> cut, content |-> Rstrip(Cut(text, cut))]
      BY <2>1 DEF Pieces
  <2>3. PICK at \in 1..Window :
            /\ chunk = [at |-> at, content |-> Rstrip(Cut(text, at))]
            /\ Blank(Cut(text, at)) => at = Window
    <3>1. CASE Blank(Cut(text, cut))
      <4>1. Window \in 1..Window
          BY <1>0
      <4> QED BY <2>2, <3>1, <4>1
    <3>2. CASE ~ Blank(Cut(text, cut))
        BY <2>2, <3>2
    <3> QED BY <3>1, <3>2
  <2>4. at \in 0..Len(text) /\ at \in 1..Len(text)
      BY <1>0, <2>1
  <2>5. PICK head \in Text : head = Cut(text, at)
      BY <2>4, CutAt
  <2>6. /\ Len(head) = at /\ \A i \in 1..at : head[i] = text[i]
      BY <2>4, <2>5, CutAt
  <2>7. /\ Rstrip(head) \in Text /\ Shown(Rstrip(head)) = Shown(head)
        /\ Blank(Rstrip(head)) <=> Blank(head)
        /\ Len(Rstrip(head)) <= Len(head)
      BY Stripped
  <2>8. \A i \in 1..Len(Rstrip(head)) : i \in 1..Len(head) /\ Rstrip(head)[i] = head[i]
      BY RstrippedUnits
  <2>9. chunk.at = at /\ chunk.content = Rstrip(head)
      BY <2>3, <2>5
  <2>10. Len(Rstrip(head)) \in Nat
      BY <2>7, LenProperties DEF Text
  <2>11. Len(Rstrip(head)) <= Window
      BY <1>0, <2>6, <2>7, <2>10
  <2>12. ASSUME NEW i \in 1..Len(Rstrip(head))
         PROVE  i \in 1..Len(text) /\ Rstrip(head)[i] = text[i]
    <3>1. i \in 1..at /\ Rstrip(head)[i] = head[i]
        BY <2>6, <2>8
    <3> QED BY <2>4, <2>6, <3>1
  <2>13. ASSUME Blank(Rstrip(head)), NEW i \in 1..Len(text), i <= Window
         PROVE  text[i] = "s"
    <3>1. Blank(head) /\ at = Window
        BY <2>3, <2>5, <2>7, <2>13
    <3>2. i \in 1..at /\ DOMAIN head = 1..at
        BY <1>0, <2>6, <2>13, <3>1, LenProperties DEF Text
    <3>3. head[i] = "s"
        BY <3>1, <3>2 DEF Blank
    <3> QED BY <2>6, <3>2, <3>3
  <2> QED BY <2>4, <2>5, <2>7, <2>9, <2>11, <2>12, <2>13
<1> QED BY <1>3, <1>4

\* The flush loop stops with less than a window, at the end with nothing.
LEMMA NoChunks ==
    ASSUME NEW text \in Text, NEW final \in BOOLEAN, Chunks(text, final) = {}
    PROVE  Len(text) < Window /\ (final => text = <<>>)
<1>0. Len(text) \in Nat /\ Window \in Nat \ {0}
    BY LenProperties, BoundsAssumption DEF Text
<1>1. CASE text = <<>>
  <2>1. Len(text) = 0
      BY <1>1, EmptySeq
  <2> QED BY <1>0, <1>1, <2>1
<1>2. CASE text # <<>>
  <2>1. ~ (final /\ Len(text) <= Window)
      BY <1>2 DEF Chunks
  <2>2. Len(text) < Window
    <3>1. SUFFICES ASSUME ~ (Len(text) < Window) PROVE FALSE
        OBVIOUS
    <3>2. Pieces(text) = {}
        BY <1>2, <2>1, <3>1 DEF Chunks
    <3>3. 1 \in 1..Window
        BY <1>0
    <3> QED BY <3>2, <3>3 DEF Pieces
  <2> QED BY <1>0, <2>1, <2>2
<1> QED BY <1>1, <1>2

-----------------------------------------------------------------------------
(* What publish_transcript publishes.                                      *)

LEMMA Remaining ==
    ASSUME NEW S, NEW p \in Seq(S), NEW q \in Seq(S)
    PROVE  SubSeq(p \o q, Len(p) + 1, Len(p \o q)) = q
<1>0. Len(p) \in Nat /\ Len(q) \in Nat
    BY LenProperties
<1>1. PICK r \in Seq(S) : r = p \o q
    BY ConcatProperties
<1>2. Len(r) = Len(p) + Len(q) /\ \A i \in 1..Len(q) : r[Len(p) + i] = q[i]
    BY <1>1
<1>3. PICK k \in 0..Len(r) : k = Len(p)
    BY <1>0, <1>2
<1>4. /\ SubSeq(r, k + 1, Len(r)) \in Seq(S)
      /\ Len(SubSeq(r, k + 1, Len(r))) = Len(r) - k
      /\ \A i \in 1..(Len(r) - k) : SubSeq(r, k + 1, Len(r))[i] = r[k + i]
    OBVIOUS
<1>5. Len(r) - k = Len(q) /\ \A i \in 1..Len(q) : r[k + i] = q[i]
    BY <1>0, <1>2, <1>3
<1>6. SubSeq(r, k + 1, Len(r)) = q
    BY <1>4, <1>5, SeqEqual
<1> QED BY <1>1, <1>3, <1>6

\* One more message comes after those before it, on a line of its own.
LEMMA ComposedAppend ==
    ASSUME NEW messages \in Seq(Text), NEW text \in Text
    PROVE  /\ Composed(messages) \in Text
           /\ \E gap \in Text : /\ Blank(gap)
                                /\ Composed(Append(messages, text))
                                       = Composed(messages) \o (gap \o text)
<1> DEFINE Spaced(m) == [i \in DOMAIN m |->
                            IF i = 1 THEN m[i] ELSE <<"s">> \o m[i]]
<1>1. <<"s">> \in Text /\ Blank(<<"s">>) /\ <<>> \in Text /\ Blank(<<>>)
    BY EmptySeq DEF Text, Unit, Blank
<1>2. ASSUME NEW m \in Seq(Text)
      PROVE  /\ Spaced(m) \in Seq(Text) /\ Len(Spaced(m)) = Len(m)
             /\ \A i \in 1..Len(m) :
                   Spaced(m)[i] = IF i = 1 THEN m[i] ELSE <<"s">> \o m[i]
  <2>1. Len(m) \in Nat /\ DOMAIN m = 1..Len(m) /\ \A i \in 1..Len(m) : m[i] \in Text
      BY LenProperties, ElementOfSeq
  <2>2. \A i \in 1..Len(m) : <<"s">> \o m[i] \in Text
      BY <1>1, <2>1, ConcatProperties DEF Text
  <2>3. Spaced(m) \in [1..Len(m) -> Text]
      BY <2>1, <2>2
  <2> QED BY <2>1, <2>3, TableIsSequence
<1>3. /\ Composed(messages) = FlattenSeq(Spaced(messages))
      /\ Composed(Append(messages, text)) = FlattenSeq(Spaced(Append(messages, text)))
    BY DEF Composed
<1>4. /\ Append(messages, text) \in Seq(Text) /\ Len(messages) \in Nat
      /\ Len(Append(messages, text)) = Len(messages) + 1
      /\ \A i \in 1..Len(messages) : Append(messages, text)[i] = messages[i]
      /\ Append(messages, text)[Len(messages) + 1] = text
    BY Grown
<1>5. PICK gap \in Text :
          /\ Blank(gap)
          /\ gap \o text = IF Len(messages) = 0 THEN text ELSE <<"s">> \o text
  <2>1. CASE Len(messages) = 0
    <3>1. <<>> \o text = text
        BY ConcatEmptySeq DEF Text
    <3> QED BY <1>1, <2>1, <3>1
  <2>2. CASE Len(messages) # 0
      BY <1>1, <2>2
  <2> QED BY <2>1, <2>2
<1>6. PICK last \in Text : last = gap \o text
    BY ConcatProperties DEF Text
<1>7. Spaced(Append(messages, text)) = Append(Spaced(messages), last)
  <2>1. PICK x \in Seq(Text) : x = Spaced(messages)
      BY <1>2
  <2>2. PICK y \in Seq(Text) : y = Spaced(Append(messages, text))
      BY <1>2, <1>4
  <2>3. Len(y) = Len(x) + 1 /\ Len(x) = Len(messages)
      BY <1>2, <1>4, <2>1, <2>2
  <2>4. ASSUME NEW i \in 1..Len(x)
        PROVE  y[i] = x[i]
    <3>1. i \in 1..(Len(messages) + 1) /\ i \in 1..Len(messages)
        BY <1>4, <2>3
    <3> QED BY <1>2, <1>4, <2>1, <2>2, <3>1
  <2>5. y[Len(x) + 1] = last
    <3>1. Len(messages) + 1 \in 1..(Len(messages) + 1)
        BY <1>4
    <3>2. y[Len(messages) + 1] = IF Len(messages) + 1 = 1 THEN text ELSE <<"s">> \o text
        BY <1>2, <1>4, <2>2, <3>1
    <3>3. Len(messages) + 1 = 1 <=> Len(messages) = 0
        BY <1>4
    <3> QED BY <1>5, <1>6, <2>3, <3>2, <3>3
  <2>6. /\ Append(x, last) \in Seq(Text) /\ Len(Append(x, last)) = Len(x) + 1
        /\ \A i \in 1..Len(x) : Append(x, last)[i] = x[i]
        /\ Append(x, last)[Len(x) + 1] = last /\ Len(x) \in Nat
      BY Grown
  <2>7. \A i \in 1..Len(y) : y[i] = Append(x, last)[i]
    <3>1. \A i \in 1..Len(y) : i \in 1..Len(x) \/ i = Len(x) + 1
        BY <2>3, <2>6
    <3> QED BY <2>4, <2>5, <2>6, <3>1
  <2>8. y = Append(x, last)
      BY <2>3, <2>6, <2>7, SeqEqual
  <2> QED BY <2>1, <2>2, <2>8
<1>8. Spaced(messages) \in Seq(Text)
    BY <1>2
<1> HIDE DEF Spaced
<1>9. /\ FlattenSeq(Spaced(messages)) \in Text
      /\ FlattenSeq(Append(Spaced(messages), last)) = FlattenSeq(Spaced(messages)) \o last
    BY <1>8, Flattened DEF Text
<1> QED BY <1>3, <1>5, <1>6, <1>7, <1>9

\* The transcript without the messages published before it shows the reply.
LEMMA FinalShown ==
    ASSUME NEW messages \in Seq(Text), NEW text \in Text
    PROVE  /\ FinalContent(messages, text) \in Text
           /\ Shown(FinalContent(messages, text)) = Shown(text)
<1>1. PICK body \in Text : body = Strip(text)
    BY Stripped
<1>2. PICK prefix \in Text : prefix = Composed(messages)
    BY ComposedAppend
<1>3. PICK gap \in Text :
          Blank(gap) /\ Composed(Append(messages, body)) = prefix \o (gap \o body)
    BY <1>2, ComposedAppend
<1>4. PICK rest \in Text : rest = gap \o body
    BY TextConcat
<1>5. PICK full \in Text : full = prefix \o rest
    BY TextConcat
<1>6. full = Composed(Append(messages, Strip(text)))
    BY <1>1, <1>3, <1>4, <1>5
<1>7. IsPrefix(prefix, full)
    BY <1>5, Begins DEF Text
<1>8. SubSeq(full, Len(prefix) + 1, Len(full)) = rest
    BY <1>5, Remaining DEF Text
<1>9. FinalContent(messages, text) = Lstrip(rest)
    BY <1>2, <1>6, <1>7, <1>8 DEF FinalContent
<1>10. Lstrip(rest) \in Text /\ Shown(Lstrip(rest)) = Shown(rest)
    BY Stripped
<1>11. Shown(gap \o body) = Shown(gap) \o Shown(body) /\ Shown(body) \in Text
    BY TextConcat
<1>12. Shown(gap) = <<>>
    BY <1>3, BlankShown
<1>13. Shown(body) = Shown(text)
    BY <1>1, Stripped
<1>14. <<>> \o Shown(body) = Shown(body)
    BY <1>11, ConcatEmptySeq DEF Text
<1> QED BY <1>4, <1>9, <1>10, <1>11, <1>12, <1>13, <1>14

-----------------------------------------------------------------------------
(* Types, and what the reporter holds at each point of the turn.           *)

Failing == {"reporting", "failed"}
Closing == {"finishing", "deleting", "done"}

\* Where text may wait: in the outbox only while an acknowledgement is posted,
\* in the stream buffer only once text streams or the end is near.
Quiet ==
    /\ pc # "posting" /\ pc \notin Failing => outbox = <<>>
    /\ pc = "posting" => ~streaming /\ outbox # <<>> /\ outbox[1] # "s"
    /\ pc = "flushing" => streaming
    /\ pc = "start" => ~streaming
    /\ pc \in {"start", "working", "posting"} /\ ~streaming => buffer = <<>>
    /\ ~streaming => cursor = 0
    /\ pc \in {"deleting", "done"} => buffer = <<>>
    /\ pc \in Closing => edits = {} /\ cause = "none"
    /\ cause = "content" => pc \in Failing

Typed == TypeOK /\ Quiet

LEMMA TextsTyped ==
    /\ \A text \in Replies \cup Notes : text \in Text /\ ~ Blank(text)
    /\ <<>> \in Text /\ Len(<<>>) = 0
BY TextsAssumption, EmptySeq DEF Text

\* An acknowledgement starts with visible text, rendered too.
LEMMA NoteRendered ==
    ASSUME NEW note \in Notes
    PROVE  /\ Strip(note) \in Text /\ Rendered(Strip(note)) \in Text
           /\ Rendered(Strip(note)) # <<>> /\ Rendered(Strip(note))[1] # "s"
<1>1. note \in Text /\ ~ Blank(note)
    BY TextsTyped
<1>2. PICK right \in Text : right = Rstrip(note) /\ ~ Blank(right)
    BY <1>1, Stripped
<1>3. PICK body \in Text : body = Lstrip(right) /\ ~ Blank(body)
    BY <1>2, Stripped
<1>4. body # <<>>
    BY <1>3 DEF Blank
<1>5. body[1] # "s"
    BY <1>2, <1>3, <1>4, Lstripped
<1>6. Len(body) \in Nat /\ Len(body) # 0
    BY <1>4, LenProperties, EmptySeq DEF Text
<1>7. 1 \in 0..Len(body) /\ 1 \in 1..Len(body)
    BY <1>6
<1>8. body[1] \in Unit
    BY <1>7, ElementOfSeq DEF Text
<1>9. PICK u \in Unit : u = body[1]
    BY <1>8
<1>10. PICK rest \in Text : rest = SubSeq(body, 1 + 1, Len(body))
    BY <1>7, CutAt
<1>11. body = <<u>> \o rest /\ <<u>> \in Text
  <2>1. PICK head \in Text : head = Cut(body, 1)
      BY <1>7, CutAt
  <2>2. body = head \o rest /\ Len(head) = 1 /\ \A i \in 1..1 : head[i] = body[i]
      BY <1>7, <1>10, <2>1, CutAt
  <2>3. <<u>> \in Text /\ Len(<<u>>) = 1 /\ <<u>>[1] = u
      BY DEF Text
  <2>4. \A i \in 1..Len(head) : head[i] = <<u>>[i]
      BY <1>9, <2>2, <2>3
  <2>5. head = <<u>>
      BY <2>2, <2>3, <2>4, SeqEqual DEF Text
  <2> QED BY <2>2, <2>3, <2>5
<1>12. PICK form \in Text : form = RenderedAs[u] /\ Rendered(body) = form \o Rendered(rest)
  <2>1. Rendered(<<u>>) = RenderedAs[u] /\ RenderedAs[u] \in Text
      BY SpelledOne, SpellingsTyped DEF Rendered, Spellings
  <2>2. Rendered(<<u>> \o rest) = Rendered(<<u>>) \o Rendered(rest)
      BY <1>11, TextConcat
  <2> QED BY <1>11, <2>1, <2>2
<1>13. Len(form) \in Nat \ {0} /\ form[1] = "w"
  <2>1. u = "w" \/ u = "t"
      BY <1>5, <1>9 DEF Unit
  <2>2. CASE u = "w"
    <3>1. form = <<"w">>
        BY <1>12, <2>2 DEF RenderedAs
    <3> QED BY <3>1
  <2>3. CASE u = "t"
    <3>1. form = [k \in 1..Width |-> "w"]
        BY <1>12, <2>3 DEF RenderedAs
    <3>2. Width \in Nat \ {0} /\ 1 \in 1..Width
        BY BoundsAssumption
    <3>3. Len(form) = Width
      <4>1. DOMAIN form = 1..Width /\ DOMAIN form = 1..Len(form) /\ Len(form) \in Nat
          BY <3>1, LenProperties DEF Text
      <4> QED BY <3>2, <4>1
    <3> QED BY <3>1, <3>2, <3>3
  <2> QED BY <2>1, <2>2, <2>3
<1>14. PICK tail \in Text : tail = Rendered(rest)
    BY TextConcat
<1>15. form \o tail \in Text /\ form \o tail # <<>> /\ (form \o tail)[1] = "w"
    BY <1>13 DEF Text
<1>16. Strip(note) = body
    BY <1>2, <1>3 DEF Strip
<1> QED BY <1>12, <1>14, <1>15, <1>16

\* Discord takes every chunk of an acknowledgement.
LEMMA Postable ==
    ASSUME NEW text \in Text, text # <<>>, text[1] # "s",
           NEW at \in IF Len(text) <= Limit THEN {Len(text)} ELSE 1..Limit
    PROVE  /\ at \in 1..Len(text)
           /\ Rstrip(Cut(text, at)) \in Text
           /\ Visible(Rstrip(Cut(text, at))) = Visible(Cut(text, at))
           /\ Acceptable(Rstrip(Cut(text, at)))
<1>0. Len(text) \in Nat \ {0} /\ Limit \in Nat \ {0}
    BY BoundsAssumption, LenProperties, EmptySeq DEF Text
<1>1. at \in 1..Len(text) /\ at <= Limit
  <2>1. CASE Len(text) <= Limit
      BY <1>0, <2>1
  <2>2. CASE ~ (Len(text) <= Limit)
      BY <1>0, <2>2
  <2> QED BY <2>1, <2>2
<1>2. at \in 0..Len(text) /\ 1 \in 1..at
    BY <1>1
<1>3. PICK head \in Text : head = Cut(text, at)
    BY <1>2, CutAt
<1>4. Len(head) = at /\ head[1] = text[1]
    BY <1>2, <1>3, CutAt
<1>5. ~ Blank(head)
  <2>1. 1 \in DOMAIN head
      BY <1>2, <1>4, LenProperties DEF Text
  <2> QED BY <1>4, <2>1 DEF Blank
<1>6. /\ Rstrip(head) \in Text /\ Visible(Rstrip(head)) = Visible(head)
      /\ ~ Blank(Rstrip(head)) /\ Len(Rstrip(head)) <= Len(head)
    BY <1>5, Stripped
<1>7. Len(Rstrip(head)) \in Nat
    BY <1>6, LenProperties DEF Text
<1>8. Len(Rstrip(head)) <= Limit
    BY <1>0, <1>1, <1>4, <1>6, <1>7
<1> QED BY <1>1, <1>3, <1>6, <1>8 DEF Acceptable

LEMMA TypedInit == Init => Typed
<1> SUFFICES ASSUME Init PROVE Typed
    OBVIOUS
<1>1. /\ reply \in Text /\ Len(reply) \in Nat /\ Len(<<>>) = 0
      /\ <<>> \in Seq(Unit) /\ <<>> \in Seq(Seq(Unit))
    BY TextsTyped, LenProperties, EmptySeq DEF Init, Text
<1>2. TypeOK
  <2>1. cursor \in 0..Len(reply) /\ emitted \in 0..MaxStatuses /\ Len(published) <= MaxNotes
      BY <1>1, BoundsAssumption DEF Init
  <2>2. /\ produced \in Seq(Unit) /\ outbox \in Seq(Unit) /\ buffer \in Seq(Unit)
        /\ published \in Seq(Seq(Unit)) /\ posted \in Seq(Seq(Unit))
      BY <1>1 DEF Init
  <2>3. edits = {}
      BY DEF Init
  <2> QED BY <2>1, <2>2, <2>3 DEF Init, TypeOK
<1>3. Quiet
    BY DEF Init, Quiet, Failing, Closing
<1> QED BY <1>2, <1>3 DEF Typed

\* What a flush does: the loop ends, a chunk is posted, or the turn fails.
FlushEnds ==
    /\ Chunks(buffer, pc = "finishing") = {}
    /\ pc' = IF pc = "finishing" THEN "deleting" ELSE "working"
    /\ UNCHANGED <<posted, buffer, cause, edits>>
FlushPosts(chunk) ==
    /\ Acceptable(Rendered(chunk.content))
    /\ posted' = Append(posted, Rendered(chunk.content))
    /\ buffer' = After(buffer, chunk.at)
    /\ UNCHANGED <<pc, cause, edits>>
FlushFails(chunk) ==
    /\ Raise(IF Acceptable(Rendered(chunk.content)) THEN "post" ELSE "content")
    /\ UNCHANGED <<posted, buffer>>

LEMMA FlushCases ==
    ASSUME Flush
    PROVE  /\ pc \in {"flushing", "finishing"}
           /\ UNCHANGED <<agent, published, outbox, streaming, status, emitted, placeholder>>
           /\ \/ FlushEnds
              \/ \E chunk \in Chunks(buffer, pc = "finishing") :
                    FlushPosts(chunk) \/ FlushFails(chunk)
BY DEF Flush, FlushEnds, FlushPosts, FlushFails

\* What posting a chunk of an acknowledgement does, and that Discord can only
\* refuse it for another reason than its content.
ChunkPosts(at) ==
    /\ posted' = Append(posted, Rstrip(Cut(outbox, at)))
    /\ outbox' = After(outbox, at)
    /\ pc' = IF After(outbox, at) = <<>> THEN "working" ELSE "posting"
    /\ UNCHANGED <<cause, edits>>
ChunkFails == Raise("post") /\ UNCHANGED <<posted, outbox>>

LEMMA PostCases ==
    ASSUME Typed, PostChunk
    PROVE  /\ pc = "posting"
           /\ UNCHANGED <<agent, published, buffer, streaming, status, emitted, placeholder>>
           /\ \E at \in 1..Len(outbox) :
                 /\ Rstrip(Cut(outbox, at)) \in Text
                 /\ Visible(Rstrip(Cut(outbox, at))) = Visible(Cut(outbox, at))
                 /\ ChunkPosts(at) \/ ChunkFails
<1>1. pc = "posting" /\ outbox \in Text /\ outbox # <<>> /\ outbox[1] # "s"
    BY DEF Typed, TypeOK, Quiet, PostChunk, Text
<1>2. PICK at \in IF Len(outbox) <= Limit THEN {Len(outbox)} ELSE 1..Limit :
          LET content == Rstrip(Cut(outbox, at)) IN
          \/ /\ Acceptable(content)
             /\ posted' = Append(posted, content)
             /\ outbox' = After(outbox, at)
             /\ pc' = IF After(outbox, at) = <<>> THEN "working" ELSE "posting"
             /\ UNCHANGED <<cause, edits>>
          \/ /\ Raise(IF Acceptable(content) THEN "post" ELSE "content")
             /\ UNCHANGED <<posted, outbox>>
    BY DEF PostChunk
<1>3. /\ at \in 1..Len(outbox)
      /\ Rstrip(Cut(outbox, at)) \in Text
      /\ Visible(Rstrip(Cut(outbox, at))) = Visible(Cut(outbox, at))
      /\ Acceptable(Rstrip(Cut(outbox, at)))
    BY <1>1, Postable
<1>4. ChunkPosts(at) \/ ChunkFails
    BY <1>2, <1>3 DEF ChunkPosts, ChunkFails
<1> QED BY <1>1, <1>3, <1>4 DEF PostChunk

LEMMA TypedStep == Typed /\ [Next]_vars => Typed'
<1> SUFFICES ASSUME Typed, [Next]_vars PROVE Typed'
    OBVIOUS
<1> USE DEF Failing, Closing, agent, reporter, statusLine
<1>0. TypeOK /\ Quiet
    BY DEF Typed
<1>a. /\ reply \in Text /\ Len(reply) \in Nat
      /\ produced \in Text /\ outbox \in Text /\ buffer \in Text
      /\ published \in Seq(Text) /\ posted \in Seq(Text)
      /\ <<>> \in Text /\ Len(<<>>) = 0 /\ Window \in Nat \ {0}
    BY <1>0, TextsTyped, LenProperties, BoundsAssumption DEF TypeOK, Text
<1>1. CASE Start
  <2>1. Len(buffer) < Window
      BY <1>0, <1>1, <1>a DEF Start, Quiet
  <2> QED BY <1>0, <1>1, <2>1 DEF Typed, TypeOK, Quiet, Start, Raise
<1>2. ASSUME NEW s \in Statuses, Emit(s)
      PROVE  Typed'
  <2>1. emitted \in 0..MaxStatuses /\ emitted + 1 \in 0..MaxStatuses
      BY <1>0, <1>2, BoundsAssumption DEF TypeOK, Emit
  <2>2. [nr |-> emitted, text |-> s, stage |-> "typing"]
            \in [nr : 0..MaxStatuses, text : Statuses, stage : {"typing", "editing"}]
      BY <2>1
  <2> QED BY <1>0, <1>2, <2>1, <2>2 DEF Typed, TypeOK, Quiet, Emit, AgentRuns
<1>3. ASSUME NEW e \in edits, DecideEdit(e)
      PROVE  Typed'
  <2>1. [e EXCEPT !.stage = "editing"]
            \in [nr : 0..MaxStatuses, text : Statuses, stage : {"typing", "editing"}]
      BY <1>0 DEF TypeOK
  <2>2. edits' \subseteq [nr : 0..MaxStatuses, text : Statuses,
                          stage : {"typing", "editing"}]
      BY <1>0, <1>3, <2>1 DEF TypeOK, DecideEdit
  <2> QED BY <1>0, <1>3, <2>2 DEF Typed, TypeOK, Quiet, DecideEdit, AgentRuns
<1>4. ASSUME NEW e \in edits, EditStatusMessage(e)
      PROVE  Typed'
  <2>1. e.text \in Statuses
      BY <1>0 DEF TypeOK
  <2> QED BY <1>0, <1>4, <2>1 DEF Typed, TypeOK, Quiet, EditStatusMessage, AgentRuns
<1>5. ASSUME NEW note \in Notes, PublishMessage(note)
      PROVE  Typed'
  <2>1. /\ Strip(note) \in Text /\ Rendered(Strip(note)) \in Text
        /\ Rendered(Strip(note)) # <<>> /\ Rendered(Strip(note))[1] # "s"
      BY NoteRendered
  <2>2. /\ Append(published, Strip(note)) \in Seq(Text)
        /\ Len(Append(published, Strip(note))) = Len(published) + 1
        /\ Len(published) \in Nat
      BY <1>a, <2>1, Grown
  <2>3. produced \o Strip(note) \in Text
      BY <1>a, <2>1, TextConcat
  <2>4. Len(Append(published, Strip(note))) <= MaxNotes
      BY <1>5, <2>2, BoundsAssumption DEF PublishMessage
  <2>5. TypeOK'
      BY <1>0, <1>5, <2>1, <2>2, <2>3, <2>4 DEF TypeOK, PublishMessage, Text
  <2>6. Quiet'
      BY <1>0, <1>5, <2>1 DEF Quiet, PublishMessage
  <2> QED BY <2>5, <2>6 DEF Typed
<1>6. CASE PostChunk
  <2>1. /\ pc = "posting"
        /\ UNCHANGED <<agent, published, buffer, streaming, status, emitted, placeholder>>
      BY <1>6, PostCases
  <2>2. PICK at \in 1..Len(outbox) :
            Rstrip(Cut(outbox, at)) \in Text /\ (ChunkPosts(at) \/ ChunkFails)
      BY <1>6, PostCases
  <2>3. /\ After(outbox, at) \in Text
        /\ After(outbox, at) # <<>> => After(outbox, at)[1] # "s"
      BY <1>a, AfterCut
  <2>4. Append(posted, Rstrip(Cut(outbox, at))) \in Seq(Text)
      BY <1>a, <2>2, Grown
  <2>5. buffer = <<>> /\ ~ streaming
      BY <1>0, <2>1 DEF Quiet
  <2>6. CASE ChunkPosts(at)
    <3>1. TypeOK'
        BY <1>0, <1>a, <2>1, <2>3, <2>4, <2>5, <2>6 DEF TypeOK, ChunkPosts, Text
    <3>2. Quiet'
        BY <1>0, <2>1, <2>3, <2>5, <2>6 DEF Quiet, ChunkPosts
    <3> QED BY <3>1, <3>2 DEF Typed
  <2>7. CASE ChunkFails
      BY <1>0, <2>1, <2>7 DEF Typed, TypeOK, Quiet, ChunkFails, Raise
  <2> QED BY <2>2, <2>6, <2>7
<1>7. ASSUME NEW n \in 1..MaxDelta, StreamContent(n)
      PROVE  Typed'
  <2>1. n \in Nat \ {0} /\ cursor \in Nat /\ cursor + n \in 0..Len(reply)
      BY <1>0, <1>7, <1>a, BoundsAssumption DEF TypeOK, StreamContent
  <2>2. SubSeq(reply, cursor + 1, cursor + n) \in Text
      BY <1>a, <2>1 DEF Text
  <2>3. PICK delta \in Text : delta = SubSeq(reply, cursor + 1, cursor + n)
      BY <2>2
  <2>4. buffer \o delta \in Text /\ produced \o delta \in Text
      BY <1>a, TextConcat
  <2>5. buffer' = buffer \o delta /\ produced' = produced \o delta
      BY <1>7, <2>3 DEF StreamContent
  <2>6. TypeOK'
      BY <1>0, <1>7, <2>1, <2>4, <2>5 DEF TypeOK, StreamContent, Text
  <2>7. Quiet'
      BY <1>0, <1>7 DEF Quiet, StreamContent
  <2> QED BY <2>6, <2>7 DEF Typed
<1>8. CASE Retry
  <2>1. 0 \in 0..Len(reply)
      BY <1>a
  <2> QED BY <1>0, <1>8, <2>1 DEF Typed, TypeOK, Quiet, Retry
<1>9. CASE PublishTranscript
  <2>1. FinalContent(published, reply) \in Text
      BY <1>a, FinalShown
  <2>2. produced \o Strip(reply) \in Text
      BY <1>a, Stripped, TextConcat
  <2>3. TypeOK'
      BY <1>0, <1>9, <2>1, <2>2 DEF TypeOK, PublishTranscript, Text
  <2>4. Quiet'
      BY <1>0, <1>9 DEF Quiet, PublishTranscript
  <2> QED BY <2>3, <2>4 DEF Typed
<1>10. CASE Flush
  <2>1. /\ pc \in {"flushing", "finishing"}
        /\ UNCHANGED <<agent, published, outbox, streaming, status, emitted, placeholder>>
      BY <1>10, FlushCases
  <2>2. (pc = "finishing") \in BOOLEAN
      OBVIOUS
  <2>3. CASE FlushEnds
    <3>1. Len(buffer) < Window /\ (pc = "finishing" => buffer = <<>>)
        BY <1>a, <2>2, <2>3, NoChunks DEF FlushEnds
    <3> QED BY <1>0, <2>1, <2>3, <3>1 DEF Typed, TypeOK, Quiet, FlushEnds
  <2>4. ASSUME NEW chunk \in Chunks(buffer, pc = "finishing"), FlushPosts(chunk)
        PROVE  Typed'
    <3>1. chunk.at \in 1..Len(buffer) /\ chunk.content \in Text
        BY <1>a, <2>2, ChunkTaken
    <3>2. After(buffer, chunk.at) \in Text
        BY <1>a, <3>1, AfterCut
    <3>3. Rendered(chunk.content) \in Text
        BY <3>1, TextConcat
    <3>4. Append(posted, Rendered(chunk.content)) \in Seq(Text)
        BY <1>a, <3>3, Grown
    <3>5. TypeOK'
        BY <1>0, <2>1, <2>4, <3>2, <3>4 DEF TypeOK, FlushPosts, Text
    <3>6. Quiet'
        BY <1>0, <2>1, <2>4 DEF Quiet, FlushPosts
    <3> QED BY <3>5, <3>6 DEF Typed
  <2>5. ASSUME NEW chunk \in Chunks(buffer, pc = "finishing"), FlushFails(chunk)
        PROVE  Typed'
      BY <1>0, <2>1, <2>5 DEF Typed, TypeOK, Quiet, FlushFails, Raise
  <2> QED BY <1>10, <2>3, <2>4, <2>5, FlushCases
<1>11. CASE DeleteStatusMessage
    BY <1>0, <1>11 DEF Typed, TypeOK, Quiet, DeleteStatusMessage
<1>12. CASE PublishError
    BY <1>0, <1>12 DEF Typed, TypeOK, Quiet, PublishError
<1>13. CASE AgentFails
    BY <1>0, <1>13 DEF Typed, TypeOK, Quiet, AgentFails, Raise
<1>14. CASE UNCHANGED vars
    BY <1>0, <1>14 DEF Typed, TypeOK, Quiet, vars
<1> QED BY <1>1, <1>2, <1>3, <1>4, <1>5, <1>6, <1>7, <1>8, <1>9, <1>10, <1>11,
           <1>12, <1>13, <1>14 DEF Next

LEMMA AlwaysTyped == Spec => []Typed
BY TypedInit, TypedStep, PTL DEF Spec

\* Every variable keeps its type, and a flush leaves less than a window waiting.
THEOREM TypeCorrect == Spec => []TypeOK
<1>1. Typed => TypeOK
    BY DEF Typed
<1> QED BY <1>1, AlwaysTyped, PTL

-----------------------------------------------------------------------------
(* The thread shows what was handed to the reporter.                       *)

\* What the thread p shows, what of the outbox o will be posted and what of the
\* buffer b will be rendered make up the text t.
Balance(p, o, b, t) ==
    Visible(FlattenSeq(p)) \o (Visible(o) \o Shown(b)) = Shown(t)

Delivered == Balance(posted, outbox, buffer, produced)

LEMMA NothingShown == Visible(<<>>) = <<>> /\ Shown(<<>>) = <<>>
<1>1. <<>> \in Text /\ Blank(<<>>)
    BY TextsTyped DEF Blank
<1> QED BY <1>1, BlankShown

LEMMA ThreadGrows ==
    ASSUME NEW p \in Seq(Text), NEW x \in Text
    PROVE  /\ Visible(FlattenSeq(p)) \in Text
           /\ Visible(FlattenSeq(Append(p, x))) = Visible(FlattenSeq(p)) \o Visible(x)
<1>1. FlattenSeq(p) \in Text /\ FlattenSeq(Append(p, x)) = FlattenSeq(p) \o x
    BY Flattened DEF Text
<1> QED BY <1>1, TextConcat

LEMMA TextsJoin == \A a, b, c \in Text : Joins(a, b, c)
BY SequencesJoin, Zenon DEF Text

LEMMA Associated ==
    ASSUME NEW a \in Text, NEW b \in Text, NEW c \in Text
    PROVE  a \o (b \o c) = (a \o b) \o c
<1>1. Joins(a, b, c)
    BY TextsJoin, Zenon
<1> QED BY <1>1 DEF Joins

LEMMA NothingAdded ==
    ASSUME NEW a \in Text
    PROVE  <<>> \o a = a /\ a \o <<>> = a
BY ConcatEmptySeq DEF Text

\* Adding a fourth text to what the first three make up.
Gathers(a, b, c, d) == a \o (b \o (c \o d)) = (a \o (b \o c)) \o d

LEMMA Gathered ==
    ASSUME NEW a \in Text, NEW b \in Text, NEW c \in Text, NEW d \in Text
    PROVE  Gathers(a, b, c, d)
<1>1. PICK bc \in Text : bc = b \o c
    BY TextConcat
<1>2. Joins(b, c, d)
    BY TextsJoin, Zenon
<1>3. Joins(a, bc, d)
    BY TextsJoin, Zenon
<1> QED BY <1>1, <1>2, <1>3 DEF Gathers, Joins

\* Moving the second of four texts to the first.
Regroups(a, b, c, d) == a \o ((b \o c) \o d) = (a \o b) \o (c \o d)

LEMMA Regrouped ==
    ASSUME NEW a \in Text, NEW b \in Text, NEW c \in Text, NEW d \in Text
    PROVE  Regroups(a, b, c, d)
<1>1. PICK cd \in Text : cd = c \o d
    BY TextConcat
<1>2. (b \o c) \o d = b \o cd
    BY <1>1, Associated
<1>3. a \o (b \o cd) = (a \o b) \o cd
    BY Associated
<1> QED BY <1>1, <1>2, <1>3 DEF Regroups

\* What is seen of o is what is seen of x and then of y.
Splits(o, x, y) == Visible(o) = Visible(x) \o Visible(y)

\* A chunk x of the outbox is posted, and o2 is left of it.
LEMMA BalancePosted ==
    ASSUME NEW p \in Seq(Text), NEW o \in Text, NEW b \in Text, NEW t \in Text,
           NEW x \in Text, NEW o2 \in Text,
           Balance(p, o, b, t), Splits(o, x, o2)
    PROVE  Balance(Append(p, x), o2, b, t)
<1>1. PICK thread \in Text :
          /\ thread = Visible(FlattenSeq(p))
          /\ Visible(FlattenSeq(Append(p, x))) = thread \o Visible(x)
    BY ThreadGrows
<1>2. PICK vx \in Text, vo \in Text, sb \in Text :
          vx = Visible(x) /\ vo = Visible(o2) /\ sb = Shown(b)
    BY TextConcat
<1>3. Regroups(thread, vx, vo, sb)
    BY Regrouped
<1> QED BY <1>1, <1>2, <1>3 DEF Balance, Splits, Regroups

\* A chunk x of the buffer is rendered and posted, and b2 is left of it.
LEMMA BalanceFlushed ==
    ASSUME NEW p \in Seq(Text), NEW b \in Text, NEW t \in Text,
           NEW x \in Text, NEW b2 \in Text,
           Balance(p, <<>>, b, t), Shown(b) = Shown(x) \o Shown(b2)
    PROVE  Balance(Append(p, Rendered(x)), <<>>, b2, t)
<1>1. Rendered(x) \in Text /\ Shown(x) \in Text /\ Shown(b2) \in Text /\ Shown(b) \in Text
    BY TextConcat
<1>2. PICK thread \in Text :
          /\ thread = Visible(FlattenSeq(p))
          /\ Visible(FlattenSeq(Append(p, Rendered(x)))) = thread \o Shown(x)
    BY <1>1, ThreadGrows DEF Shown
<1>3. thread \o (Shown(x) \o Shown(b2)) = (thread \o Shown(x)) \o Shown(b2)
  <2>1. PICK sx \in Text, sb \in Text : sx = Shown(x) /\ sb = Shown(b2)
      BY <1>1
  <2>2. Joins(thread, sx, sb)
      BY TextsJoin, Zenon
  <2> QED BY <2>1, <2>2 DEF Joins
<1>4. <<>> \o Shown(b) = Shown(b) /\ <<>> \o Shown(b2) = Shown(b2)
    BY <1>1, NothingAdded
<1> QED BY <1>2, <1>3, <1>4, NothingShown DEF Balance

\* Text d comes in and waits in the buffer.
LEMMA BalanceBuffered ==
    ASSUME NEW p \in Seq(Text), NEW o \in Text, NEW b \in Text, NEW t \in Text,
           NEW d \in Text, Balance(p, o, b, t)
    PROVE  Balance(p, o, b \o d, t \o d)
<1>1. PICK thread \in Text : thread = Visible(FlattenSeq(p))
    BY ThreadGrows
<1>2. PICK vo \in Text, sb \in Text, sd \in Text :
          vo = Visible(o) /\ sb = Shown(b) /\ sd = Shown(d)
    BY TextConcat
<1>3. Shown(b \o d) = Shown(b) \o Shown(d) /\ Shown(t \o d) = Shown(t) \o Shown(d)
    BY TextConcat
<1>4. thread \o (vo \o (sb \o sd)) = (thread \o (vo \o sb)) \o sd
  <2>1. Gathers(thread, vo, sb, sd)
      BY Gathered
  <2> QED BY <2>1 DEF Gathers
<1> QED BY <1>1, <1>2, <1>3, <1>4 DEF Balance

\* Text d comes in where nothing waits: as o in the outbox, or b in the buffer.
LEMMA BalanceTaken ==
    ASSUME NEW p \in Seq(Text), NEW t \in Text, NEW d \in Text,
           NEW o \in Text, NEW b \in Text,
           Balance(p, <<>>, <<>>, t), Visible(o) \o Shown(b) = Shown(d)
    PROVE  Balance(p, o, b, t \o d)
<1>1. PICK thread \in Text : thread = Visible(FlattenSeq(p))
    BY ThreadGrows
<1>2. Shown(t \o d) = Shown(t) \o Shown(d)
    BY TextConcat
<1>3. <<>> \in Text
    BY TextsTyped
<1>4. thread \o (<<>> \o <<>>) = thread
    BY <1>3, NothingAdded
<1>5. thread = Shown(t)
    BY <1>1, <1>4, NothingShown DEF Balance
<1> QED BY <1>1, <1>2, <1>5 DEF Balance

LEMMA DeliveredStep == Typed /\ Delivered /\ [Next]_vars => Delivered'
<1> SUFFICES ASSUME Typed, Delivered, [Next]_vars PROVE Delivered'
    OBVIOUS
<1> USE DEF Failing, Closing, agent, reporter, statusLine
<1>0. TypeOK /\ Quiet
    BY DEF Typed
<1>a. /\ reply \in Text /\ produced \in Text /\ outbox \in Text /\ buffer \in Text
      /\ published \in Seq(Text) /\ posted \in Seq(Text) /\ <<>> \in Text
    BY <1>0, TextsTyped DEF TypeOK, Text
<1>b. Balance(posted, outbox, buffer, produced)
    BY DEF Delivered
<1>c. UNCHANGED <<posted, outbox, buffer, produced>> => Delivered'
    BY <1>b DEF Delivered
<1>1. CASE Start
    BY <1>1, <1>c DEF Start
<1>2. ASSUME NEW s \in Statuses, Emit(s)
      PROVE  Delivered'
    BY <1>2, <1>c DEF Emit
<1>3. ASSUME NEW e \in edits, DecideEdit(e)
      PROVE  Delivered'
    BY <1>3, <1>c DEF DecideEdit
<1>4. ASSUME NEW e \in edits, EditStatusMessage(e)
      PROVE  Delivered'
    BY <1>4, <1>c DEF EditStatusMessage
<1>5. ASSUME NEW note \in Notes, PublishMessage(note)
      PROVE  Delivered'
  <2>1. Strip(note) \in Text /\ Rendered(Strip(note)) \in Text
      BY NoteRendered
  <2>2. outbox = <<>> /\ buffer = <<>>
      BY <1>0, <1>5 DEF Quiet, PublishMessage
  <2>3. Shown(Strip(note)) \in Text
      BY <2>1, TextConcat
  <2>4. Visible(Rendered(Strip(note))) \o Shown(<<>>) = Shown(Strip(note))
      BY <2>3, NothingShown, NothingAdded DEF Shown
  <2>5. Balance(posted, Rendered(Strip(note)), <<>>, produced \o Strip(note))
      BY <1>a, <1>b, <2>1, <2>2, <2>4, BalanceTaken
  <2> QED BY <1>5, <2>2, <2>5 DEF Delivered, PublishMessage
<1>6. CASE PostChunk
  <2>1. UNCHANGED <<agent, buffer>>
      BY <1>6, PostCases
  <2>2. PICK at \in 1..Len(outbox) :
            /\ Rstrip(Cut(outbox, at)) \in Text
            /\ Visible(Rstrip(Cut(outbox, at))) = Visible(Cut(outbox, at))
            /\ ChunkPosts(at) \/ ChunkFails
      BY <1>6, PostCases
  <2>3. CASE ChunkPosts(at)
    <3>1. After(outbox, at) \in Text
        BY <1>a, AfterCut
    <3>2. Visible(outbox) = Visible(Rstrip(Cut(outbox, at))) \o Visible(After(outbox, at))
        BY <1>a, <2>2, AfterCut
    <3>3. Splits(outbox, Rstrip(Cut(outbox, at)), After(outbox, at))
        BY <3>2 DEF Splits
    <3>4. Balance(Append(posted, Rstrip(Cut(outbox, at))), After(outbox, at), buffer, produced)
        BY <1>a, <1>b, <2>2, <3>1, <3>3, BalancePosted
    <3> QED BY <2>1, <2>3, <3>4 DEF Delivered, ChunkPosts
  <2>4. CASE ChunkFails
      BY <1>c, <2>1, <2>4 DEF ChunkFails
  <2> QED BY <2>2, <2>3, <2>4
<1>7. ASSUME NEW n \in 1..MaxDelta, StreamContent(n)
      PROVE  Delivered'
  <2>1. n \in Nat \ {0} /\ cursor \in Nat /\ cursor + n \in 0..Len(reply)
    <3>1. Len(reply) \in Nat
        BY <1>a, LenProperties DEF Text
    <3> QED BY <1>0, <1>7, <3>1, BoundsAssumption DEF TypeOK, StreamContent
  <2>2. SubSeq(reply, cursor + 1, cursor + n) \in Text
      BY <1>a, <2>1 DEF Text
  <2>3. PICK delta \in Text : delta = SubSeq(reply, cursor + 1, cursor + n)
      BY <2>2
  <2>4. Balance(posted, outbox, buffer \o delta, produced \o delta)
      BY <1>a, <1>b, BalanceBuffered
  <2> QED BY <1>7, <2>3, <2>4 DEF Delivered, StreamContent
<1>8. CASE Retry
    BY <1>8, <1>c DEF Retry
<1>9. CASE PublishTranscript
  <2>1. CASE streaming
      BY <1>9, <2>1, <1>c DEF PublishTranscript
  <2>2. CASE ~ streaming
    <3>1. outbox = <<>> /\ buffer = <<>>
        BY <1>0, <1>9, <2>2 DEF Quiet, PublishTranscript
    <3>2. PICK final \in Text : final = FinalContent(published, reply)
        BY <1>a, FinalShown
    <3>3. PICK body \in Text : body = Strip(reply)
        BY <1>a, Stripped
    <3>4. Shown(final) = Shown(reply) /\ Shown(body) = Shown(reply) /\ Shown(final) \in Text
        BY <1>a, <3>2, <3>3, FinalShown, Stripped, TextConcat
    <3>5. Visible(<<>>) \o Shown(final) = Shown(body)
        BY <3>4, NothingShown, NothingAdded
    <3>6. Balance(posted, <<>>, final, produced \o body)
        BY <1>a, <1>b, <3>1, <3>5, BalanceTaken
    <3> QED BY <1>9, <2>2, <3>1, <3>2, <3>3, <3>6 DEF Delivered, PublishTranscript
  <2> QED BY <2>1, <2>2
<1>10. CASE Flush
  <2>1. pc \in {"flushing", "finishing"} /\ UNCHANGED <<agent, outbox>>
      BY <1>10, FlushCases
  <2>2. (pc = "finishing") \in BOOLEAN
      OBVIOUS
  <2>3. outbox = <<>>
      BY <1>0, <2>1 DEF Quiet
  <2>4. CASE FlushEnds
      BY <1>c, <2>1, <2>4 DEF FlushEnds
  <2>5. ASSUME NEW chunk \in Chunks(buffer, pc = "finishing"), FlushPosts(chunk)
        PROVE  Delivered'
    <3>1. /\ chunk.at \in 1..Len(buffer) /\ chunk.content \in Text
          /\ Shown(chunk.content) = Shown(Cut(buffer, chunk.at))
        BY <1>a, <2>2, ChunkTaken
    <3>2. PICK rest \in Text :
              /\ rest = After(buffer, chunk.at)
              /\ Shown(buffer) = Shown(chunk.content) \o Shown(rest)
        BY <1>a, <3>1, AfterCut
    <3>3. Balance(Append(posted, Rendered(chunk.content)), <<>>, rest, produced)
        BY <1>a, <1>b, <2>3, <3>1, <3>2, BalanceFlushed
    <3> QED BY <2>1, <2>3, <2>5, <3>2, <3>3 DEF Delivered, FlushPosts
  <2>6. ASSUME NEW chunk \in Chunks(buffer, pc = "finishing"), FlushFails(chunk)
        PROVE  Delivered'
      BY <1>c, <2>1, <2>6 DEF FlushFails
  <2> QED BY <1>10, <2>4, <2>5, <2>6, FlushCases
<1>11. CASE DeleteStatusMessage
    BY <1>11, <1>c DEF DeleteStatusMessage
<1>12. CASE PublishError
    BY <1>12, <1>c DEF PublishError
<1>13. CASE AgentFails
    BY <1>13, <1>c DEF AgentFails
<1>14. CASE UNCHANGED vars
    BY <1>14, <1>c DEF vars
<1> QED BY <1>1, <1>2, <1>3, <1>4, <1>5, <1>6, <1>7, <1>8, <1>9, <1>10, <1>11,
           <1>12, <1>13, <1>14 DEF Next

LEMMA DeliveredInit == Init => Delivered
<1> SUFFICES ASSUME Init PROVE Delivered
    OBVIOUS
<1>1. posted = <<>> /\ outbox = <<>> /\ buffer = <<>> /\ produced = <<>>
    BY DEF Init
<1>2. FlattenSeq(<<>>) = <<>> /\ <<>> \in Text
    BY Flattened, TextsTyped
<1>3. <<>> \o (<<>> \o <<>>) = <<>>
    BY <1>2, NothingAdded
<1> QED BY <1>1, <1>2, <1>3, NothingShown DEF Delivered, Balance

\* What the thread, the outbox and the buffer show is what the reporter was given.
THEOREM NothingLost == Spec => []Delivered
BY TypedInit, TypedStep, DeliveredInit, DeliveredStep, PTL DEF Spec

\* The thread shows, in order, a prefix of all text handed to the reporter, and
\* all of it when the turn is done.
THEOREM TextInOrder == Spec => []DeliveredInOrder
<1>1. ASSUME Typed, Delivered
      PROVE  DeliveredInOrder
  <2>1. /\ produced \in Text /\ outbox \in Text /\ buffer \in Text
        /\ posted \in Seq(Text) /\ <<>> \in Text
      BY <1>1, TextsTyped DEF Typed, TypeOK, Text
  <2>2. Due = Shown(produced)
      BY DEF Due, Shown
  <2>3. PICK thread \in Text : thread = Visible(Thread)
      BY <2>1, ThreadGrows DEF Thread
  <2>4. PICK rest \in Text : rest = Visible(outbox) \o Shown(buffer)
      BY <2>1, TextConcat
  <2>5. Due = thread \o rest
      BY <1>1, <2>2, <2>3, <2>4 DEF Delivered, Balance, Thread
  <2>6. IsPrefix(thread, thread \o rest)
      BY Begins DEF Text
  <2>7. ASSUME pc = "done"
        PROVE  thread = Due
    <3>1. outbox = <<>> /\ buffer = <<>>
        BY <1>1, <2>7 DEF Typed, Quiet, Failing
    <3>2. <<>> \o <<>> = <<>> /\ thread \o <<>> = thread
        BY <2>1, NothingAdded
    <3> QED BY <2>4, <2>5, <3>1, <3>2, NothingShown
  <2> QED BY <2>3, <2>5, <2>6, <2>7 DEF DeliveredInOrder
<1> QED BY <1>1, AlwaysTyped, NothingLost, PTL

-----------------------------------------------------------------------------
(* A finished turn has shown its reply.                                    *)

\* The text handed over ends with what the model has streamed in this attempt,
\* and once the transcript is published shows the whole reply last.
EndsWith(text, end) == \E before \in Text : text = before \o end
Answered ==
    /\ EndsWith(produced, Cut(reply, cursor))
    /\ pc \in Closing => EndsWith(Shown(produced), Shown(reply))

LEMMA EndsNothing ==
    ASSUME NEW text \in Text
    PROVE  EndsWith(text, <<>>)
BY NothingAdded DEF EndsWith

LEMMA EndsMore ==
    ASSUME NEW text \in Text, NEW end \in Text, NEW more \in Text, EndsWith(text, end)
    PROVE  EndsWith(text \o more, end \o more)
<1>1. PICK before \in Text : text = before \o end
    BY DEF EndsWith
<1>2. before \o (end \o more) = (before \o end) \o more
    BY Associated
<1> QED BY <1>1, <1>2 DEF EndsWith

LEMMA EndsShown ==
    ASSUME NEW text \in Text, NEW end \in Text, EndsWith(text, end)
    PROVE  EndsWith(Shown(text), Shown(end))
<1>1. PICK before \in Text : text = before \o end
    BY DEF EndsWith
<1>2. Shown(before \o end) = Shown(before) \o Shown(end) /\ Shown(before) \in Text
    BY TextConcat
<1> QED BY <1>1, <1>2 DEF EndsWith

LEMMA EndsAdded ==
    ASSUME NEW text \in Text, NEW end \in Text
    PROVE  EndsWith(text \o end, end)
BY DEF EndsWith

LEMMA AnsweredInit == Init => Answered
<1> SUFFICES ASSUME Init PROVE Answered
    OBVIOUS
<1>1. produced = <<>> /\ cursor = 0 /\ pc = "start"
    BY DEF Init
<1>2. Cut(reply, 0) = <<>>
    BY SubSeqEmpty DEF Cut
<1>3. EndsWith(<<>>, <<>>)
    BY TextsTyped, EndsNothing
<1> QED BY <1>1, <1>2, <1>3 DEF Answered, Closing

LEMMA AnsweredStep == Typed /\ Answered /\ [Next]_vars => Answered'
<1> SUFFICES ASSUME Typed, Answered, [Next]_vars PROVE Answered'
    OBVIOUS
<1> USE DEF Failing, Closing, agent, reporter, statusLine
<1>0. TypeOK /\ Quiet
    BY DEF Typed
<1>a. /\ reply \in Text /\ produced \in Text /\ <<>> \in Text /\ Len(reply) \in Nat
      /\ cursor \in 0..Len(reply)
    BY <1>0, TextsTyped, LenProperties DEF TypeOK, Text
<1>b. Cut(reply, 0) = <<>>
    BY SubSeqEmpty DEF Cut
<1>c. UNCHANGED <<reply, cursor, produced>> /\ (pc' \in Closing => pc \in Closing)
        => Answered'
    BY DEF Answered
<1>1. CASE Start
    BY <1>1, <1>c DEF Start, Raise
<1>2. ASSUME NEW s \in Statuses, Emit(s)
      PROVE  Answered'
    BY <1>2, <1>c DEF Emit
<1>3. ASSUME NEW e \in edits, DecideEdit(e)
      PROVE  Answered'
    BY <1>3, <1>c DEF DecideEdit
<1>4. ASSUME NEW e \in edits, EditStatusMessage(e)
      PROVE  Answered'
    BY <1>4, <1>c DEF EditStatusMessage
<1>5. ASSUME NEW note \in Notes, PublishMessage(note)
      PROVE  Answered'
  <2>1. cursor = 0
      BY <1>0, <1>5 DEF Quiet, PublishMessage
  <2>2. produced \o Strip(note) \in Text
      BY <1>a, NoteRendered, TextConcat
  <2>3. EndsWith(produced \o Strip(note), <<>>)
      BY <2>2, EndsNothing
  <2> QED BY <1>5, <1>b, <2>1, <2>3 DEF Answered, PublishMessage
<1>6. CASE PostChunk
  <2>1. UNCHANGED agent
      BY <1>6, PostCases
  <2>2. pc' \notin Closing
      BY <1>6, PostCases DEF ChunkPosts, ChunkFails, Raise
  <2> QED BY <1>c, <2>1, <2>2
<1>7. ASSUME NEW n \in 1..MaxDelta, StreamContent(n)
      PROVE  Answered'
  <2>1. n \in Nat \ {0} /\ cursor \in Nat /\ cursor + n \in 0..Len(reply)
      BY <1>0, <1>7, <1>a, BoundsAssumption DEF TypeOK, StreamContent
  <2>2. SubSeq(reply, cursor + 1, cursor + n) \in Text
      BY <1>a, <2>1 DEF Text
  <2>3. PICK delta \in Text : delta = SubSeq(reply, cursor + 1, cursor + n)
      BY <2>2
  <2>4. PICK streamed \in Text : streamed = Cut(reply, cursor)
      BY <1>a, CutAt
  <2>5. Cut(reply, cursor + n) = streamed \o delta
    <3>1. /\ 1 \in 1..(Len(reply) + 1) /\ cursor \in (1 - 1)..Len(reply)
          /\ cursor + n \in cursor..Len(reply)
        BY <1>a, <2>1
    <3>2. SubSeq(reply, 1, cursor) \o SubSeq(reply, cursor + 1, cursor + n)
            = SubSeq(reply, 1, cursor + n)
        BY <1>a, <3>1, ConcatAdjacentSubSeq DEF Text
    <3> QED BY <2>3, <2>4, <3>2 DEF Cut
  <2>6. EndsWith(produced, streamed)
      BY <2>4 DEF Answered
  <2>7. EndsWith(produced \o delta, streamed \o delta)
      BY <1>a, <2>6, EndsMore
  <2> QED BY <1>7, <2>3, <2>5, <2>7 DEF Answered, StreamContent
<1>8. CASE Retry
  <2>1. EndsWith(produced, <<>>)
      BY <1>a, EndsNothing
  <2> QED BY <1>8, <1>b, <2>1 DEF Answered, Retry
<1>9. CASE PublishTranscript
  <2>1. CASE streaming
    <3>1. cursor = Len(reply) /\ UNCHANGED <<reply, cursor, produced>>
        BY <1>9, <2>1 DEF PublishTranscript
    <3>2. Cut(reply, cursor) = reply
        BY <1>a, <3>1, SubSeqFull DEF Cut, Text
    <3>3. EndsWith(produced, reply)
        BY <3>2 DEF Answered
    <3>4. EndsWith(Shown(produced), Shown(reply))
        BY <1>a, <3>3, EndsShown
    <3> QED BY <3>1, <3>4 DEF Answered
  <2>2. CASE ~ streaming
    <3>1. cursor = 0
        BY <1>0, <2>2 DEF Quiet
    <3>2. PICK body \in Text : body = Strip(reply) /\ Shown(body) = Shown(reply)
        BY <1>a, Stripped
    <3>3. produced' = produced \o body /\ UNCHANGED <<reply, cursor>>
        BY <1>9, <2>2, <3>2 DEF PublishTranscript
    <3>4. produced \o body \in Text
        BY <1>a, TextConcat
    <3>5. EndsWith(produced \o body, <<>>)
        BY <3>4, EndsNothing
    <3>6. EndsWith(produced \o body, body)
        BY <1>a, EndsAdded
    <3>7. EndsWith(Shown(produced \o body), Shown(reply))
        BY <3>2, <3>4, <3>6, EndsShown
    <3> QED BY <1>b, <3>1, <3>3, <3>5, <3>7 DEF Answered
  <2> QED BY <2>1, <2>2
<1>10. CASE Flush
  <2>1. pc \in {"flushing", "finishing"} /\ UNCHANGED agent
      BY <1>10, FlushCases
  <2>2. CASE FlushEnds
      BY <1>c, <2>1, <2>2 DEF FlushEnds
  <2>3. ASSUME NEW chunk \in Chunks(buffer, pc = "finishing"), FlushPosts(chunk)
        PROVE  Answered'
      BY <1>c, <2>1, <2>3 DEF FlushPosts
  <2>4. ASSUME NEW chunk \in Chunks(buffer, pc = "finishing"), FlushFails(chunk)
        PROVE  Answered'
      BY <1>c, <2>1, <2>4 DEF FlushFails, Raise
  <2> QED BY <1>10, <2>2, <2>3, <2>4, FlushCases
<1>11. CASE DeleteStatusMessage
    BY <1>11, <1>c DEF DeleteStatusMessage
<1>12. CASE PublishError
    BY <1>12, <1>c DEF PublishError
<1>13. CASE AgentFails
    BY <1>13, <1>c DEF AgentFails, Raise
<1>14. CASE UNCHANGED vars
    BY <1>14, <1>c DEF vars
<1> QED BY <1>1, <1>2, <1>3, <1>4, <1>5, <1>6, <1>7, <1>8, <1>9, <1>10, <1>11,
           <1>12, <1>13, <1>14 DEF Next

\* A turn that ends without an error has shown its whole reply last, and leaves
\* no status update behind.
THEOREM RepliesDelivered == Spec => []DoneMeansAnswered
<1>1. Spec => []Answered
    BY TypedInit, TypedStep, AnsweredInit, AnsweredStep, PTL DEF Spec
<1>2. ASSUME Typed, Answered, DeliveredInOrder
      PROVE  DoneMeansAnswered
  <2>1. SUFFICES ASSUME pc = "done"
                 PROVE  /\ IsSuffix(Visible(Rendered(reply)), Visible(Thread))
                        /\ edits = {} /\ cause = "none"
      BY DEF DoneMeansAnswered
  <2>2. edits = {} /\ cause = "none"
      BY <1>2, <2>1 DEF Typed, Quiet, Closing
  <2>3. reply \in Text /\ produced \in Text
      BY <1>2, TextsTyped DEF Typed, TypeOK, Text
  <2>4. PICK answer \in Text : answer = Shown(reply)
      BY <2>3, TextConcat
  <2>5. Visible(Thread) = Shown(produced)
      BY <1>2, <2>1 DEF DeliveredInOrder, Due, Shown
  <2>6. PICK before \in Text : Shown(produced) = before \o answer
      BY <1>2, <2>1, <2>4 DEF Answered, Closing, EndsWith
  <2>7. IsSuffix(answer, before \o answer)
      BY Ends DEF Text
  <2> QED BY <2>2, <2>4, <2>5, <2>6, <2>7 DEF Shown
<1> QED BY <1>1, <1>2, AlwaysTyped, TextInOrder, PTL

-----------------------------------------------------------------------------
(* What Discord may refuse, and what a step may not do.                    *)

\* A chunk without tables is no longer when rendered; so it is refused only
\* where it is white space.
LEMMA Refused ==
    ASSUME NEW text \in Text, NEW final \in BOOLEAN, NEW chunk \in Chunks(text, final),
           ~ Acceptable(Rendered(chunk.content))
    PROVE  \/ "t" \in ToSet(text)
           \/ \A i \in DOMAIN text : i <= Window => text[i] = "s"
<1>0. DOMAIN text = 1..Len(text)
    BY LenProperties DEF Text
<1>1. /\ chunk.content \in Text /\ Len(chunk.content) <= Window
      /\ \A i \in 1..Len(chunk.content) :
            i \in 1..Len(text) /\ chunk.content[i] = text[i]
      /\ Blank(chunk.content) => \A i \in 1..Len(text) : i <= Window => text[i] = "s"
    BY ChunkTaken
<1>2. SUFFICES ASSUME "t" \notin ToSet(text)
               PROVE  \A i \in DOMAIN text : i <= Window => text[i] = "s"
    OBVIOUS
<1>3. \A i \in 1..Len(text) : text[i] # "t"
    BY <1>0, <1>2 DEF ToSet
<1>4. \A i \in 1..Len(chunk.content) : chunk.content[i] # "t"
    BY <1>1, <1>3
<1>5. Rendered(chunk.content) = chunk.content
    BY <1>1, <1>4, PlainRendered
<1>6. Len(chunk.content) \in Nat /\ Window <= Limit /\ Window \in Nat /\ Limit \in Nat
    BY <1>1, LenProperties, BoundsAssumption DEF Text
<1>7. Len(chunk.content) <= Limit
    BY <1>1, <1>6
<1>8. Blank(chunk.content)
    BY <1>5, <1>7 DEF Acceptable
<1> QED BY <1>0, <1>1, <1>8

LEMMA RefusedStep ==
    Typed /\ OnlyTablesAndBlanksRefused /\ [Next]_vars => OnlyTablesAndBlanksRefused'
<1> SUFFICES ASSUME Typed, OnlyTablesAndBlanksRefused, [Next]_vars, cause' = "content"
             PROVE  (\/ "t" \in ToSet(buffer)
                     \/ \A i \in DOMAIN buffer : i <= Window => buffer[i] = "s")'
    BY DEF OnlyTablesAndBlanksRefused
<1> DEFINE Excused(text) == \/ "t" \in ToSet(text)
                            \/ \A i \in DOMAIN text : i <= Window => text[i] = "s"
<1> USE DEF Failing
<1>0. TypeOK /\ Quiet /\ buffer \in Text
    BY DEF Typed, TypeOK, Text
<1>1. cause = "content" => pc \in Failing
    BY <1>0 DEF Quiet
<1>2. CASE Flush
  <2>1. pc \in {"flushing", "finishing"} /\ (pc = "finishing") \in BOOLEAN
      BY <1>2, FlushCases
  <2>2. PICK chunk \in Chunks(buffer, pc = "finishing") : FlushFails(chunk)
      BY <1>1, <1>2, <2>1, FlushCases DEF FlushEnds, FlushPosts
  <2>3. ~ Acceptable(Rendered(chunk.content)) /\ buffer' = buffer
      BY <2>2 DEF FlushFails, Raise
  <2>4. Excused(buffer)
      BY <1>0, <2>1, <2>3, Refused
  <2> QED BY <2>3, <2>4
<1>3. CASE UNCHANGED <<cause, buffer>>
    BY <1>3 DEF OnlyTablesAndBlanksRefused
<1>4. CASE Start
    BY <1>1, <1>4 DEF Start, Raise
<1>5. ASSUME NEW s \in Statuses, Emit(s)
      PROVE  UNCHANGED <<cause, buffer>>
    BY <1>5 DEF Emit, reporter
<1>6. ASSUME NEW e \in edits, DecideEdit(e)
      PROVE  UNCHANGED <<cause, buffer>>
    BY <1>6 DEF DecideEdit, reporter
<1>7. ASSUME NEW e \in edits, EditStatusMessage(e)
      PROVE  UNCHANGED <<cause, buffer>>
    BY <1>7 DEF EditStatusMessage, reporter
<1>8. ASSUME NEW note \in Notes, PublishMessage(note)
      PROVE  FALSE
    BY <1>8 DEF PublishMessage
<1>9. CASE PostChunk
    BY <1>0, <1>1, <1>9, PostCases DEF ChunkPosts, ChunkFails, Raise, Typed
<1>10. ASSUME NEW n \in 1..MaxDelta, StreamContent(n)
       PROVE  FALSE
    BY <1>1, <1>10 DEF StreamContent
<1>11. CASE Retry
    BY <1>11 DEF Retry
<1>12. CASE PublishTranscript
    BY <1>12 DEF PublishTranscript
<1>13. CASE DeleteStatusMessage
    BY <1>1, <1>13 DEF DeleteStatusMessage
<1>14. CASE PublishError
    BY <1>3, <1>14 DEF PublishError, reporter
<1>15. CASE AgentFails
    BY <1>1, <1>15 DEF AgentFails, Raise
<1>16. CASE UNCHANGED vars
    BY <1>3, <1>16 DEF vars, reporter
<1> QED BY <1>2, <1>3, <1>4, <1>5, <1>6, <1>7, <1>8, <1>9, <1>10, <1>11, <1>12,
           <1>13, <1>14, <1>15, <1>16 DEF Next

\* Discord refuses a message for its content only where it holds a table or is
\* white space.
THEOREM RefusalsExplained == Spec => []OnlyTablesAndBlanksRefused
<1>1. Init => OnlyTablesAndBlanksRefused
    BY DEF Init, OnlyTablesAndBlanksRefused
<1> QED BY <1>1, TypedInit, TypedStep, RefusedStep, PTL DEF Spec

\* Once text streams no further edit of the placeholder is sent.
THEOREM StatusYields == Spec => StatusYieldsToText
<1> DEFINE Yields == streaming => {e \in edits' : e.stage = "editing"} \subseteq edits
<1>1. ASSUME [Next]_vars, streaming
      PROVE  {e \in edits' : e.stage = "editing"} \subseteq edits
  <2>1. CASE edits' \subseteq edits
      BY <2>1
  <2>2. ASSUME NEW s \in Statuses, Emit(s)
        PROVE  {e \in edits' : e.stage = "editing"} \subseteq edits
      BY <2>2 DEF Emit
  <2>3. ASSUME NEW e \in edits, DecideEdit(e)
        PROVE  edits' \subseteq edits
      BY <1>1, <2>3 DEF DecideEdit, TextFlows
  <2>4. ASSUME NEW e \in edits, EditStatusMessage(e)
        PROVE  edits' \subseteq edits
      BY <2>4 DEF EditStatusMessage
  <2>5. CASE Start \/ PostChunk \/ Flush \/ AgentFails
      BY <2>1, <2>5 DEF Start, PostChunk, Flush, AgentFails, Raise
  <2>6. CASE Retry \/ PublishTranscript \/ DeleteStatusMessage \/ PublishError
      BY <2>1, <2>6 DEF Retry, PublishTranscript, DeleteStatusMessage, PublishError, statusLine
  <2>7. ASSUME NEW note \in Notes, PublishMessage(note)
        PROVE  edits' \subseteq edits
      BY <2>7 DEF PublishMessage, statusLine
  <2>8. ASSUME NEW n \in 1..MaxDelta, StreamContent(n)
        PROVE  edits' \subseteq edits
      BY <2>8 DEF StreamContent, statusLine
  <2>9. CASE UNCHANGED vars
      BY <2>1, <2>9 DEF vars, statusLine
  <2> QED BY <1>1, <2>1, <2>2, <2>3, <2>4, <2>5, <2>6, <2>7, <2>8, <2>9 DEF Next
<1>2. [Next]_vars => [Yields]_vars
    BY <1>1
<1> QED BY <1>2, PTL DEF Spec, StatusYieldsToText

\* Every round of the flush loop shortens the buffer.
THEOREM FlushEnding == Spec => FlushAdvances
<1> DEFINE Advances == posted' # posted /\ pc \in {"flushing", "finishing"}
                          => Len(buffer') < Len(buffer)
<1>1. ASSUME Typed, [Next]_vars, posted' # posted, pc \in {"flushing", "finishing"}
      PROVE  Len(buffer') < Len(buffer)
  <2>1. Flush
      BY <1>1 DEF Next, vars, Start, Emit, DecideEdit, EditStatusMessage, PublishMessage,
                  PostChunk, StreamContent, Retry, PublishTranscript,
                  DeleteStatusMessage, PublishError, AgentFails
  <2>2. (pc = "finishing") \in BOOLEAN /\ buffer \in Text
      BY <1>1 DEF Typed, TypeOK, Text
  <2>3. PICK chunk \in Chunks(buffer, pc = "finishing") : FlushPosts(chunk)
      BY <1>1, <2>1, FlushCases DEF FlushEnds, FlushFails
  <2>4. chunk.at \in 1..Len(buffer)
      BY <2>2, ChunkTaken
  <2> QED BY <2>2, <2>3, <2>4, AfterCut DEF FlushPosts
<1>2. Typed /\ [Next]_vars => [Advances]_vars
    BY <1>1
<1> QED BY <1>2, AlwaysTyped, PTL DEF Spec, FlushAdvances
=============================================================================
