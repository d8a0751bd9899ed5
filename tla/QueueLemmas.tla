----------------------------- MODULE QueueLemmas -----------------------------
(***************************************************************************)
(* Lemmas that the proofs about the transports share: which messages a     *)
(* queue holds before and after a write or a read, and how many processes  *)
(* are at a given step before and after one of them moves.                 *)
(***************************************************************************)
EXTENDS Integers, Sequences, FiniteSets, FiniteSetTheorems, SequenceTheorems, TLAPS

\* The queue holds x; it holds nothing twice.
In(q, x) == \E i \in 1 .. Len(q) : q[i] = x
Unique(q) == \A i, j \in 1 .. Len(q) : q[i] = q[j] => i = j

\* The empty queue holds nothing.
LEMMA EmptyQueue == /\ \A x : ~In(<<>>, x)
                    /\ Unique(<<>>)
BY DEF In, Unique

\* A write adds its message, at the end, and leaves the head where it is.
LEMMA AppendQueue ==
    ASSUME NEW S, NEW q \in Seq(S), NEW x \in S
    PROVE  /\ Append(q, x) \in Seq(S)
           /\ Append(q, x) # <<>>
           /\ Len(Append(q, x)) = Len(q) + 1
           /\ \A y : In(Append(q, x), y) <=> In(q, y) \/ y = x
           /\ Unique(q) /\ ~In(q, x) => Unique(Append(q, x))
           /\ Head(Append(q, x)) = IF q = <<>> THEN x ELSE Head(q)
<1> DEFINE r == Append(q, x)
<1>1. /\ Len(q) \in Nat
      /\ r \in Seq(S)
      /\ r # <<>>
      /\ Len(r) = Len(q) + 1
      /\ \A i \in 1 .. Len(q) : r[i] = q[i]
      /\ r[Len(q) + 1] = x
  BY AppendProperties, LenProperties
<1> HIDE DEF r
<1>2. 1 .. Len(r) = (1 .. Len(q)) \union {Len(q) + 1}
  BY <1>1
<1>3. ASSUME NEW y PROVE In(r, y) <=> In(q, y) \/ y = x
  BY <1>1, <1>2 DEF In
<1>4. ASSUME Unique(q), ~In(q, x) PROVE Unique(r)
  BY <1>1, <1>2, <1>4 DEF Unique, In
<1>5. Head(r) = IF q = <<>> THEN x ELSE Head(q)
  BY HeadTailAppend DEF r
<1> QED
  BY <1>1, <1>3, <1>4, <1>5 DEF r

\* A read removes the head, and nothing else.
LEMMA TailQueue ==
    ASSUME NEW S, NEW q \in Seq(S), q # <<>>
    PROVE  /\ Head(q) \in S
           /\ In(q, Head(q))
           /\ Tail(q) \in Seq(S)
           /\ Len(q) \in Nat /\ Len(q) > 0
           /\ Len(Tail(q)) = Len(q) - 1
           /\ Unique(q) => /\ Unique(Tail(q))
                           /\ \A y : In(Tail(q), y) <=> In(q, y) /\ y # Head(q)
<1> DEFINE r == Tail(q)
<1>1. /\ Head(q) \in S
      /\ Head(q) = q[1]
      /\ r \in Seq(S)
      /\ Len(r) = Len(q) - 1
      /\ \A i \in 1 .. Len(r) : r[i] = q[i + 1]
      /\ Len(q) \in Nat \ {0}
  BY HeadTailProperties, EmptySeq
<1> HIDE DEF r
<1>2. In(q, Head(q))
  BY <1>1 DEF In
<1>3. ASSUME Unique(q) PROVE Unique(r)
  <2> SUFFICES ASSUME NEW i \in 1 .. Len(r), NEW j \in 1 .. Len(r), r[i] = r[j]
               PROVE  i = j
    BY DEF Unique
  <2>1. i + 1 \in 1 .. Len(q) /\ j + 1 \in 1 .. Len(q) /\ q[i + 1] = q[j + 1]
    BY <1>1
  <2> QED
    BY <1>1, <1>3, <2>1 DEF Unique
<1>4. ASSUME Unique(q), NEW y PROVE In(r, y) <=> In(q, y) /\ y # Head(q)
  <2>1. ASSUME In(r, y) PROVE In(q, y) /\ y # Head(q)
    <3>1. PICK i \in 1 .. Len(r) : r[i] = y
      BY <2>1 DEF In
    <3>2. i + 1 \in 1 .. Len(q) /\ i + 1 # 1 /\ q[i + 1] = y /\ 1 \in 1 .. Len(q)
      BY <1>1, <3>1
    <3> QED
      BY <1>1, <1>4, <3>2 DEF In, Unique
  <2>2. ASSUME In(q, y), y # Head(q) PROVE In(r, y)
    <3>1. PICK i \in 1 .. Len(q) : q[i] = y
      BY <2>2 DEF In
    <3>2. i # 1
      BY <1>1, <2>2, <3>1
    <3>3. i - 1 \in 1 .. Len(r) /\ (i - 1) + 1 = i
      BY <1>1, <3>1, <3>2
    <3>4. r[i - 1] = y
      BY <1>1, <3>1, <3>3
    <3> QED
      BY <3>3, <3>4 DEF In
  <2> QED
    BY <2>1, <2>2
<1> QED
  BY <1>1, <1>2, <1>3, <1>4 DEF r

\* A queue that holds nothing twice is no longer than there are messages.
LEMMA UniqueIsShort ==
    ASSUME NEW S, IsFiniteSet(S), NEW q \in Seq(S), Unique(q)
    PROVE  Len(q) <= Cardinality(S)
<1>1. Len(q) \in Nat /\ q \in [1 .. Len(q) -> S]
  BY LenProperties
<1>2. q \in Injection(1 .. Len(q), S)
  BY <1>1 DEF Unique, Injection, IsInjective
<1>3. Cardinality(1 .. Len(q)) <= Cardinality(S)
  BY <1>2, FS_Injection
<1>4. Cardinality(1 .. Len(q)) = Len(q)
  <2>1. Cardinality(1 .. Len(q)) = IF 1 > Len(q) THEN 0 ELSE Len(q) - 1 + 1
    BY <1>1, FS_Interval
  <2> QED
    BY <1>1, <2>1
<1> QED
  BY <1>3, <1>4

\* Such a queue holds each message once or not at all.
LEMMA UniqueOccurs ==
    ASSUME NEW S, NEW q \in Seq(S), Unique(q), NEW x
    PROVE  Cardinality({i \in 1 .. Len(q) : q[i] = x}) = IF In(q, x) THEN 1 ELSE 0
<1>1. CASE In(q, x)
  <2>1. PICK i \in 1 .. Len(q) : q[i] = x
    BY <1>1 DEF In
  <2>2. {j \in 1 .. Len(q) : q[j] = x} = {i}
    BY <2>1 DEF Unique
  <2> QED
    BY <1>1, <2>2, FS_Singleton
<1>2. CASE ~In(q, x)
  <2>1. {j \in 1 .. Len(q) : q[j] = x} = {}
    BY <1>2 DEF In
  <2> QED
    BY <1>2, <2>1, FS_EmptySet
<1> QED
  BY <1>1, <1>2

-----------------------------------------------------------------------------
\* Queues one behind the other.

\* A write to the last of them.
LEMMA AppendBehind ==
    ASSUME NEW S, NEW q \in Seq(S), NEW r \in Seq(S), NEW x \in S
    PROVE  q \o Append(r, x) = Append(q \o r, x)
<1>1. Append(r, x) = r \o <<x>> /\ Append(q \o r, x) = (q \o r) \o <<x>>
  BY AppendIsConcat, ConcatProperties
<1>2. <<x>> \in Seq(S)
  OBVIOUS
<1> QED
  BY <1>1, <1>2, ConcatAssociative

\* The head of one becomes the end of the one before it.
LEMMA MoveHead ==
    ASSUME NEW S, NEW q \in Seq(S), NEW r \in Seq(S), r # <<>>
    PROVE  Append(q, Head(r)) \o Tail(r) = q \o r
<1> DEFINE a == Append(q, Head(r))
           t == Tail(r)
           l == a \o t
           m == q \o r
<1>1. /\ Head(r) \in S /\ Head(r) = r[1] /\ t \in Seq(S) /\ Len(t) = Len(r) - 1
      /\ \A i \in 1 .. Len(t) : t[i] = r[i + 1]
      /\ Len(r) \in Nat \ {0} /\ Len(q) \in Nat
  BY HeadTailProperties, EmptySeq, LenProperties
<1>2. /\ a \in Seq(S) /\ Len(a) = Len(q) + 1
      /\ \A i \in 1 .. Len(q) : a[i] = q[i]
      /\ a[Len(q) + 1] = r[1]
  BY <1>1, AppendProperties
<1> HIDE DEF a, t
<1>3. /\ l \in Seq(S) /\ Len(l) = Len(a) + Len(t)
      /\ \A i \in 1 .. Len(a) + Len(t) : l[i] = IF i <= Len(a) THEN a[i] ELSE t[i - Len(a)]
  BY <1>1, <1>2, ConcatProperties
<1>4. /\ m \in Seq(S) /\ Len(m) = Len(q) + Len(r)
      /\ \A i \in 1 .. Len(q) + Len(r) : m[i] = IF i <= Len(q) THEN q[i] ELSE r[i - Len(q)]
  BY ConcatProperties
<1> HIDE DEF l, m
<1>5. Len(l) = Len(m)
  BY <1>1, <1>2, <1>3, <1>4
<1>6. ASSUME NEW i \in 1 .. Len(l) PROVE l[i] = m[i]
  <2>1. /\ i \in Int /\ 1 <= i /\ i <= Len(q) + Len(r)
        /\ i \in 1 .. Len(a) + Len(t) /\ i \in 1 .. Len(q) + Len(r)
    BY <1>3, <1>4, <1>5, <1>1, <1>2
  <2>2. CASE i <= Len(q)
    <3>1. i \in 1 .. Len(q) /\ i <= Len(a)
      BY <1>1, <1>2, <2>1, <2>2
    <3>2. l[i] = a[i] /\ m[i] = q[i]
      BY <1>3, <1>4, <2>1, <2>2, <3>1
    <3> QED
      BY <1>2, <3>1, <3>2
  <2>3. CASE i = Len(q) + 1
    <3>1. i <= Len(a) /\ ~(i <= Len(q)) /\ i - Len(q) = 1
      BY <1>1, <1>2, <2>3
    <3>2. l[i] = a[i] /\ m[i] = r[i - Len(q)]
      BY <1>3, <1>4, <2>1, <3>1
    <3> QED
      BY <1>2, <2>3, <3>1, <3>2
  <2>4. CASE i > Len(q) + 1
    <3>1. i - Len(a) \in 1 .. Len(t) /\ (i - Len(a)) + 1 = i - Len(q)
      BY <1>1, <1>2, <2>1, <2>4
    <3>2. t[i - Len(a)] = r[i - Len(q)]
      BY <1>1, <3>1
    <3> QED
      BY <1>1, <1>2, <1>3, <1>4, <2>1, <2>4, <3>2
  <2> QED
    BY <1>1, <2>1, <2>2, <2>3, <2>4
<1> QED
  BY <1>3, <1>4, <1>5, <1>6, SeqEqual DEF a, t, l, m

\* In s, a comes before b.  The messages of q are in the order of s.
Precedes(s, a, b) == \E i, j \in 1 .. Len(s) : i < j /\ s[i] = a /\ s[j] = b
InOrderOf(q, s) == \A i, j \in 1 .. Len(q) : i < j => Precedes(s, q[i], q[j])

\* A message that comes last in both.
LEMMA AppendInOrder ==
    ASSUME NEW S, NEW q \in Seq(S), NEW s \in Seq(S), NEW x \in S,
           InOrderOf(q, s), \A y : In(q, y) => In(s, y)
    PROVE  InOrderOf(Append(q, x), Append(s, x))
<1> DEFINE q2 == Append(q, x)
           s2 == Append(s, x)
<1>1. /\ Len(q) \in Nat /\ Len(q2) = Len(q) + 1
      /\ \A i \in 1 .. Len(q) : q2[i] = q[i]
      /\ q2[Len(q) + 1] = x
  BY AppendProperties, LenProperties
<1>2. /\ Len(s) \in Nat /\ Len(s2) = Len(s) + 1
      /\ \A i \in 1 .. Len(s) : s2[i] = s[i]
      /\ s2[Len(s) + 1] = x
  BY AppendProperties, LenProperties
<1> HIDE DEF q2, s2
<1>3. ASSUME NEW a, NEW b, Precedes(s, a, b) PROVE Precedes(s2, a, b)
  <2>1. PICK i \in 1 .. Len(s), j \in 1 .. Len(s) : i < j /\ s[i] = a /\ s[j] = b
    BY <1>3 DEF Precedes
  <2>2. i \in 1 .. Len(s2) /\ j \in 1 .. Len(s2) /\ s2[i] = a /\ s2[j] = b
    BY <1>2, <2>1
  <2> QED
    BY <2>1, <2>2 DEF Precedes
<1>4. ASSUME NEW a, In(s, a) PROVE Precedes(s2, a, x)
  <2>1. PICK i \in 1 .. Len(s) : s[i] = a
    BY <1>4 DEF In
  <2>2. i \in 1 .. Len(s2) /\ Len(s) + 1 \in 1 .. Len(s2) /\ i < Len(s) + 1 /\ s2[i] = a
    BY <1>2, <2>1
  <2> QED
    BY <1>2, <2>2 DEF Precedes
<1>5. ASSUME NEW i \in 1 .. Len(q2), NEW j \in 1 .. Len(q2), i < j
      PROVE  Precedes(s2, q2[i], q2[j])
  <2>1. i \in 1 .. Len(q) /\ q2[i] = q[i]
    BY <1>1, <1>5
  <2>2. CASE j = Len(q) + 1
    <3>1. In(s, q[i])
      BY <2>1 DEF In
    <3> QED
      BY <1>1, <1>4, <2>1, <2>2, <3>1
  <2>3. CASE j # Len(q) + 1
    <3>1. j \in 1 .. Len(q) /\ q2[j] = q[j]
      BY <1>1, <2>3
    <3>2. Precedes(s, q[i], q[j])
      BY <1>5, <2>1, <3>1 DEF InOrderOf
    <3> QED
      BY <1>3, <2>1, <3>1, <3>2
  <2> QED
    BY <2>2, <2>3
<1> QED
  BY <1>5 DEF InOrderOf, q2, s2

\* A message that is removed from among those that are in order.
LEMMA RemoveInOrder ==
    ASSUME NEW S, NEW q \in Seq(S), NEW r \in Seq(S), NEW x \in S, NEW s \in Seq(S),
           Unique(s), InOrderOf((q \o <<x>>) \o r, s)
    PROVE  /\ InOrderOf(q \o r, s)
           /\ In((q \o <<x>>) \o r, x)
           /\ \A y : In(q \o r, y) <=> In((q \o <<x>>) \o r, y) /\ y # x
<1> DEFINE a == Append(q, x)
           l == a \o r
           m == q \o r
           up(i) == IF i <= Len(q) THEN i ELSE i + 1
<1>1. (q \o <<x>>) \o r = l
  BY AppendIsConcat
<1>2. /\ a \in Seq(S) /\ Len(a) = Len(q) + 1 /\ Len(q) \in Nat /\ Len(r) \in Nat
      /\ \A i \in 1 .. Len(q) : a[i] = q[i]
      /\ a[Len(q) + 1] = x
  BY AppendProperties, LenProperties
<1> HIDE DEF a
<1>3. /\ Len(l) = Len(a) + Len(r)
      /\ \A i \in 1 .. Len(a) + Len(r) : l[i] = IF i <= Len(a) THEN a[i] ELSE r[i - Len(a)]
  BY <1>2, ConcatProperties
<1>4. /\ Len(m) = Len(q) + Len(r)
      /\ \A i \in 1 .. Len(q) + Len(r) : m[i] = IF i <= Len(q) THEN q[i] ELSE r[i - Len(q)]
  BY ConcatProperties
<1> HIDE DEF l, m
<1>5. ASSUME NEW i \in 1 .. Len(m)
      PROVE  up(i) \in 1 .. Len(l) /\ up(i) # Len(q) + 1 /\ l[up(i)] = m[i]
  <2>1. CASE i <= Len(q)
    <3>1. i \in 1 .. Len(q) /\ i \in 1 .. Len(l) /\ i <= Len(a) /\ up(i) = i /\ i # Len(q) + 1
      BY <1>2, <1>3, <1>4, <2>1
    <3>2. l[i] = a[i] /\ m[i] = q[i]
      BY <1>3, <1>4, <2>1, <3>1
    <3> QED
      BY <1>2, <3>1, <3>2
  <2>2. CASE i > Len(q)
    <3>1. /\ (i + 1) - Len(a) = i - Len(q) /\ i + 1 \in 1 .. Len(l)
          /\ i + 1 \in 1 .. Len(a) + Len(r)
          /\ ~(i + 1 <= Len(a)) /\ up(i) = i + 1 /\ i + 1 # Len(q) + 1
      BY <1>2, <1>3, <1>4, <2>2
    <3>2. l[i + 1] = r[i - Len(q)]
      BY <1>3, <3>1
    <3>3. m[i] = r[i - Len(q)]
      BY <1>2, <1>4, <2>2
    <3> QED
      BY <3>1, <3>2, <3>3
  <2> QED
    BY <1>2, <1>4, <2>1, <2>2
<1>6. ASSUME NEW i \in 1 .. Len(l), i # Len(q) + 1
      PROVE  \E j \in 1 .. Len(m) : up(j) = i
  <2>1. CASE i <= Len(q)
    BY <1>2, <1>3, <1>4, <2>1
  <2>2. CASE i > Len(q)
    <3>1. i - 1 \in 1 .. Len(m) /\ up(i - 1) = i
      BY <1>2, <1>3, <1>4, <1>6, <2>2
    <3> QED
      BY <3>1
  <2> QED
    BY <1>2, <1>3, <2>1, <2>2
<1>7. Len(q) + 1 \in 1 .. Len(l) /\ l[Len(q) + 1] = x
  BY <1>2, <1>3
<1>8. ASSUME NEW i \in 1 .. Len(m), NEW j \in 1 .. Len(m), i < j
      PROVE  up(i) < up(j)
  BY <1>2, <1>4, <1>8
<1>9. \A i \in 1 .. Len(l) : i \in Int
  OBVIOUS
<1>10. Len(q) + 1 \in Int
  BY <1>2
<1> HIDE DEF up
<1>11. InOrderOf(l, s)
  BY <1>1
<1>12. InOrderOf(m, s)
  <2> SUFFICES ASSUME NEW i \in 1 .. Len(m), NEW j \in 1 .. Len(m), i < j
               PROVE  Precedes(s, m[i], m[j])
    BY DEF InOrderOf
  <2>1. Precedes(s, l[up(i)], l[up(j)])
    BY <1>5, <1>8, <1>11 DEF InOrderOf
  <2> QED
    BY <1>5, <2>1
<1>13. ASSUME NEW y PROVE ~Precedes(s, y, y)
  <2> SUFFICES ASSUME Precedes(s, y, y) PROVE FALSE
    OBVIOUS
  <2>1. PICK i \in 1 .. Len(s), j \in 1 .. Len(s) : i < j /\ s[i] = y /\ s[j] = y
    BY DEF Precedes
  <2> QED
    BY <2>1 DEF Unique
<1>14. ASSUME NEW i \in 1 .. Len(l), i # Len(q) + 1 PROVE l[i] # x
  <2>1. i < Len(q) + 1 \/ Len(q) + 1 < i
    BY <1>9, <1>10, <1>14
  <2>2. Precedes(s, l[i], x) \/ Precedes(s, x, l[i])
    BY <1>7, <1>11, <2>1 DEF InOrderOf
  <2> QED
    BY <1>13, <2>2
<1>15. ASSUME NEW y PROVE In(m, y) <=> In(l, y) /\ y # x
  <2>1. ASSUME In(m, y) PROVE In(l, y) /\ y # x
    <3>1. PICK i \in 1 .. Len(m) : m[i] = y
      BY <2>1 DEF In
    <3>2. up(i) \in 1 .. Len(l) /\ up(i) # Len(q) + 1 /\ l[up(i)] = y
      BY <1>5, <3>1
    <3> QED
      BY <1>14, <3>2 DEF In
  <2>2. ASSUME In(l, y), y # x PROVE In(m, y)
    <3>1. PICK i \in 1 .. Len(l) : l[i] = y
      BY <2>2 DEF In
    <3>2. PICK j \in 1 .. Len(m) : up(j) = i
      BY <1>6, <1>7, <2>2, <3>1
    <3>3. m[j] = y
      BY <1>5, <3>1, <3>2
    <3> QED
      BY <3>3 DEF In
  <2> QED
    BY <2>1, <2>2
<1>16. In(l, x)
  BY <1>7 DEF In
<1> QED
  BY <1>1, <1>12, <1>15, <1>16 DEF m
-----------------------------------------------------------------------------

\* How many processes of S are at a step of V.
Count(S, f, V) == Cardinality({x \in S : f[x] \in V})

\* Of the processes of S, c alone moves.
OnlyMoves(S, f, g, c) == \A x \in S \ {c} : g[x] = f[x]

\* The number of processes at these steps, when c alone moves.
LEMMA CountMove ==
    ASSUME NEW S, IsFiniteSet(S), NEW f, NEW g, NEW c \in S, NEW V,
           OnlyMoves(S, f, g, c)
    PROVE  /\ Count(S, f, V) \in Nat
           /\ Count(S, g, V) \in Nat
           /\ g[c] \in V /\ f[c] \notin V => Count(S, g, V) = Count(S, f, V) + 1
           /\ g[c] \notin V /\ f[c] \in V => Count(S, g, V) = Count(S, f, V) - 1
           /\ (g[c] \in V <=> f[c] \in V) => Count(S, g, V) = Count(S, f, V)
<1> DEFINE A == {x \in S : f[x] \in V}
           B == {x \in S : g[x] \in V}
<1>1. IsFiniteSet(A) /\ IsFiniteSet(B)
  BY FS_Subset
<1>2. Cardinality(A) \in Nat /\ Cardinality(B) \in Nat
  BY <1>1, FS_CardinalityType
<1>3. B = IF g[c] \in V THEN A \union {c} ELSE A \ {c}
  BY DEF OnlyMoves
<1>4. c \in A <=> f[c] \in V
  OBVIOUS
<1>5. (g[c] \in V <=> f[c] \in V) => B = A
  BY DEF OnlyMoves
<1> HIDE DEF A, B
<1>6. Cardinality(A \union {c}) = IF c \in A THEN Cardinality(A) ELSE Cardinality(A) + 1
  BY <1>1, FS_AddElement
<1>7. Cardinality(A \ {c}) = IF c \in A THEN Cardinality(A) - 1 ELSE Cardinality(A)
  BY <1>1, FS_RemoveElement
<1>8. /\ g[c] \in V /\ f[c] \notin V => Cardinality(B) = Cardinality(A) + 1
      /\ g[c] \notin V /\ f[c] \in V => Cardinality(B) = Cardinality(A) - 1
      /\ (g[c] \in V <=> f[c] \in V) => Cardinality(B) = Cardinality(A)
  BY <1>3, <1>4, <1>5, <1>6, <1>7
<1> QED
  BY <1>2, <1>8 DEF A, B, Count
=============================================================================
