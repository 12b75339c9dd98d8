------------------------ MODULE UnboundedDequeLinProofs ------------------------
(***************************************************************************)
(* The unbounded deque implements the atomic one when it is filled and     *)
(* drained in stages, for any number of threads, any buffers and any       *)
(* workload: elements leave in the order of the ends they were pushed to,  *)
(* and EMPTY is true.                                                      *)
(***************************************************************************)
EXTENDS UnboundedDequeLin, UnboundedDequeChainProofs, SequenceTheorems

USE DAssumption, ValueAssumption

-----------------------------------------------------------------------------
(* Rows: the members of a finite set in the order that L gives them *)

\* The number of members of S that precede p, p included.
Position(S, L, p) == Cardinality({q \in S : <<q, p>> \in L})

\* L orders S totally.
TotalOrder(S, L) ==
  /\ \A p \in S : <<p, p>> \in L
  /\ \A p, q \in S : <<p, q>> \in L \/ <<q, p>> \in L
  /\ \A p, q \in S : <<p, q>> \in L /\ <<q, p>> \in L => p = q
  /\ \A p, q, r \in S : <<p, q>> \in L /\ <<q, r>> \in L => <<p, r>> \in L

LEMMA SmallerSubset ==
  ASSUME NEW S, IsFiniteSet(S), NEW T, T \subseteq S, T # S
  PROVE  Cardinality(T) < Cardinality(S)
<1>1. /\ Cardinality(T) <= Cardinality(S) /\ IsFiniteSet(T)
      /\ Cardinality(S) = Cardinality(T) => S = T
  BY FS_Subset
<1>2. Cardinality(T) \in Nat /\ Cardinality(S) \in Nat
  BY <1>1, FS_CardinalityType
<1>3. QED
  BY <1>1, <1>2, Z3

\* The members of S have different positions, and all of them.
LEMMA Positions ==
  ASSUME NEW S, IsFiniteSet(S), NEW L, TotalOrder(S, L)
  PROVE  /\ Cardinality(S) \in Nat
         /\ \A p \in S : Position(S, L, p) \in 1 .. Cardinality(S)
         /\ \A p, q \in S : Position(S, L, p) = Position(S, L, q) => p = q
         /\ \A n \in 1 .. Cardinality(S) : \E p \in S : Position(S, L, p) = n
<1> DEFINE B(p) == {q \in S : <<q, p>> \in L}
           r == [p \in S |-> Cardinality(B(p))]
<1>1. ASSUME NEW p \in S
      PROVE  IsFiniteSet(B(p)) /\ r[p] \in 1 .. Cardinality(S) /\ Cardinality(B(p)) \in Nat
  <2>1. B(p) \subseteq S /\ p \in B(p)
    BY DEF TotalOrder
  <2>2. IsFiniteSet(B(p)) /\ Cardinality(B(p)) <= Cardinality(S)
    BY <2>1, FS_Subset
  <2>3. Cardinality(B(p)) \in Nat /\ Cardinality(S) \in Nat /\ Cardinality(B(p)) # 0
    BY <2>1, <2>2, FS_CardinalityType, FS_EmptySet
  <2> HIDE DEF B
  <2>4. QED
    BY <2>2, <2>3
<1>2. ASSUME NEW p \in S, NEW q \in S, p # q, <<p, q>> \in L
      PROVE  r[p] < r[q]
  <2>1. B(p) \subseteq B(q) /\ q \in B(q) /\ q \notin B(p)
    BY <1>2 DEF TotalOrder
  <2>2. B(p) \subseteq B(q) /\ B(p) # B(q)
    BY <2>1
  <2>3. Cardinality(B(p)) < Cardinality(B(q))
    <3>1. IsFiniteSet(B(q))
      BY <1>1
    <3>2. QED
      BY <2>2, <3>1, SmallerSubset
  <2>4. QED
    BY <2>3
<1>3. ASSUME NEW p \in S, NEW q \in S, r[p] = r[q]
      PROVE  p = q
  <2> HIDE DEF r
  <2>1. <<p, q>> \in L \/ <<q, p>> \in L
    BY DEF TotalOrder
  <2>2. Cardinality(S) \in Nat
    BY FS_CardinalityType
  <2>3. r[p] \in 1 .. Cardinality(S) /\ r[q] \in 1 .. Cardinality(S)
    BY <1>1
  <2>4. QED
    BY <1>2, <1>3, <2>1, <2>2, <2>3
<1>4. Cardinality(S) \in Nat /\ IsFiniteSet(1 .. Cardinality(S))
      /\ Cardinality(1 .. Cardinality(S)) = Cardinality(S)
  BY FS_CardinalityType, FS_Interval
<1>5. r \in Injection(S, 1 .. Cardinality(S))
  <2>1. r \in [S -> 1 .. Cardinality(S)]
    BY <1>1
  <2> HIDE DEF r
  <2>2. QED
    BY <1>3, <2>1 DEF Injection, IsInjective
<1>6. r \in Surjection(S, 1 .. Cardinality(S))
  <2> HIDE DEF r
  <2>1. QED
    BY <1>4, <1>5, FS_Injection
<1>7. \A p \in S : Position(S, L, p) = r[p]
  BY DEF Position
<1> HIDE DEF r
<1>8. \A n \in 1 .. Cardinality(S) : \E p \in S : r[p] = n
  BY <1>6 DEF Surjection
<1>9. QED
  BY <1>1, <1>3, <1>4, <1>7, <1>8

\* A greatest member comes last, and changes no position.
LEMMA PositionsLast ==
  ASSUME NEW S, IsFiniteSet(S), NEW p, p \notin S, NEW L, NEW M,
         TotalOrder(S \cup {p}, M),
         \A q, u \in S : <<q, u>> \in M <=> <<q, u>> \in L,
         \A q \in S : <<q, p>> \in M
  PROVE  /\ Position(S \cup {p}, M, p) = Cardinality(S) + 1
         /\ \A q \in S : Position(S \cup {p}, M, q) = Position(S, L, q)
<1> DEFINE T == S \cup {p}
           B(q) == {u \in S : <<u, q>> \in L}
           C(q) == {u \in T : <<u, q>> \in M}
<1>1. C(p) = T /\ Cardinality(T) = Cardinality(S) + 1
  BY FS_AddElement DEF TotalOrder
<1>2. ASSUME NEW q \in S
      PROVE  C(q) = B(q)
  <2>1. <<p, q>> \notin M
    BY DEF TotalOrder
  <2>2. QED
    BY <2>1
<1>3. QED
  BY <1>1, <1>2 DEF Position

\* A least member comes first, and the others move up.
LEMMA PositionsFirst ==
  ASSUME NEW S, IsFiniteSet(S), NEW p, p \notin S, NEW L, NEW M,
         TotalOrder(S \cup {p}, M),
         \A q, u \in S : <<q, u>> \in M <=> <<q, u>> \in L,
         \A q \in S : <<p, q>> \in M
  PROVE  /\ Position(S \cup {p}, M, p) = 1
         /\ \A q \in S : Position(S \cup {p}, M, q) = Position(S, L, q) + 1
<1> DEFINE T == S \cup {p}
           B(q) == {u \in S : <<u, q>> \in L}
           C(q) == {u \in T : <<u, q>> \in M}
<1>1. C(p) = {p}
  BY DEF TotalOrder
<1>2. ASSUME NEW q \in S
      PROVE  Cardinality(C(q)) = Cardinality(B(q)) + 1
  <2>1. C(q) = B(q) \cup {p} /\ p \notin B(q)
    OBVIOUS
  <2>2. IsFiniteSet(B(q))
    BY FS_Subset
  <2>3. QED
    BY <2>1, <2>2, FS_AddElement
<1>3. Cardinality(C(p)) = 1
  BY <1>1, FS_Singleton
<1>4. QED
  BY <1>2, <1>3 DEF Position

\* The sequence s lists what f assigns to the members of S, in the order L.
Lists(s, V, S, L, f) ==
  /\ s \in Seq(V) /\ Len(s) = Cardinality(S)
  /\ \A p \in S : s[Position(S, L, p)] = f[p]

\* One member more, at the end of the row.
LEMMA ListsLast ==
  ASSUME NEW V, NEW S, IsFiniteSet(S), NEW p, p \notin S, NEW L, NEW M,
         TotalOrder(S, L), TotalOrder(S \cup {p}, M),
         \A q, u \in S : <<q, u>> \in M <=> <<q, u>> \in L,
         NEW f, NEW g, \A q \in S : g[q] = f[q],
         NEW s, NEW s2, Lists(s, V, S, L, f), Lists(s2, V, S \cup {p}, M, g),
         \A q \in S : <<q, p>> \in M
  PROVE  s2 = Append(s, g[p])
<1> DEFINE T == S \cup {p}
           n == Cardinality(S)
<1>1. n \in Nat /\ IsFiniteSet(T) /\ Cardinality(T) = n + 1
  BY FS_AddElement, FS_CardinalityType
<1>2. /\ s \in Seq(V) /\ s2 \in Seq(V) /\ Len(s) = n /\ Len(s2) = n + 1
      /\ \A q \in S : s[Position(S, L, q)] = f[q] /\ s2[Position(T, M, q)] = f[q]
      /\ s2[Position(T, M, p)] = g[p]
  BY <1>1 DEF Lists
<1>3. s2[Position(T, M, p)] \in V
  <2>1. Position(T, M, p) \in 1 .. n + 1
    BY <1>1, Positions
  <2>2. QED
    BY <1>1, <1>2, <2>1
<1>4. \A i \in 1 .. n : \E q \in S : Position(S, L, q) = i
  BY <1>1, Positions
<1> HIDE DEF T
<1>5. s2 = Append(s, g[p])
  <2>1. /\ Position(T, M, p) = n + 1
        /\ \A q \in S : Position(T, M, q) = Position(S, L, q)
    BY PositionsLast DEF T
  <2>2. s2[n + 1] = g[p]
    BY <1>2, <2>1
  <2>3. ASSUME NEW i \in 1 .. n
        PROVE  s2[i] = s[i]
    <3>1. PICK q \in S : Position(S, L, q) = i
      BY <1>4
    <3>2. QED
      BY <1>2, <2>1, <3>1
  <2>4. /\ Append(s, g[p]) \in Seq(V) /\ Len(Append(s, g[p])) = n + 1
        /\ Append(s, g[p])[n + 1] = g[p] /\ \A i \in 1 .. n : Append(s, g[p])[i] = s[i]
    BY <1>1, <1>2, <1>3, AppendProperties
  <2>5. \A i \in 1 .. n + 1 : s2[i] = Append(s, g[p])[i]
    BY <1>1, <2>2, <2>3, <2>4
  <2>6. QED
    BY <1>2, <2>4, <2>5, SeqEqual
<1>6. QED
  BY <1>5

\* One member more, in front of the row.
LEMMA ListsFirst ==
  ASSUME NEW V, NEW S, IsFiniteSet(S), NEW p, p \notin S, NEW L, NEW M,
         TotalOrder(S, L), TotalOrder(S \cup {p}, M),
         \A q, u \in S : <<q, u>> \in M <=> <<q, u>> \in L,
         NEW f, NEW g, \A q \in S : g[q] = f[q],
         NEW s, NEW s2, Lists(s, V, S, L, f), Lists(s2, V, S \cup {p}, M, g),
         \A q \in S : <<p, q>> \in M
  PROVE  s2 = <<g[p]>> \o s
<1> DEFINE T == S \cup {p}
           n == Cardinality(S)
<1>1. n \in Nat /\ IsFiniteSet(T) /\ Cardinality(T) = n + 1
  BY FS_AddElement, FS_CardinalityType
<1>2. /\ s \in Seq(V) /\ s2 \in Seq(V) /\ Len(s) = n /\ Len(s2) = n + 1
      /\ \A q \in S : s[Position(S, L, q)] = f[q] /\ s2[Position(T, M, q)] = f[q]
      /\ s2[Position(T, M, p)] = g[p]
  BY <1>1 DEF Lists
<1>3. s2[Position(T, M, p)] \in V
  <2>1. Position(T, M, p) \in 1 .. n + 1
    BY <1>1, Positions
  <2>2. QED
    BY <1>1, <1>2, <2>1
<1>4. \A i \in 1 .. n : \E q \in S : Position(S, L, q) = i
  BY <1>1, Positions
<1> HIDE DEF T
<1>5. s2 = <<g[p]>> \o s
  <2> DEFINE c == <<g[p]>> \o s
  <2>1. /\ Position(T, M, p) = 1
        /\ \A q \in S : Position(T, M, q) = Position(S, L, q) + 1
    BY PositionsFirst DEF T
  <2>2. s2[1] = g[p] /\ \A i \in 1 .. n : s2[i + 1] = s[i]
    <3>1. ASSUME NEW i \in 1 .. n
          PROVE  s2[i + 1] = s[i]
      <4>1. PICK q \in S : Position(S, L, q) = i
        BY <1>4
      <4>2. QED
        BY <1>2, <2>1, <4>1
    <3>2. QED
      BY <1>2, <2>1, <3>1
  <2>3. c \in Seq(V) /\ Len(c) = n + 1 /\ c[1] = g[p] /\ \A i \in 1 .. n : c[i + 1] = s[i]
    <3>1. g[p] \in V /\ <<g[p]>> \in Seq(V) /\ Len(<<g[p]>>) = 1 /\ <<g[p]>>[1] = g[p]
      BY <1>2, <1>3
    <3>2. /\ c \in Seq(V) /\ Len(c) = 1 + n
          /\ \A i \in 1 .. 1 + n : c[i] = IF i <= 1 THEN <<g[p]>>[i] ELSE s[i - 1]
      BY <1>2, <3>1, ConcatProperties
    <3>3. QED
      BY <1>1, <3>1, <3>2
  <2> HIDE DEF c
  <2>4. \A i \in 1 .. n + 1 : s2[i] = c[i]
    <3>1. ASSUME NEW i \in 1 .. n + 1
          PROVE  s2[i] = c[i]
      <4>1. CASE i = 1
        BY <2>2, <2>3, <4>1
      <4>2. CASE i # 1
        <5>1. i - 1 \in 1 .. n /\ (i - 1) + 1 = i
          BY <1>1, <4>2
        <5>2. QED
          BY <2>2, <2>3, <5>1
      <4>3. QED
        BY <4>1, <4>2
    <3>2. QED
      BY <3>1
  <2>5. QED
    BY <1>2, <2>3, <2>4, SeqEqual DEF c
<1>6. QED
  BY <1>5

\* What is left of a row that has lost its last or its first member.
LEMMA RowLess ==
  ASSUME NEW V, NEW s \in Seq(V), NEW s2 \in Seq(V), NEW v \in V
  PROVE  /\ s = Append(s2, v) =>
              s # <<>> /\ s2 = SubSeq(s, 1, Len(s) - 1) /\ v = s[Len(s)]
         /\ s = <<v>> \o s2 => s # <<>> /\ s2 = Tail(s) /\ v = s[1]
<1>1. ASSUME s = Append(s2, v)
      PROVE  s # <<>> /\ s2 = SubSeq(s, 1, Len(s) - 1) /\ v = s[Len(s)]
  <2>1. /\ Len(s2) \in Nat /\ Len(s) = Len(s2) + 1 /\ s[Len(s2) + 1] = v
        /\ \A i \in 1 .. Len(s2) : s[i] = s2[i]
    BY <1>1, AppendProperties
  <2>2. QED
    BY <2>1
<1>2. ASSUME s = <<v>> \o s2
      PROVE  s # <<>> /\ s2 = Tail(s) /\ v = s[1]
  BY <1>2
<1>3. QED
  BY <1>1, <1>2

-----------------------------------------------------------------------------
(* The order of the buffers *)

\* Where the chain ends, no other buffer is reached.
LEMMA ReachedOnly ==
  ASSUME NEW b \in Buffers, NEW e \in End, Link(b, e) \notin Buffers
  PROVE  Reached(b, e) = {b}
<1>1. Reached(b, e) \subseteq {b}
  <2>1. {b} \in SUBSET Buffers /\ \A x \in {b} : Link(x, e) \notin Buffers
    OBVIOUS
  <2>2. QED
    BY <2>1, ReachedIn
<1>2. QED
  BY <1>1, ReachedStart

\* What else is reached is reached by way of the neighbour.
LEMMA ReachedFrom ==
  ASSUME NEW b \in Buffers, NEW e \in End, NEW c \in Reached(b, e), c # b
  PROVE  Link(b, e) \in Buffers /\ c \in Reached(Link(b, e), e)
<1>1. Link(b, e) \in Buffers
  BY ReachedOnly
<1> DEFINE S == {b} \cup Reached(Link(b, e), e)
<1>2. Reached(Link(b, e), e) \in SUBSET Buffers
  BY DEF Reached
<1>3. S \in SUBSET Buffers /\ b \in S
  BY <1>2
<1>4. ASSUME NEW x \in S, Link(x, e) \in Buffers
      PROVE  Link(x, e) \in S
  BY <1>1, <1>2, <1>4, ReachedStart, ReachedStep
<1> HIDE DEF S
<1>5. Reached(b, e) \subseteq S
  BY <1>3, <1>4, ReachedIn
<1>6. QED
  BY <1>1, <1>5 DEF S

\* Links lead back the way they came.
LEMMA ReachedBack ==
  ASSUME MemInv, InvLinks, NEW e \in End, NEW b \in Attached, NEW c \in Reached(b, e)
  PROVE  c \in Attached /\ b \in Reached(c, Opposite(e))
<1> DEFINE f == Opposite(e)
           S == {x \in Attached : b \in Reached(x, f)}
<1>1. Attached \subseteq Buffers /\ f \in End /\ Opposite(f) = e
  BY AttachedFacts, Opposites
<1>2. S \in SUBSET Buffers /\ b \in S
  BY <1>1, ReachedStart
<1>3. ASSUME NEW x \in S, Link(x, e) \in Buffers
      PROVE  Link(x, e) \in S
  <2>1. Link(x, e) \in Attached /\ Link(Link(x, e), f) = x
    BY <1>3 DEF InvLinks, Linked
  <2>2. x \in Reached(Link(x, e), f)
    BY <1>1, <1>3, <2>1, ReachedStart, ReachedStep
  <2>3. Reached(x, f) \subseteq Reached(Link(x, e), f)
    BY <1>1, <1>3, <2>2, ReachedOn
  <2>4. QED
    BY <2>1, <2>3
<1> HIDE DEF S
<1>4. Reached(b, e) \subseteq S
  BY <1>2, <1>3, ReachedIn
<1>5. QED
  BY <1>4 DEF S

\* The chain has no cycle.
LEMMA ReachedOnce ==
  ASSUME MemInv, InvLinks, NEW e \in End, NEW b \in Attached, NEW c \in Attached,
         c \in Reached(b, e), b \in Reached(c, e)
  PROVE  b = c
<1> SUFFICES ASSUME b # c PROVE FALSE
  OBVIOUS
<1> DEFINE S == {x \in Reached(b, e) : b \in Reached(x, e)}
<1>1. /\ Attached \subseteq Buffers /\ Opposite(e) \in End /\ Opposite(Opposite(e)) = e
      /\ End = {e, Opposite(e)}
  BY AttachedFacts, Opposites
<1>2. S \in SUBSET Buffers /\ b \in S
  BY <1>1, ReachedStart DEF Reached
<1>3. ASSUME NEW x \in S
      PROVE  Link(x, e) \in S
  <2>1. /\ x \in Buffers /\ x \in Reached(b, e) /\ b \in Reached(x, e)
        /\ Reached(x, e) \subseteq Reached(b, e)
    BY <1>1, <1>2, ReachedOn
  <2>2. PICK y \in Reached(x, e) : y # x /\ b \in Reached(y, e)
    <3>1. CASE x = b
      BY <3>1
    <3>2. CASE x # b
      BY <1>1, <2>1, <3>2, ReachedStart
    <3>3. QED
      BY <3>1, <3>2
  <2>3. Link(x, e) \in Buffers /\ y \in Reached(Link(x, e), e)
    BY <2>1, <2>2, ReachedFrom
  <2>4. Reached(y, e) \subseteq Reached(Link(x, e), e)
    BY <2>3, ReachedOn
  <2>5. Link(x, e) \in Reached(b, e)
    BY <1>1, <2>1, <2>3, ReachedStep
  <2>6. QED
    BY <2>2, <2>4, <2>5
<1>4. PICK l \in Attached : Link(l, e) = Own(e)
  BY DEF InvLinks
<1>5. Own(e) \notin Buffers
  BY NullFacts
<1>6. l \in Reached(b, e)
  <2>1. l \in Reached(b, e) \/ l \in Reached(b, Opposite(e))
    BY <1>1 DEF InvLinks, End
  <2>2. CASE l \in Reached(b, Opposite(e))
    <3>1. b \in Reached(l, e)
      BY <1>1, <2>2, ReachedBack
    <3>2. b = l
      BY <1>1, <1>4, <1>5, <3>1, ReachedOnly
    <3>3. QED
      BY <1>1, <3>2, ReachedStart
  <2>3. QED
    BY <2>1, <2>2
<1>7. Reached(b, e) \subseteq S
  <2> HIDE DEF S
  <2>1. QED
    BY <1>2, <1>3, ReachedIn
<1>8. QED
  BY <1>2, <1>3, <1>4, <1>5, <1>6, <1>7

\* Of two buffers one is to the left of the other.
LEMMA Apart ==
  ASSUME MemInv, InvLinks, NEW b \in Attached, NEW c \in Attached
  PROVE  /\ c \in Reached(b, LEFT) \/ b \in Reached(c, LEFT)
         /\ \A e \in End : b # c /\ c \in Reached(b, e) => c \notin Reached(b, Opposite(e))
<1>1. /\ Opposite(RIGHT) = LEFT /\ LEFT \in End /\ RIGHT \in End
  BY DEF Opposite, LEFT, RIGHT, End
<1>2. c \in Reached(b, LEFT) \/ b \in Reached(c, LEFT)
  BY <1>1, ReachedBack DEF InvLinks
<1>3. ASSUME NEW e \in End, b # c, c \in Reached(b, e), c \in Reached(b, Opposite(e))
      PROVE  FALSE
  <2>1. Opposite(e) \in End /\ Opposite(Opposite(e)) = e
    BY Opposites
  <2>2. b \in Reached(c, e)
    BY <1>3, <2>1, ReachedBack
  <2>3. QED
    BY <1>3, <2>2, ReachedOnce
<1>4. QED
  BY <1>2, <1>3

-----------------------------------------------------------------------------
(* The row of elements *)

RowOrder == {w \in Held \X Held : UpTo(w[1], w[2])}
Contents == [p \in Held |-> NodeAt(p).value]

LEMMA UpToMeans ==
  ASSUME NEW p \in Held, NEW q \in Held
  PROVE  <<p, q>> \in RowOrder <=> UpTo(p, q)
BY DEF RowOrder

LEMMA OrderTotal == MemInv /\ InvLinks => TotalOrder(Held, RowOrder)
<1> SUFFICES ASSUME MemInv, InvLinks PROVE TotalOrder(Held, RowOrder)
  OBVIOUS
<1>1. \A p \in Held : p.buf \in Attached /\ p.idx \in Int /\ p.buf \in Buffers
                      /\ p = [buf |-> p.buf, idx |-> p.idx]
  BY AttachedFacts DEF Held, Inner
<1>2. LEFT \in End
  BY DEF End
<1>3. ASSUME NEW p \in Held, NEW q \in Held
      PROVE  UpTo(p, q) \/ UpTo(q, p)
  <2>1. q.buf \in Reached(p.buf, LEFT) \/ p.buf \in Reached(q.buf, LEFT)
    BY <1>1, Apart
  <2>2. QED
    BY <1>1, <2>1 DEF UpTo
<1>4. ASSUME NEW p \in Held, NEW q \in Held, UpTo(p, q), UpTo(q, p)
      PROVE  p = q
  <2>1. p.buf = q.buf
    BY <1>1, <1>2, <1>4, ReachedOnce DEF UpTo
  <2>2. p.idx = q.idx
    BY <1>1, <1>4, <2>1 DEF UpTo
  <2>3. QED
    BY <1>1, <2>1, <2>2
<1>5. ASSUME NEW p \in Held, NEW q \in Held, NEW r \in Held, UpTo(p, q), UpTo(q, r)
      PROVE  UpTo(p, r)
  <2>1. CASE p.buf = q.buf \/ q.buf = r.buf
    BY <1>1, <1>5, <2>1 DEF UpTo
  <2>2. CASE p.buf # q.buf /\ q.buf # r.buf
    <3>1. p.buf \in Reached(q.buf, LEFT) /\ q.buf \in Reached(r.buf, LEFT)
      BY <1>5, <2>2 DEF UpTo
    <3>2. p.buf \in Reached(r.buf, LEFT)
      BY <1>1, <1>2, <3>1, ReachedOn
    <3>3. p.buf # r.buf
      BY <1>1, <1>2, <2>2, <3>1, ReachedOnce
    <3>4. QED
      BY <3>2, <3>3 DEF UpTo
  <2>3. QED
    BY <2>1, <2>2
<1>6. \A p \in Held : UpTo(p, p)
  BY <1>1 DEF UpTo
<1>7. QED
  <2> HIDE DEF Held, UpTo
  <2>1. QED
    BY <1>3, <1>4, <1>5, <1>6, UpToMeans DEF TotalOrder

\* items lists the elements of the places that hold one.
LEMMA ItemsListed ==
  MemInv /\ InvLinks /\ InvHints /\ InvFinite =>
    /\ Lists(items, Elts, Held, RowOrder, Contents)
    /\ IsFiniteSet(Held)
<1> SUFFICES ASSUME MemInv, InvLinks, InvHints, InvFinite
             PROVE  /\ Lists(items, Elts, Held, RowOrder, Contents)
                    /\ IsFiniteSet(Held)
  OBVIOUS
<1>1. Stored = Held /\ IsFiniteSet(Held)
  <2>1. Chain = Attached
    BY ChainAttached
  <2>2. QED
    BY <2>1 DEF Stored, Held, InvFinite
<1>2. \A p \in Held : Rank(Held, p) = Position(Held, RowOrder, p)
  <2>1. ASSUME NEW p \in Held
        PROVE  {q \in Held : UpTo(q, p)} = {q \in Held : <<q, p>> \in RowOrder}
    BY UpToMeans
  <2>2. QED
    BY <2>1 DEF Rank, Position
<1>3. /\ Cardinality(Held) \in Nat
      /\ \A p \in Held : Rank(Held, p) \in 1 .. Cardinality(Held)
      /\ \A p, q \in Held : Rank(Held, p) = Rank(Held, q) => p = q
      /\ \A n \in 1 .. Cardinality(Held) : \E p \in Held : Rank(Held, p) = n
  BY <1>1, <1>2, OrderTotal, Positions
<1> DEFINE nth(n) == CHOOSE p \in Held : Rank(Held, p) = n
<1>4. items = [n \in 1 .. Cardinality(Held) |-> NodeAt(nth(n)).value]
  <2>1. Held \in SUBSET [buf : Buffers, idx : Inner]
    BY AttachedFacts DEF Held
  <2>2. QED
    BY <1>1, <2>1 DEF items, Row
<1>5. ASSUME NEW n \in 1 .. Cardinality(Held)
      PROVE  nth(n) \in Held /\ Rank(Held, nth(n)) = n
  <2>1. \E p \in Held : Rank(Held, p) = n
    BY <1>3
  <2>2. QED
    BY <2>1
<1> HIDE DEF nth
<1>6. \A p \in Held : nth(Rank(Held, p)) = p
  BY <1>3, <1>5
<1>7. \A p \in Held : NodeAt(p).value \in Elts
  BY DEF Held
<1>8. items \in Seq(Elts) /\ Len(items) = Cardinality(Held)
  BY <1>3, <1>4, <1>5, <1>7
<1>9. \A p \in Held : items[Rank(Held, p)] = NodeAt(p).value
  BY <1>3, <1>4, <1>6
<1>10. QED
  BY <1>1, <1>2, <1>8, <1>9 DEF Lists, Contents

LEMMA ListedLater ==
  MemInv' /\ InvLinks' /\ InvHints' /\ InvFinite' =>
    /\ Lists(items', Elts, Held', RowOrder', Contents')
    /\ IsFiniteSet(Held')
    /\ TotalOrder(Held', RowOrder')
<1>1. (MemInv /\ InvLinks /\ InvHints /\ InvFinite =>
         /\ Lists(items, Elts, Held, RowOrder, Contents)
         /\ IsFiniteSet(Held)
         /\ TotalOrder(Held, RowOrder))'
  BY ItemsListed, OrderTotal, PTL
<1>2. QED
  BY <1>1 DEF Lists, TotalOrder, Position

-----------------------------------------------------------------------------
(* How a step changes the row *)

\* What the row of elements rests on.
Sound == MemInv /\ InvLinks /\ InvHints /\ InvFinite

\* No buffer leaves the chain, and no link in it changes.
LinksStay ==
  /\ Attached \subseteq Attached'
  /\ \A b \in Attached, e \in End : Link(b, e) \in Buffers => Link(b, e)' = Link(b, e)

LEMMA OnceLater ==
  MemInv' /\ InvLinks' =>
    \A e \in End : \A b, c \in Attached' : c \in Reached(b, e)' /\ b \in Reached(c, e)' => b = c
<1>1. MemInv /\ InvLinks =>
        \A e \in End : \A b, c \in Attached : c \in Reached(b, e) /\ b \in Reached(c, e) => b = c
  BY ReachedOnce
<1>2. (MemInv /\ InvLinks =>
        \A e \in End : \A b, c \in Attached : c \in Reached(b, e) /\ b \in Reached(c, e) => b = c)'
  BY <1>1, PTL
<1>3. QED
  BY <1>2

\* The buffers of the chain keep their order.
LEMMA ReachedKept ==
  ASSUME MemInv, InvLinks, MemInv', InvLinks', LinksStay, NEW b \in Attached, NEW c \in Attached
  PROVE  c \in Reached(b, LEFT)' <=> c \in Reached(b, LEFT)
<1>1. LEFT \in End /\ Attached \in SUBSET Buffers /\ b \in Attached' /\ c \in Attached'
  BY AttachedFacts DEF End, LinksStay
<1>2. \A x \in Attached, e \in End : Link(x, e) \in Buffers =>
        Link(x, e) \in Attached /\ Link(x, e)' = Link(x, e)
  BY DEF InvLinks, LinksStay
<1>3. /\ Reached(b, LEFT) \subseteq Reached(b, LEFT)'
      /\ Reached(c, LEFT) \subseteq Reached(c, LEFT)'
  BY <1>1, <1>2, ReachedGrows
<1>4. ASSUME c \in Reached(b, LEFT)', c \notin Reached(b, LEFT)
      PROVE  FALSE
  <2>1. b \in Reached(c, LEFT)'
    BY <1>3, <1>4, Apart
  <2>2. b = c
    BY <1>1, <1>4, <2>1, OnceLater
  <2>3. QED
    BY <1>1, <1>4, <2>2, ReachedStart
<1>5. QED
  BY <1>3, <1>4

LEMMA OrderKept ==
  ASSUME MemInv, InvLinks, MemInv', InvLinks', LinksStay,
         NEW p, p.buf \in Attached, NEW q, q.buf \in Attached
  PROVE  UpTo(p, q)' <=> UpTo(p, q)
BY ReachedKept DEF UpTo

\* A row is all there is to know of a sequence that lists it.
LEMMA ListsOnce ==
  ASSUME NEW V, NEW S, IsFiniteSet(S), NEW L, TotalOrder(S, L), NEW f,
         NEW s, NEW s2, Lists(s, V, S, L, f), Lists(s2, V, S, L, f)
  PROVE  s = s2
<1>1. \A i \in 1 .. Cardinality(S) : \E q \in S : Position(S, L, q) = i
  BY Positions
<1>2. \A i \in 1 .. Cardinality(S) : s[i] = s2[i]
  BY <1>1 DEF Lists
<1>3. QED
  BY <1>2, SeqEqual DEF Lists

LEMMA RowKept ==
  ASSUME Sound, Sound', LinksStay, Held' = Held,
         \A p \in Held : mem'[p.buf][p.idx].value = NodeAt(p).value
  PROVE  items' = items
<1>1. RowOrder' = RowOrder
  <2>1. \A w \in Held \X Held : UpTo(w[1], w[2])' <=> UpTo(w[1], w[2])
    BY OrderKept DEF Sound, Held
  <2>2. QED
    BY <2>1 DEF RowOrder
<1>2. Contents' = Contents
  BY DEF Contents, NodeAt
<1>3. /\ Lists(items, Elts, Held, RowOrder, Contents) /\ IsFiniteSet(Held)
      /\ Lists(items', Elts, Held, RowOrder, Contents) /\ TotalOrder(Held, RowOrder)
  BY <1>1, <1>2, ItemsListed, ListedLater, OrderTotal DEF Sound
<1>4. QED
  BY <1>3, ListsOnce

\* Place q lies inwards of place p, as seen from end e.
Inside(e, q, p) == IF e = LEFT THEN UpTo(p, q) ELSE UpTo(q, p)

\* An element is put outside all the others.
LEMMA RowPush ==
  ASSUME Sound, Sound', LinksStay, NEW e \in End, NEW p, p \notin Held,
         Held' = Held \cup {p},
         \A q \in Held : mem'[q.buf][q.idx].value = NodeAt(q).value,
         \A q \in Held : Inside(e, q, p)',
         NEW v, v = mem'[p.buf][p.idx].value
  PROVE  items' = IF e = LEFT THEN <<v>> \o items ELSE Append(items, v)
<1>1. /\ Lists(items, Elts, Held, RowOrder, Contents) /\ TotalOrder(Held, RowOrder)
      /\ Lists(items', Elts, Held \cup {p}, RowOrder', Contents')
      /\ TotalOrder(Held \cup {p}, RowOrder') /\ IsFiniteSet(Held)
  BY ItemsListed, ListedLater, OrderTotal DEF Sound
<1>2. \A q, u \in Held' : <<q, u>> \in RowOrder' <=> UpTo(q, u)'
  BY DEF RowOrder
<1>3. \A q, u \in Held : <<q, u>> \in RowOrder' <=> <<q, u>> \in RowOrder
  <2>1. ASSUME NEW q \in Held, NEW u \in Held
        PROVE  <<q, u>> \in RowOrder' <=> <<q, u>> \in RowOrder
    <3>1. UpTo(q, u)' <=> UpTo(q, u)
      BY OrderKept DEF Sound, Held
    <3>2. QED
      BY <1>2, <3>1, UpToMeans
  <2>2. QED
    BY <2>1
<1>4. \A q \in Held : Contents'[q] = Contents[q]
  BY DEF Contents, NodeAt
<1>5. Contents'[p] = v
  BY DEF Contents, NodeAt
<1>6. CASE e = LEFT
  <2>1. \A q \in Held : <<p, q>> \in RowOrder'
    BY <1>2, <1>6 DEF Inside
  <2>2. QED
    BY <1>1, <1>3, <1>4, <1>5, <1>6, <2>1, ListsFirst
<1>7. CASE e # LEFT
  <2>1. \A q \in Held : <<q, p>> \in RowOrder'
    BY <1>2, <1>7 DEF Inside
  <2>2. QED
    BY <1>1, <1>3, <1>4, <1>5, <1>7, <2>1, ListsLast
<1>8. QED
  BY <1>6, <1>7

\* The outermost element is taken.
LEMMA RowPop ==
  ASSUME Sound, Sound', LinksStay, NEW e \in End, NEW p \in Held, Held' = Held \ {p},
         \A q \in Held' : mem'[q.buf][q.idx].value = NodeAt(q).value,
         \A q \in Held : Inside(e, q, p)
  PROVE  /\ items # <<>>
         /\ items' = IF e = LEFT THEN Tail(items) ELSE SubSeq(items, 1, Len(items) - 1)
         /\ NodeAt(p).value = IF e = LEFT THEN items[1] ELSE items[Len(items)]
<1>1. Held = Held' \cup {p} /\ p \notin Held' /\ \A q \in Held' : q \in Held
  OBVIOUS
<1>2. /\ Lists(items, Elts, Held' \cup {p}, RowOrder, Contents)
      /\ TotalOrder(Held' \cup {p}, RowOrder)
      /\ Lists(items', Elts, Held', RowOrder', Contents') /\ TotalOrder(Held', RowOrder')
      /\ IsFiniteSet(Held')
  BY <1>1, ItemsListed, ListedLater, OrderTotal DEF Sound
<1>3. \A q, u \in Held' : <<q, u>> \in RowOrder' <=> UpTo(q, u)'
  BY DEF RowOrder
<1>4. \A q, u \in Held' : <<q, u>> \in RowOrder <=> <<q, u>> \in RowOrder'
  <2>1. ASSUME NEW q \in Held', NEW u \in Held'
        PROVE  <<q, u>> \in RowOrder' <=> <<q, u>> \in RowOrder
    <3>1. q \in Held /\ u \in Held
      BY <1>1
    <3>2. UpTo(q, u)' <=> UpTo(q, u)
      BY <3>1, OrderKept DEF Sound, Held
    <3>3. QED
      BY <1>3, <3>1, <3>2, UpToMeans
  <2>2. QED
    BY <2>1
<1>5. \A q \in Held' : Contents[q] = Contents'[q]
  BY <1>1 DEF Contents, NodeAt
<1>6. Contents[p] = NodeAt(p).value /\ NodeAt(p).value \in Elts
  BY DEF Contents, Held
<1>7. items \in Seq(Elts) /\ items' \in Seq(Elts)
  BY <1>2 DEF Lists
<1>8. CASE e = LEFT
  <2>1. \A q \in Held' : <<p, q>> \in RowOrder
    BY <1>1, <1>8, UpToMeans DEF Inside
  <2>2. items = <<Contents[p]>> \o items'
    <3>1. p \notin Held'
      BY <1>1
    <3>2. QED
      BY <1>2, <1>4, <1>5, <2>1, <3>1, ListsFirst
  <2>3. QED
    BY <1>6, <1>7, <1>8, <2>2, RowLess
<1>9. CASE e # LEFT
  <2>1. \A q \in Held' : <<q, p>> \in RowOrder
    BY <1>1, <1>9, UpToMeans DEF Inside
  <2>2. items = Append(items', NodeAt(p).value)
    BY <1>1, <1>2, <1>4, <1>5, <1>6, <2>1, ListsLast
  <2>3. QED
    BY <1>6, <1>7, <1>9, <2>2, RowLess
<1>10. QED
  BY <1>8, <1>9

-----------------------------------------------------------------------------
(* Outwards of a null there is no element *)

LEMMA LeastNat ==
  ASSUME NEW T \in SUBSET Nat, T # {}
  PROVE  \E n \in T : \A m \in T : ~ m < n
<1>1. PICK n \in T : \A m \in T : ~ <<m, n>> \in OpToRel(<, Nat)
  BY NatLessThanWellFounded, WFMin
<1>2. QED
  BY <1>1 DEF OpToRel

\* Within a buffer.
LEMMA NullsOutward ==
  ASSUME MemInv, InvLinks, NEW e \in End, NEW b \in Attached, NEW i \in Inner, NEW j \in Inner,
         mem[b][i].value = Own(e), IF e = LEFT THEN j <= i ELSE i <= j
  PROVE  mem[b][j].value = Own(e)
<1> SUFFICES ASSUME mem[b][j].value # Own(e) PROVE FALSE
  OBVIOUS
<1> DEFINE Ahead(x) == IF e = LEFT THEN i - x ELSE x - i
           T == {n \in Nat : \E x \in Inner : n = Ahead(x) /\ mem[b][x].value # Own(e)}
<1>1. D \in Nat /\ D >= 4 /\ Inner = 1 .. D - 2 /\ Inner \subseteq Slots
  BY Indices DEF Inner
<1>2. Ahead(j) \in T
  BY <1>1
<1>3. PICK n \in T : \A m \in T : ~ m < n
  <2>1. T \in SUBSET Nat /\ T # {}
    BY <1>2
  <2> HIDE DEF T
  <2>2. QED
    BY <2>1, LeastNat
<1>4. PICK x \in Inner : n = Ahead(x) /\ mem[b][x].value # Own(e)
  BY <1>3
<1>5. x # i
  BY <1>4
<1>6. /\ Inward(e, x) \in Inner /\ Ahead(Inward(e, x)) = n - 1 /\ n - 1 \in Nat
      /\ Outward(e, Inward(e, x)) = x
  <2>1. /\ Inward(e, x) = IF e = LEFT THEN IF x = D - 1 THEN 0 ELSE x + 1
                          ELSE IF x = 0 THEN D - 1 ELSE x - 1
        /\ Outward(e, Inward(e, x)) = x
    BY <1>1, Moved, Indices
  <2>2. Inward(e, x) = IF e = LEFT THEN x + 1 ELSE x - 1
    BY <1>1, <2>1
  <2>3. n \in Nat
    BY <1>3
  <2>4. i \in 1 .. D - 2 /\ x \in 1 .. D - 2
    BY <1>1
  <2>5. CASE e = LEFT
    BY <1>1, <1>4, <1>5, <2>1, <2>2, <2>3, <2>4, <2>5
  <2>6. CASE e # LEFT
    BY <1>1, <1>4, <1>5, <2>1, <2>2, <2>3, <2>4, <2>6
  <2>7. QED
    BY <2>5, <2>6
<1>7. mem[b][Inward(e, x)].value = Own(e)
  BY <1>3, <1>6
<1>8. mem[b][x].value \in Buffers \cup {Own(e)} /\ mem[b][x].value \notin Buffers
  BY <1>6, <1>7 DEF InvLinks, Ordered
<1>9. QED
  BY <1>4, <1>8

\* A buffer that begins with a null of end e, as seen from the inside, holds
\* no element.
LEMMA NullsOnly ==
  ASSUME MemInv, InvLinks, NEW e \in End, NEW b \in Attached, mem[b][Entry(e)].value = Own(e),
         NEW j \in Inner
  PROVE  mem[b][j].value = Own(e)
<1>1. /\ Entry(e) = IF e = LEFT THEN D - 2 ELSE 1
      /\ Entry(e) \in Inner
  <2>1. Far(e) \in Slots /\ D \in Nat /\ D >= 4
    BY Indices
  <2>2. QED
    BY <2>1, Moved, Indices DEF Entry, Far
<1>2. IF e = LEFT THEN j <= Entry(e) ELSE Entry(e) <= j
  BY <1>1 DEF Inner
<1>3. QED
  BY <1>1, <1>2, NullsOutward

\* And so do those beyond it.
LEMMA NullsBeyond ==
  ASSUME MemInv, InvLinks, NEW e \in End, NEW b \in Attached, mem[b][Entry(e)].value = Own(e),
         NEW c \in Reached(b, e), NEW j \in Inner
  PROVE  mem[c][j].value = Own(e)
<1> DEFINE S == {x \in Attached : mem[x][Entry(e)].value = Own(e)}
<1>1. Attached \subseteq Buffers /\ Inward(e, Rim(e)) \in Inner
  BY AttachedFacts, Indices
<1>2. S \in SUBSET Buffers /\ b \in S
  BY <1>1
<1>3. ASSUME NEW x \in S, Link(x, e) \in Buffers
      PROVE  Link(x, e) \in S
  <2>1. mem[x][Inward(e, Rim(e))].value = Own(e)
    BY <1>1, NullsOnly
  <2>2. Link(x, e) \in Attached /\ Ordered(x, e)
    BY <1>3 DEF InvLinks
  <2>3. QED
    BY <1>3, <2>1, <2>2 DEF Ordered
<1> HIDE DEF S
<1>4. c \in S
  BY <1>2, <1>3, ReachedIn
<1>5. QED
  BY <1>4, NullsOnly DEF S

\* The same beyond a buffer that ends with a null.
LEMMA NullsAfter ==
  ASSUME MemInv, InvLinks, NEW e \in End, NEW b \in Attached, NEW i \in Inner,
         mem[b][i].value = Own(e), NEW c \in Reached(b, e), c # b, NEW j \in Inner
  PROVE  mem[c][j].value = Own(e)
<1> DEFINE n == Inward(e, Rim(e))
<1>1. n \in Inner /\ n = (IF e = LEFT THEN 1 ELSE D - 2)
  <2>1. Rim(e) \in Slots /\ D \in Nat /\ D >= 4
    BY Indices
  <2>2. QED
    BY <2>1, Moved, Indices DEF Rim
<1>2. mem[b][n].value = Own(e)
  <2>1. IF e = LEFT THEN n <= i ELSE i <= n
    BY <1>1 DEF Inner
  <2>2. QED
    BY <1>1, <2>1, NullsOutward
<1>3. b \in Buffers /\ Link(b, e) \in Buffers /\ c \in Reached(Link(b, e), e)
  BY AttachedFacts, ReachedFrom
<1>4. Link(b, e) \in Attached /\ mem[Link(b, e)][Entry(e)].value = Own(e)
  BY <1>2, <1>3 DEF InvLinks, Ordered
<1>5. QED
  BY <1>3, <1>4, NullsBeyond

\* What it is to lie inwards of a place.
LEMMA InsideMeans ==
  ASSUME MemInv, InvLinks, NEW e \in End, NEW p, p.buf \in Attached, NEW q, q.buf \in Attached
  PROVE  IF q.buf = p.buf THEN Inside(e, q, p) <=> IF e = LEFT THEN p.idx <= q.idx ELSE q.idx <= p.idx
         ELSE q.buf \in Reached(p.buf, Opposite(e)) => Inside(e, q, p)
<1>1. CASE e = LEFT
  <2>1. Opposite(e) \in End /\ Opposite(Opposite(e)) = LEFT
    BY <1>1, Opposites
  <2>2. q.buf \in Reached(p.buf, Opposite(e)) => p.buf \in Reached(q.buf, LEFT)
    BY <2>1, ReachedBack
  <2>3. QED
    BY <1>1, <2>2 DEF Inside, UpTo
<1>2. CASE e # LEFT
  <2>1. Opposite(e) = LEFT
    BY <1>2 DEF Opposite, End
  <2>2. QED
    BY <1>2, <2>1 DEF Inside, UpTo
<1>3. QED
  BY <1>1, <1>2

\* Elements lie inwards of a null.
LEMMA NothingOutside ==
  ASSUME MemInv, InvLinks, NEW e \in End, NEW p \in [buf : Attached, idx : Inner],
         NodeAt(p).value = Own(e), NEW q \in Held
  PROVE  Inside(e, q, p) /\ q # p
<1>1. /\ q.buf \in Attached /\ q.idx \in Inner /\ mem[q.buf][q.idx].value \in Elts
      /\ p.buf \in Attached /\ p.idx \in Inner /\ mem[p.buf][p.idx].value = Own(e)
      /\ Own(e) \notin Elts
  BY NullFacts DEF Held, NodeAt
<1>2. CASE q.buf = p.buf
  <2>1. ~ (IF e = LEFT THEN q.idx <= p.idx ELSE p.idx <= q.idx)
    BY <1>1, <1>2, NullsOutward
  <2>2. q.idx \in Int /\ p.idx \in Int
    BY <1>1 DEF Inner
  <2>3. QED
    BY <1>1, <1>2, <2>1, <2>2, InsideMeans
<1>3. CASE q.buf # p.buf
  <2>1. q.buf \notin Reached(p.buf, e)
    BY <1>1, <1>3, NullsAfter
  <2>2. q.buf \in Reached(p.buf, Opposite(e))
    BY <1>1, <2>1, Opposites DEF InvLinks, End
  <2>3. QED
    BY <1>1, <1>3, <2>2, InsideMeans
<1>4. QED
  BY <1>2, <1>3

\* An element is outside all the others if the node outwards of it is a null,
\* in its own buffer or in the next one.
LEMMA Outermost ==
  ASSUME MemInv, InvLinks, NEW e \in End, NEW b \in Attached, NEW i \in Inner,
         \/ mem[b][Outward(e, i)].value = Own(e)
         \/ /\ Outward(e, i) = Rim(e) /\ Link(b, e) \in Buffers
            /\ mem[Link(b, e)][Entry(e)].value = Own(e),
         NEW q \in Held
  PROVE  Inside(e, q, [buf |-> b, idx |-> i])
<1> DEFINE p == [buf |-> b, idx |-> i]
           o == Outward(e, i)
<1>1. /\ q.buf \in Attached /\ q.idx \in Inner /\ mem[q.buf][q.idx].value \in Elts
      /\ Own(e) \notin Elts /\ Own(e) \notin Buffers /\ p.buf = b /\ p.idx = i
      /\ b \in Buffers
  BY NullFacts, AttachedFacts DEF Held, NodeAt
<1>2. D \in Nat /\ D >= 4 /\ Inner = 1 .. D - 2 /\ i \in Slots
  BY Indices DEF Inner
<1>3. o = IF e = LEFT THEN i - 1 ELSE i + 1
  BY <1>2, Moved
<1>4. q.buf \in Reached(b, e) \/ q.buf \in Reached(b, Opposite(e))
  BY <1>1, Opposites DEF InvLinks, End
<1>5. CASE o \in Inner
  <2>1. mem[b][o].value = Own(e)
    BY <1>5, Indices
  <2>2. CASE q.buf = b
    <3>1. ~ (IF e = LEFT THEN q.idx <= o ELSE o <= q.idx)
      BY <1>1, <1>5, <2>1, <2>2, NullsOutward
    <3>2. IF e = LEFT THEN i <= q.idx ELSE q.idx <= i
      BY <1>1, <1>2, <1>3, <3>1
    <3>3. QED
      BY <1>1, <2>2, <3>2, InsideMeans
  <2>3. CASE q.buf # b
    <3>1. q.buf \notin Reached(b, e)
      BY <1>1, <1>5, <2>1, <2>3, NullsAfter
    <3>2. QED
      BY <1>1, <1>4, <2>3, <3>1, InsideMeans
  <2>4. QED
    BY <2>2, <2>3
<1>6. CASE o \notin Inner
  <2>1. o = Rim(e) /\ i = IF e = LEFT THEN 1 ELSE D - 2
    BY <1>2, <1>3, <1>6 DEF Rim
  <2>2. CASE q.buf = b
    <3>1. IF e = LEFT THEN i <= q.idx ELSE q.idx <= i
      BY <1>1, <1>2, <2>1
    <3>2. QED
      BY <1>1, <2>2, <3>1, InsideMeans
  <2>3. CASE q.buf # b
    <3>1. ASSUME q.buf \in Reached(b, e) PROVE FALSE
      <4>1. Link(b, e) \in Buffers /\ q.buf \in Reached(Link(b, e), e)
        BY <1>1, <2>3, <3>1, ReachedFrom
      <4>2. Link(b, e) \in Attached /\ mem[Link(b, e)][Entry(e)].value = Own(e)
        BY <1>1, <2>1, <4>1 DEF InvLinks, Link
      <4>3. QED
        BY <1>1, <4>1, <4>2, NullsBeyond
    <3>2. QED
      BY <1>1, <1>4, <2>3, <3>1, InsideMeans
  <2>4. QED
    BY <2>2, <2>3
<1>7. QED
  BY <1>5, <1>6

-----------------------------------------------------------------------------
(* What a step makes of the row *)

LEMMA UnmovedItems ==
  ASSUME Sound, Sound', Unmoved
  PROVE  items' = items
<1>1. \A e \in End : Rim(e) \in Slots
  BY Indices
<1>2. Inner \subseteq Slots
  BY Indices DEF End
<1>3. LinksStay
  BY <1>1 DEF LinksStay, Unmoved, Link
<1>4. /\ Held' = Held
      /\ \A p \in Held : mem'[p.buf][p.idx].value = NodeAt(p).value
  BY <1>2 DEF Held, Unmoved, NodeAt
<1>5. QED
  BY <1>3, <1>4, RowKept

LEMMA PoppedItems ==
  ASSUME Sound, Sound', NEW t \in Threads, end[t] \in End, Popped(t)
  PROVE  /\ items # <<>>
         /\ items' = IF end[t] = LEFT THEN Tail(items) ELSE SubSeq(items, 1, Len(items) - 1)
         /\ inner[t].value = IF end[t] = LEFT THEN items[1] ELSE items[Len(items)]
<1> DEFINE e == end[t]
<1>1. PICK b \in Attached, i \in Inner :
        /\ Attached' = Attached
        /\ inner[t].value \in Elts /\ mem[b][i].value = inner[t].value
        /\ \/ mem[b][Outward(e, i)].value = Own(e)
           \/ /\ Outward(e, i) = Rim(e) /\ Link(b, e) \in Buffers
              /\ mem[Link(b, e)][Entry(e)].value = Own(e)
        /\ \A c \in Attached, j \in Slots :
             mem'[c][j].value = IF c = b /\ j = i THEN Own(e) ELSE mem[c][j].value
  BY DEF Popped
<1> DEFINE p == [buf |-> b, idx |-> i]
<1>2. Inner \subseteq Slots /\ Own(e) \notin Elts /\ \A f \in End : Rim(f) \in Slots \ Inner
  BY Indices, NullFacts
<1>3. LinksStay
  BY <1>1, <1>2 DEF LinksStay, Link
<1>4. p \in Held /\ NodeAt(p).value = inner[t].value
  BY <1>1 DEF Held, NodeAt
<1>5. \A q \in [buf : Attached, idx : Inner] :
        mem'[q.buf][q.idx].value = IF q = p THEN Own(e) ELSE mem[q.buf][q.idx].value
  BY <1>1, <1>2
<1>6. Held' = Held \ {p} /\ \A q \in Held' : mem'[q.buf][q.idx].value = NodeAt(q).value
  <2>1. Held' = {q \in [buf : Attached, idx : Inner] : mem'[q.buf][q.idx].value \in Elts}
    BY <1>1 DEF Held, NodeAt
  <2>2. QED
    BY <1>2, <1>5, <2>1 DEF Held, NodeAt
<1>7. \A q \in Held : Inside(e, q, p)
  BY <1>1, Outermost DEF Sound
<1> HIDE DEF p
<1>8. QED
  BY <1>3, <1>4, <1>6, <1>7, RowPop

LEMMA FilledItems ==
  ASSUME Sound, Sound', NEW t \in Threads, NEW e \in End, e = end[t], Filled(t)
  PROVE  items' = IF e = LEFT THEN <<elt[t]>> \o items ELSE Append(items, elt[t])
<1>1. PICK b \in Attached, i \in Inner :
        /\ Attached' = Attached /\ elt[t] \in Elts /\ mem[b][i].value = Own(e)
        /\ \A c \in Attached, j \in Slots :
             mem'[c][j].value = IF c = b /\ j = i THEN elt[t] ELSE mem[c][j].value
  BY DEF Filled
<1> DEFINE p == [buf |-> b, idx |-> i]
<1>2. Inner \subseteq Slots /\ Own(e) \notin Elts /\ \A f \in End : Rim(f) \in Slots \ Inner
  BY Indices, NullFacts
<1>3. LinksStay
  BY <1>1, <1>2 DEF LinksStay, Link
<1>4. p \notin Held /\ p \in [buf : Attached, idx : Inner] /\ NodeAt(p).value = Own(e)
  BY <1>1, <1>2 DEF Held, NodeAt
<1>5. \A q \in [buf : Attached, idx : Inner] :
        mem'[q.buf][q.idx].value = IF q = p THEN elt[t] ELSE mem[q.buf][q.idx].value
  BY <1>1, <1>2
<1>6. Held' = Held \cup {p} /\ \A q \in Held : mem'[q.buf][q.idx].value = NodeAt(q).value
  <2>1. Held' = {q \in [buf : Attached, idx : Inner] : mem'[q.buf][q.idx].value \in Elts}
    BY <1>1 DEF Held, NodeAt
  <2>2. QED
    BY <1>1, <1>4, <1>5, <2>1 DEF Held, NodeAt
<1>7. elt[t] = mem'[p.buf][p.idx].value
  BY <1>4, <1>5
<1>8. \A q \in Held : Inside(e, q, p)'
  <2>1. ASSUME NEW q \in Held
        PROVE  Inside(e, q, p)'
    <3>1. Inside(e, q, p)
      BY <1>4, NothingOutside DEF Sound
    <3>2. p.buf \in Attached /\ q.buf \in Attached
      BY <1>4 DEF Held
    <3>3. (UpTo(p, q)' <=> UpTo(p, q)) /\ (UpTo(q, p)' <=> UpTo(q, p))
      BY <1>3, <3>2, OrderKept DEF Sound
    <3>4. QED
      BY <3>1, <3>3 DEF Inside
  <2>2. QED
    BY <2>1
<1> HIDE DEF p
<1>9. QED
  BY <1>3, <1>4, <1>6, <1>7, <1>8, RowPush

\* The place of a new buffer at the end of the chain is outside all others.
LEMMA EndOfChain ==
  MemInv /\ InvLinks =>
    \A e \in End : \A n \in Attached : Link(n, e) \notin Buffers =>
      \A p : p.buf = n => \A q \in Held : q.buf # n => Inside(e, q, p)
<1> SUFFICES ASSUME MemInv, InvLinks, NEW e \in End, NEW n \in Attached, Link(n, e) \notin Buffers,
                    NEW p, p.buf = n, NEW q \in Held, q.buf # n
             PROVE  Inside(e, q, p)
  OBVIOUS
<1>1. q.buf \in Attached /\ n \in Buffers
  BY AttachedFacts DEF Held
<1>2. q.buf \notin Reached(n, e)
  BY <1>1, ReachedOnly
<1>3. q.buf \in Reached(n, Opposite(e))
  BY <1>1, <1>2, Opposites DEF InvLinks, End
<1>4. QED
  BY <1>1, <1>3, InsideMeans

LEMMA EndLater ==
  MemInv' /\ InvLinks' =>
    \A e \in End : \A n \in Attached' : Link(n, e)' \notin Buffers =>
      \A p : p.buf = n => \A q \in Held' : q.buf # n => Inside(e, q, p)'
<1>1. (MemInv /\ InvLinks =>
        \A e \in End : \A n \in Attached : Link(n, e) \notin Buffers =>
          \A p : p.buf = n => \A q \in Held : q.buf # n => Inside(e, q, p))'
  BY EndOfChain, PTL
<1>2. QED
  BY <1>1

LEMMA ExtendedItems ==
  ASSUME Sound, Sound', NEW t \in Threads, NEW e \in End, e = end[t], Extended(t)
  PROVE  items' = IF e = LEFT THEN <<elt[t]>> \o items ELSE Append(items, elt[t])
<1>1. PICK b \in Attached, n \in Buffers \ Attached :
        /\ Attached' = Attached \cup {n} /\ elt[t] \in Elts
        /\ Link(b, e) = Own(e) /\ mem[n] = NewBuffer(e, b, elt[t])
        /\ \A c \in Attached \cup {n}, j \in Slots :
             mem'[c][j].value = IF c = b /\ j = Rim(e) THEN n ELSE mem[c][j].value
  BY DEF Extended
<1> DEFINE p == [buf |-> n, idx |-> Entry(e)]
<1>2. /\ Inner \subseteq Slots /\ Own(e) \notin Elts /\ Own(e) \notin Buffers
      /\ Entry(e) \in Inner /\ Far(e) \in Slots \ Inner /\ Rim(e) # Far(e)
      /\ Rim(e) \in Slots \ Inner
  BY Indices, NullFacts
<1>3. LinksStay
  <2>1. ASSUME NEW c \in Attached, NEW f \in End, Link(c, f) \in Buffers
        PROVE  Link(c, f)' = Link(c, f)
    <3>1. Rim(f) \in Slots
      BY Indices
    <3>2. ~ (c = b /\ Rim(f) = Rim(e))
      BY <1>1, <1>2, <2>1 DEF Link
    <3>3. QED
      BY <1>1, <3>1, <3>2 DEF Link
  <2>2. QED
    BY <1>1, <2>1 DEF LinksStay
<1>4. \A j \in Inner : mem[n][j].value = IF j = Entry(e) THEN elt[t] ELSE Own(e)
  BY <1>1, <1>2, NewBufferValues
<1>5. \A q \in [buf : Attached \cup {n}, idx : Inner] :
        mem'[q.buf][q.idx].value = mem[q.buf][q.idx].value
  BY <1>1, <1>2
<1>6. \A q \in [buf : {n}, idx : Inner] : mem[q.buf][q.idx].value \in Elts <=> q = p
  BY <1>1, <1>2, <1>4
<1>7. p \in [buf : {n}, idx : Inner] /\ mem'[p.buf][p.idx].value = elt[t]
  BY <1>2, <1>4, <1>5
<1>8. /\ Held' = Held \cup {p} /\ p \notin Held
      /\ \A q \in Held : mem'[q.buf][q.idx].value = NodeAt(q).value
  <2>1. Held' = {q \in [buf : Attached \cup {n}, idx : Inner] : mem[q.buf][q.idx].value \in Elts}
    BY <1>1, <1>5 DEF Held, NodeAt
  <2>2. QED
    BY <1>1, <1>5, <1>6, <1>7, <2>1 DEF Held, NodeAt
<1>9. Link(n, e)' \notin Buffers
  <2>1. mem[n][Rim(e)].value = Own(e)
    BY <1>1, <1>2, NewBufferValues
  <2>2. mem'[n][Rim(e)].value = mem[n][Rim(e)].value
    BY <1>1, <1>2
  <2>3. QED
    BY <1>2, <2>1, <2>2 DEF Link
<1>10. \A q \in Held : Inside(e, q, p)'
  <2>1. \A q \in Held : q \in Held' /\ q.buf # n
    BY <1>1, <1>8 DEF Held
  <2>2. n \in Attached' /\ p.buf = n
    BY <1>1
  <2>3. QED
    BY <1>9, <2>1, <2>2, EndLater DEF Sound
<1> HIDE DEF p
<1>11. QED
  BY <1>3, <1>7, <1>8, <1>10, RowPush

LEMMA PushedItems ==
  ASSUME Sound, Sound', NEW t \in Threads, end[t] \in End, Pushed(t)
  PROVE  items' = IF end[t] = LEFT THEN <<elt[t]>> \o items ELSE Append(items, elt[t])
<1>1. PICK e \in End : e = end[t]
  OBVIOUS
<1>2. QED
  BY <1>1, FilledItems, ExtendedItems DEF Pushed

-----------------------------------------------------------------------------
(* When a pop answers EMPTY *)

\* Two places that lie inwards of each other are one.
LEMMA Between ==
  ASSUME MemInv, InvLinks, NEW p \in [buf : Attached, idx : Inner],
         NEW q \in [buf : Attached, idx : Inner], NEW e \in End,
         Inside(e, q, p), Inside(Opposite(e), q, p)
  PROVE  q = p
<1>1. UpTo(p, q) /\ UpTo(q, p)
  BY DEF Inside, Opposite, End, LEFT, RIGHT
<1>2. p.buf = q.buf
  <2>1. LEFT \in End /\ p.buf \in Attached /\ q.buf \in Attached
    BY DEF End
  <2>2. QED
    BY <1>1, <2>1, ReachedOnce DEF UpTo
<1>3. p.idx = q.idx
  BY <1>1, <1>2 DEF UpTo, Inner
<1>4. QED
  BY <1>2, <1>3

\* Where the next buffer outwards of p begins, as seen from p, there is a null.
Vacant(e, p) ==
  p.idx = Rim(e) /\ Link(p.buf, e) \in Buffers => mem[Link(p.buf, e)][Entry(e)].value = Own(e)

\* The deque is empty if the nulls of its two ends meet.
LEMMA NullsMeet ==
  ASSUME MemInv, InvLinks, NEW e \in End, NEW p \in Place, p.buf \in Attached,
         NodeAt(p).value = Own(e) \/ p.idx = Rim(e), Vacant(e, p), p.idx # Far(e),
         p.idx = Entry(e) => mem[p.buf][Far(e)].value = Other(e),
         NodeAt(In(e, p)).value = Other(e)
  PROVE  Held = {}
<1> SUFFICES ASSUME NEW q \in Held PROVE FALSE
  OBVIOUS
<1> DEFINE b == p.buf
           i == Inward(e, p.idx)
           r == [buf |-> b, idx |-> i]
<1>1. /\ p.idx \in Slots /\ b \in Attached /\ b \in Buffers /\ In(e, p) = r
      /\ mem[b][i].value = Other(e)
      /\ q \in [buf : Attached, idx : Inner] /\ NodeAt(q).value \in Elts
      /\ q.buf \in Attached /\ q.idx \in Inner
  BY AttachedFacts DEF In, Place, NodeAt, Held
<1>2. /\ i \in Slots /\ Outward(e, i) = p.idx /\ Slots = Inner \cup {Rim(e), Far(e)}
      /\ i = Far(e) => p.idx = Entry(e)
      /\ i # Rim(e)
      /\ Entry(e) \in Inner /\ Rim(e) \notin Inner
  BY <1>1, Indices DEF Entry
<1>3. Own(e) \notin Elts /\ Other(e) \notin Elts /\ Own(e) \notin Buffers /\ Other(e) \notin Buffers
  BY NullFacts
<1>4. CASE i = Far(e)
  <2>1. mem[b][Entry(e)].value = Own(e)
    BY <1>2, <1>4 DEF NodeAt
  <2>2. \A j \in Inner : mem[b][j].value = Own(e)
    BY <2>1, NullsOnly
  <2>3. q.buf # b
    BY <1>1, <1>3, <2>2 DEF NodeAt
  <2>4. q.buf \notin Reached(b, e)
    BY <1>1, <1>3, <2>1, NullsBeyond DEF NodeAt
  <2>5. q.buf \in Reached(b, Opposite(e)) /\ Opposite(e) \in End
    BY <1>1, <2>4, Opposites DEF InvLinks, End
  <2>6. Link(b, Opposite(e)) \in Buffers
    BY <1>1, <2>3, <2>5, ReachedFrom
  <2>7. Link(b, Opposite(e)) = Other(e)
    BY <1>1, <1>4, Opposites DEF Link
  <2>8. QED
    BY <1>3, <2>6, <2>7
<1>5. CASE i # Far(e)
  <2>1. i \in Inner /\ r \in [buf : Attached, idx : Inner]
    BY <1>1, <1>2, <1>5
  <2>2. Opposite(e) \in End /\ Own(Opposite(e)) = Other(e)
    BY Opposites
  <2>3. Inside(Opposite(e), q, r) /\ q # r
    BY <1>1, <2>1, <2>2, NothingOutside DEF NodeAt
  <2>4. \/ mem[b][Outward(e, i)].value = Own(e)
        \/ /\ Outward(e, i) = Rim(e) /\ Link(b, e) \in Buffers
           /\ mem[Link(b, e)][Entry(e)].value = Own(e)
    <3>1. Link(b, e) \in Buffers \cup {Own(e)}
      BY <1>1 DEF InvLinks, Linked
    <3>2. QED
      BY <1>2, <3>1 DEF Vacant, NodeAt, Link
  <2>5. Inside(e, q, r)
    BY <1>1, <2>1, <2>4, Outermost
  <2>6. QED
    BY <1>1, <2>1, <2>3, <2>5, Between
<1>6. QED
  BY <1>4, <1>5

\* In a drain, what a pop has found out about the nodes outwards of its place.
Vacating(t) ==
  LET e == end[t] IN
  /\ pc[t] \in {"oracleInner", "oraclePeek"} /\ AtEdge(t) => outer[t].value = Link(k[t].buf, e)
  /\ pc[t] \in {"saveHint", "loadInner", "loadOuter", "recheck"} => Vacant(e, k[t])
  /\ pc[t] \in {"scanOuter", "scanInner"} => Vacant(e, at[t])
  /\ pc[t] = "scanNext" => mem[at[t].buf][Entry(e)].value = Own(e)
  /\ pc[t] = "recheck" => inner[t].value = Other(e)

VacantInv == stage = "drain" => \A t \in Threads : Vacating(t)

\* Links and nulls outlast the steps of a drain.
LEMMA NullsStay ==
  ASSUME MemInv, InvLinks, NEW t \in Threads, end[t] \in End, Unmoved \/ Popped(t)
  PROVE  /\ \A b \in Attached, f \in End : Link(b, f)' = Link(b, f)
         /\ \A b \in Attached, j \in Slots, f \in End :
              mem[b][j].value = Own(f) => mem'[b][j].value = Own(f)
<1>1. ASSUME NEW f \in End
      PROVE  Rim(f) \in Slots \ Inner /\ Own(f) \notin Elts
  BY Indices, NullFacts
<1>2. CASE Unmoved
  BY <1>1, <1>2 DEF Unmoved, Link
<1>3. CASE Popped(t)
  <2>1. PICK b \in Attached, i \in Inner :
          /\ mem[b][i].value \in Elts
          /\ \A c \in Attached, j \in Slots :
               mem'[c][j].value = IF c = b /\ j = i THEN Own(end[t]) ELSE mem[c][j].value
    BY <1>3 DEF Popped
  <2>2. QED
    BY <1>1, <2>1 DEF Link
<1>4. QED
  BY <1>2, <1>3

LEMMA VacantStays ==
  ASSUME MemInv, InvLinks, NEW t \in Threads, end[t] \in End, Unmoved \/ Popped(t),
         NEW f \in End, NEW p, p.buf \in Attached, Vacant(f, p)
  PROVE  Vacant(f, p)'
<1>1. Link(p.buf, f)' = Link(p.buf, f)
  BY NullsStay
<1>2. Link(p.buf, f) \in Buffers => Link(p.buf, f) \in Attached
  BY DEF InvLinks
<1>3. Entry(f) \in Slots
  BY Indices
<1>4. QED
  BY <1>1, <1>2, <1>3, NullsStay DEF Vacant

LEMMA VacatingOthers ==
  ASSUME MemInv, ChainInv, NEW t \in Threads, Steady(t), Unmoved \/ Popped(t),
         NEW u \in Threads \ {t}, Vacating(u)
  PROVE  Vacating(u)'
<1> DEFINE e == end[u]
<1>1. /\ pc'[u] = pc[u] /\ end'[u] = e /\ k'[u] = k[u] /\ at'[u] = at[u]
      /\ inner'[u] = inner[u] /\ outer'[u] = outer[u] /\ (AtEdge(u)' <=> AtEdge(u))
  BY OthersSame DEF Steady
<1>2. /\ e \in End /\ end[t] \in End
      /\ pc[u] \notin {"idle", "oracleHint"} => k[u].buf \in Attached
      /\ pc[u] \in {"climb", "scanOuter", "scanInner", "scanNext"} => at[u].buf \in Attached
      /\ InvLinks
  BY PlacesAttached, Knowledge DEF ChainInv
<1>3. Entry(e) \in Slots
  BY <1>2, Indices
<1>4. pc[u] \in {"oracleInner", "oraclePeek"} /\ AtEdge(u) => outer[u].value = mem'[k[u].buf][Rim(e)].value
  <2>1. \A c \in Attached : mem'[c][Rim(e)].value = mem[c][Rim(e)].value
    BY <1>2, NullsStay DEF Link
  <2>2. QED
    BY <1>2, <2>1 DEF Vacating, Link
<1>5. pc[u] \in {"saveHint", "loadInner", "loadOuter", "recheck"} => Vacant(e, k[u])'
  <2> SUFFICES ASSUME pc[u] \in {"saveHint", "loadInner", "loadOuter", "recheck"}
               PROVE  Vacant(e, k[u])'
    OBVIOUS
  <2>1. PICK f \in End, p \in {k[u]} : f = e
    BY <1>2
  <2>2. Vacant(f, p) /\ p.buf \in Attached
    BY <1>2, <2>1 DEF Vacating
  <2>3. Vacant(f, p)'
    BY <1>2, <2>2, VacantStays
  <2>4. QED
    BY <1>1, <2>1, <2>3 DEF Vacant
<1>6. pc[u] \in {"scanOuter", "scanInner"} => Vacant(e, at[u])'
  <2> SUFFICES ASSUME pc[u] \in {"scanOuter", "scanInner"} PROVE Vacant(e, at[u])'
    OBVIOUS
  <2>1. PICK f \in End, p \in {at[u]} : f = e
    BY <1>2
  <2>2. Vacant(f, p) /\ p.buf \in Attached
    BY <1>2, <2>1 DEF Vacating
  <2>3. Vacant(f, p)'
    BY <1>2, <2>2, VacantStays
  <2>4. QED
    BY <1>1, <2>1, <2>3 DEF Vacant
<1>7. pc[u] = "scanNext" => mem'[at[u].buf][Entry(e)].value = Own(e)
  BY <1>2, <1>3, NullsStay DEF Vacating
<1>8. pc[u] = "recheck" => inner[u].value = Other(e)
  BY DEF Vacating
<1>9. QED
  BY <1>1, <1>4, <1>5, <1>6, <1>7, <1>8 DEF Vacating, Vacant, Link

\* The oracle hands over a place outwards of which there is no element.
LEMMA VacatingOracle ==
  ASSUME MemInv, ChainInv, stage = "drain", NEW t \in Threads, Oracle(t), Vacating(t)
  PROVE  Vacating(t)'
<1> DEFINE e == end[t]
<1>1. /\ TypeOK /\ end'[t] = e /\ e \in End /\ UNCHANGED mem /\ Aimed(t) /\ Scanning(t)
      /\ InvLinks
      /\ pc[t] \notin {"idle", "oracleHint"} => k[t] \in Place /\ k[t].buf \in Attached
      /\ pc[t] \in {"climb", "scanOuter", "scanInner", "scanNext"} =>
           at[t] \in Place /\ at[t].buf \in Attached
  BY Knowledge, Learned, PlacesAttached
     DEF Oracle, request, shared, store, ChainInv
<1>2. /\ \A i \in Slots : Inward(e, i) # Far(e) => Inward(e, i) # Rim(e) \/ i = Far(e)
      /\ \A i \in Slots : Inward(e, i) = Far(e) => i = Entry(e)
      /\ Rim(e) # Entry(e) /\ Rim(e) # Far(e)
  BY <1>1, Indices DEF Entry
<1>3. Own(e) \notin Buffers /\ Other(e) \notin Buffers
  BY <1>1, NullFacts
<1>4. CASE OracleHint(t)
  BY <1>1, <1>4 DEF OracleHint, Goto, TypeOK, Vacating
<1>5. CASE OracleOuter(t)
  <2>1. pc'[t] = "oracleInner" /\ outer'[t] = NodeAt(k[t]) /\ k'[t] = k[t]
    BY <1>1, <1>5 DEF OracleOuter, Goto, TypeOK
  <2>2. QED
    BY <1>1, <2>1 DEF Vacating, AtEdge, NodeAt, Link
<1>6. CASE OracleInner(t)
  <2>1. pc[t] = "oracleInner"
    BY <1>6 DEF OracleInner
  <2>2. CASE Found(t, k[t]) /\ outer[t].value = Own(e)
    <3>1. pc'[t] = "saveHint" /\ k'[t] = k[t]
      BY <1>1, <2>2 DEF Found, Goto, TypeOK
    <3>2. k[t].idx = Rim(e) => Link(k[t].buf, e) \notin Buffers
      BY <1>3, <2>1, <2>2 DEF Vacating, AtEdge
    <3>3. QED
      BY <1>1, <3>1, <3>2 DEF Vacating, Vacant, Link
  <2>3. CASE Goto(t, "oraclePeek") /\ UNCHANGED <<found, at>>
    <3>1. pc'[t] = "oraclePeek" /\ k'[t] = k[t] /\ outer'[t] = outer[t]
      BY <1>1, <2>3 DEF Goto, TypeOK, found
    <3>2. QED
      BY <1>1, <2>1, <3>1 DEF Vacating, AtEdge, Link
  <2>4. CASE StartClimb(t)
    BY <1>1, <2>4 DEF StartClimb, Goto, TypeOK, Vacating
  <2>5. QED
    BY <1>6, <2>2, <2>3, <2>4 DEF OracleInner
<1>7. CASE OraclePeek(t)
  <2>1. pc[t] = "oraclePeek" /\ outer[t].value = Link(k[t].buf, e)
    BY <1>1, <1>7 DEF OraclePeek, Vacating, Scanning
  <2>2. CASE Found(t, k[t]) /\ mem[outer[t].value][Entry(e)].value = Own(e)
    <3>1. pc'[t] = "saveHint" /\ k'[t] = k[t]
      BY <1>1, <2>2 DEF Found, Goto, TypeOK
    <3>2. QED
      BY <1>1, <2>1, <2>2, <3>1 DEF Vacating, Vacant, Link
  <2>3. CASE StartClimb(t) \/ Crash(t)
    BY <1>1, <2>3 DEF StartClimb, Crash, Goto, TypeOK, Vacating
  <2>4. QED
    BY <1>7, <2>2, <2>3 DEF OraclePeek
<1>8. CASE Climb(t)
  <2>1. /\ pc[t] = "climb" /\ at[t].idx = Rim(e)
    BY <1>1, <1>8 DEF Climb, Scanning
  <2>2. CASE NodeAt(at[t]).value = Own(e) /\ Goto(t, "scanOuter") /\ UNCHANGED at
    <3>1. pc'[t] = "scanOuter" /\ at'[t] = at[t]
      BY <1>1, <2>2 DEF Goto, TypeOK
    <3>2. Link(at[t].buf, e) = Own(e)
      BY <2>1, <2>2 DEF NodeAt, Link
    <3>3. QED
      BY <1>1, <1>3, <3>1, <3>2 DEF Vacating, Vacant, Link
  <2>3. CASE pc'[t] \in {"climb", "crashed"}
    BY <2>3 DEF Vacating
  <2>4. QED
    BY <1>1, <1>8, <2>1, <2>2, <2>3 DEF Climb, Crash, Goto, TypeOK
<1>9. CASE ScanOuter(t)
  <2>1. pc[t] = "scanOuter" /\ pc'[t] = "scanInner" /\ at'[t] = at[t]
    BY <1>1, <1>9 DEF ScanOuter, Goto, TypeOK
  <2>2. QED
    BY <1>1, <2>1 DEF Vacating, Vacant, Link
<1>10. CASE ScanInner(t)
  <2> DEFINE prev == In(e, at[t])
  <2>1. /\ pc[t] = "scanInner" /\ at[t].idx # Far(e) /\ at[t].idx \in Slots
        /\ Vacant(e, at[t]) /\ prev.buf = at[t].buf /\ prev.idx = Inward(e, at[t].idx)
        /\ at[t].idx = Rim(e) \/ NodeAt(at[t]).value = Own(e)
    BY <1>1, <1>10 DEF ScanInner, Scanning, Vacating, In, Place
  <2>2. CASE Found(t, at[t])
    <3>1. pc'[t] = "saveHint" /\ k'[t] = at[t]
      BY <1>1, <2>2 DEF Found, Goto, TypeOK
    <3>2. QED
      BY <1>1, <2>1, <3>1 DEF Vacating, Vacant, Link
  <2>3. CASE /\ at' = [at EXCEPT ![t] = prev]
             /\ Goto(t, IF prev.idx = Far(e) THEN "scanNext" ELSE "scanOuter")
    <3>1. at'[t] = prev /\ pc'[t] = IF prev.idx = Far(e) THEN "scanNext" ELSE "scanOuter"
      BY <1>1, <2>3 DEF Goto, TypeOK
    <3>2. CASE prev.idx = Far(e)
      <4>1. mem[at[t].buf][Entry(e)].value = Own(e)
        BY <1>2, <2>1, <3>2 DEF NodeAt
      <4>2. QED
        BY <1>1, <2>1, <3>1, <3>2, <4>1 DEF Vacating
    <3>3. CASE prev.idx # Far(e)
      <4>1. prev.idx # Rim(e)
        BY <1>2, <2>1, <3>3
      <4>2. QED
        BY <1>1, <3>1, <3>3, <4>1 DEF Vacating, Vacant
    <3>4. QED
      BY <3>2, <3>3
  <2>4. QED
    BY <1>10, <2>2, <2>3 DEF ScanInner
<1>11. CASE ScanNext(t)
  <2> DEFINE next == NodeAt(at[t]).value
  <2>1. /\ pc[t] = "scanNext" /\ next = mem[at[t].buf][Far(e)].value /\ next \in Buffers
        /\ mem[at[t].buf][Entry(e)].value = Own(e) /\ at[t].buf \in Attached
    BY <1>1, <1>11 DEF ScanNext, Scanning, Vacating, NodeAt
  <2>2. Link(next, e) = at[t].buf
    <3>1. /\ Opposite(e) \in End /\ Opposite(Opposite(e)) = e /\ Rim(Opposite(e)) = Far(e)
      BY <1>1, Opposites
    <3>2. Link(at[t].buf, Opposite(e)) = next
      BY <2>1, <3>1 DEF Link
    <3>3. QED
      BY <1>1, <2>1, <3>1, <3>2 DEF InvLinks, Linked
  <2>3. CASE /\ at' = [at EXCEPT ![t] = [buf |-> next, idx |-> Rim(e)]]
             /\ Goto(t, "scanOuter")
    <3>1. at'[t] = [buf |-> next, idx |-> Rim(e)] /\ pc'[t] = "scanOuter"
      BY <1>1, <2>3 DEF Goto, TypeOK
    <3>2. at'[t].buf = next /\ mem'[next][Rim(e)].value = at[t].buf
      BY <1>1, <2>2, <3>1 DEF Link
    <3>3. mem'[at[t].buf][Entry(e)].value = Own(e)
      BY <1>1, <2>1
    <3>4. QED
      BY <1>1, <3>1, <3>2, <3>3 DEF Vacating, Vacant, Link
  <2>4. QED
    BY <1>3, <1>11, <2>1, <2>3 DEF ScanNext
<1>12. QED
  BY <1>4, <1>5, <1>6, <1>7, <1>8, <1>9, <1>10, <1>11 DEF Oracle

LEMMA VacatingBody ==
  ASSUME MemInv, ChainInv, NEW t \in Threads, Body(t), Vacating(t)
  PROVE  Vacating(t)'
<1> DEFINE Looking == {"oracleInner", "oraclePeek", "saveHint", "loadInner", "loadOuter", "recheck",
                       "scanOuter", "scanInner", "scanNext"}
<1>1. /\ TypeOK /\ end'[t] = end[t] /\ op'[t] = op[t]
  BY Knowledge DEF Body, request
<1>2. CASE SaveHint(t) \/ LoadInner(t)
  <2>1. /\ pc[t] \in {"saveHint", "loadInner"} /\ pc'[t] \in {"loadInner", "loadOuter"}
        /\ k'[t] = k[t] /\ mem' = mem
    BY <1>1, <1>2 DEF SaveHint, LoadInner, Goto, TypeOK, shared, store, found
  <2>2. QED
    BY <1>1, <2>1 DEF Vacating, Vacant, Link
<1>3. CASE LoadOuter(t)
  <2>1. pc[t] = "loadOuter" /\ mem' = mem
    BY <1>3 DEF LoadOuter, shared, store
  <2>2. CASE /\ Goto(t, IF op[t] = POP /\ inner[t].value = Other(end[t]) THEN "recheck"
                         ELSE IF Extends(t, NodeAt(k[t])) THEN "attach"
                         ELSE IF ~Crosses(t, NodeAt(k[t])) THEN "cas1"
                         ELSE IF Reloads(t) THEN "reload" ELSE "peek")
             /\ UNCHANGED <<k, inner>>
    <3>1. pc'[t] = "recheck" => inner[t].value = Other(end[t])
      BY <1>1, <2>2 DEF Goto, TypeOK
    <3>2. pc'[t] \in {"recheck", "attach", "cas1", "reload", "peek"}
      BY <1>1, <2>2 DEF Goto, TypeOK
    <3>3. QED
      BY <1>1, <2>1, <2>2, <3>1, <3>2 DEF Vacating, Vacant, Link
  <2>3. CASE Retry(t)
    BY <1>1, <2>3 DEF Retry, Goto, TypeOK, Vacating
  <2>4. QED
    BY <1>3, <2>2, <2>3 DEF LoadOuter
<1>4. CASE ~SaveHint(t) /\ ~LoadInner(t) /\ ~LoadOuter(t)
  <2>1. pc'[t] \notin Looking
    BY <1>1, <1>4 DEF Body, Recheck, Attach, Reload, Peek, Cas1, Cas2, MoveHint, Resize,
                      Exchange, Retry, Return, Crash, Goto, TypeOK
  <2>2. QED
    BY <2>1 DEF Vacating
<1>5. QED
  BY <1>2, <1>3, <1>4

-----------------------------------------------------------------------------
(* Every step *)

LEMMA ChainSound == MemInv /\ ChainInv => Sound
BY DEF ChainInv, Sound

\* What a step of one thread does to the memory.
LEMMA StepOutcome ==
  ASSUME MemInv, MemInv', ChainInv, NEW t \in Threads, Oracle(t) \/ Body(t), UNCHANGED stage
  PROVE  /\ Steady(t) /\ UNCHANGED request /\ end[t] \in End /\ t \in Busy
         /\ Outcome(t)
<1>1. TypeOK /\ end[t] \in End
  BY Knowledge
<1>2. Steady(t) /\ UNCHANGED request
  BY <1>1, OracleSteady, BodySteady DEF Oracle, Body
<1>3. pc[t] # "idle"
  BY DEF Oracle, OracleHint, OracleOuter, OracleInner, OraclePeek, Climb, ScanOuter, ScanInner,
         ScanNext, Body, SaveHint, LoadInner, LoadOuter, Recheck, Attach, Reload, Peek, Cas1,
         Cas2, MoveHint, Resize
<1>4. CASE Body(t)
  BY <1>1, <1>2, <1>3, <1>4, BodyChain DEF Busy
<1>5. CASE Oracle(t)
  <2>1. UNCHANGED <<mem, heap, lost, stage>>
    BY <1>5 DEF Oracle, shared, store
  <2>2. pc[t] \notin {"cas1", "cas2"} /\ pc'[t] \notin {"cas1", "cas2"}
    BY <1>1, <1>5 DEF Oracle, OracleHint, OracleOuter, OracleInner, OraclePeek, Climb, ScanOuter,
                      ScanInner, ScanNext, StartClimb, Found, Crash, Goto, TypeOK
  <2>3. Attached' = Attached
    BY <1>2, <2>1, <2>2, MemoryStill DEF Attaching
  <2>4. QED
    BY <1>1, <1>2, <1>3, <2>1, <2>2, <2>3 DEF Outcome, Unmoved, Busy
<1>6. QED
  BY <1>4, <1>5

LEMMA CallOutcome ==
  ASSUME MemInv, NEW t \in Threads, Call(t)
  PROVE  /\ Steady(t) /\ Unmoved /\ pc[t] = "idle" /\ pc'[t] = "oracleHint"
         /\ ret' = [ret EXCEPT ![t] = [stat |-> NONE, val |-> NULL]]
<1>1. /\ TypeOK /\ Steady(t) /\ pc[t] = "idle" /\ pc'[t] = "oracleHint" /\ UNCHANGED <<shared, lost>>
      /\ ret' = [ret EXCEPT ![t] = [stat |-> NONE, val |-> NULL]] /\ side'[t] = side[t]
  BY Knowledge, CallSteady DEF Call, Goto, TypeOK, extra
<1>2. Attached' = Attached
  BY <1>1, AttachedStill DEF Attaching, shared, store
<1>3. QED
  BY <1>1, <1>2 DEF Unmoved, shared, store

\* In a drain nothing but pops happens.
LEMMA DrainOutcome ==
  ASSUME ChainInv, NEW t \in Busy, Outcome(t), stage = "drain"
  PROVE  Unmoved \/ Popped(t)
BY DEF ChainInv, InvStage, Outcome

LEMMA VacantNext ==
  ASSUME MemInv, MemInv', ChainInv, VacantInv, [StagedNext]_svars
  PROVE  VacantInv'
<1> SUFFICES ASSUME stage' = "drain", NEW u \in Threads PROVE Vacating(u)'
  BY DEF VacantInv
<1>1. CASE Clear /\ stage' = "fill"
  BY <1>1
<1>2. ASSUME NEW t \in Threads, Call(t), Admit(t)
      PROVE  Vacating(u)'
  <2>1. Steady(t) /\ Unmoved /\ pc'[t] = "oracleHint"
    BY <1>2, CallOutcome
  <2>2. stage = "drain" \/ AllIdle
    BY <1>2 DEF Admit
  <2>3. CASE u = t
    BY <2>1, <2>3 DEF Vacating
  <2>4. CASE u # t /\ stage = "drain"
    BY <2>1, <2>4, VacatingOthers DEF VacantInv
  <2>5. CASE u # t /\ AllIdle
    <3>1. pc'[u] = "idle"
      BY <2>1, <2>5 DEF AllIdle, Steady
    <3>2. QED
      BY <3>1 DEF Vacating
  <2>6. QED
    BY <2>2, <2>3, <2>4, <2>5
<1>3. ASSUME NEW t \in Threads, Oracle(t) \/ Body(t), UNCHANGED stage
      PROVE  Vacating(u)'
  <2>1. stage = "drain" /\ Vacating(u)
    BY <1>3 DEF VacantInv
  <2>2. Steady(t) /\ (Unmoved \/ Popped(t))
    BY <1>3, <2>1, StepOutcome, DrainOutcome
  <2>3. CASE u = t
    BY <1>3, <2>1, <2>3, VacatingOracle, VacatingBody
  <2>4. CASE u # t
    BY <2>1, <2>2, <2>4, VacatingOthers
  <2>5. QED
    BY <2>3, <2>4
<1>4. CASE UNCHANGED svars
  <2>1. UNCHANGED <<stage, mem, pc, end, k, at, inner, outer>>
    BY <1>4 DEF svars, vars, shared, store, request, found
  <2>2. QED
    BY <2>1 DEF VacantInv, Vacating, Vacant, AtEdge, Link
<1>5. QED
  BY <1>1, <1>2, <1>3, <1>4
     DEF StagedNext, Step, LeftOracle, RightOracle, LeftPush, LeftPop, RightPush, RightPop

LEMMA NoItems ==
  ASSUME Sound, Held = {}
  PROVE  items = <<>>
<1>1. Lists(items, Elts, Held, RowOrder, Contents)
  BY ItemsListed DEF Sound
<1>2. items \in Seq(Elts) /\ Len(items) = 0
  BY <1>1, FS_EmptySet DEF Lists
<1>3. QED
  BY <1>2, EmptySeq

\* What the history variable seen records.
SeenInv ==
  /\ seen \in [Threads -> BOOLEAN]
  /\ \A t \in Threads :
       /\ seen[t] => phase[t] = "waiting"
       /\ phase[t] = "waiting" /\ Atomic!Refused(t) => seen[t]

LEMMA SeenNext ==
  ASSUME Atomic!Witness
  PROVE  SeenInv'
BY DEF Atomic!Witness, Atomic!Refused, SeenInv, phase

\* A pop that finds the other end's null again where it took the next element
\* to be answers EMPTY at an instant when it is true.
LEMMA EmptySeen ==
  ASSUME MemInv, ChainInv, VacantInv, SeenInv, NEW t \in Threads, pc[t] = "recheck",
         NodeAt(In(end[t], k[t])) = inner[t]
  PROVE  seen[t]
<1>1. /\ t \in Busy /\ op[t] = POP /\ end[t] \in End /\ Aimed(t) /\ Informed(t)
      /\ k[t] \in Place /\ k[t].buf \in Attached
  BY Knowledge, Learned, PlacesAttached DEF Placed, Busy, ChainInv
<1>2. stage = "drain"
  BY <1>1 DEF ChainInv, InvStage, PUSH, POP
<1>3. Vacant(end[t], k[t]) /\ inner[t].value = Other(end[t])
  BY <1>2 DEF VacantInv, Vacating
<1>4. k[t].idx # Far(end[t])
      /\ (k[t].idx = Entry(end[t]) => mem[k[t].buf][Far(end[t])].value = Other(end[t]))
  BY <1>1, <1>2 DEF Aimed, Working, Decided
<1>5. NodeAt(k[t]).value = Own(end[t]) \/ k[t].idx = Rim(end[t])
  BY <1>1 DEF Informed, Decided, Straddles, Crosses, AtEdge
<1>6. Held = {}
  BY <1>1, <1>3, <1>4, <1>5, NullsMeet DEF ChainInv
<1>7. Atomic!Refused(t)
  BY <1>1, <1>6, ChainSound, NoItems DEF Atomic!Refused, Atomic!PUSH, POP
<1>8. phase[t] = "waiting"
  BY DEF phase, Effective
<1>9. QED
  BY <1>7, <1>8 DEF SeenInv

\* A step of one thread changes the phase and the answer of no other.
LEMMA ViewFrame ==
  ASSUME NEW t \in Threads, Steady(t), \A u \in Threads \ {t} : ret'[u] = ret[u]
  PROVE  /\ phase' = [phase EXCEPT ![t] = phase'[t]]
         /\ answer' = [answer EXCEPT ![t] = answer'[t]]
<1>1. \A u \in Threads \ {t} : phase'[u] = phase[u] /\ answer'[u] = answer[u]
  BY DEF phase, answer, Effective, Steady
<1>2. /\ phase = [u \in Threads |-> phase[u]] /\ phase' = [u \in Threads |-> phase'[u]]
      /\ answer = [u \in Threads |-> answer[u]]
      /\ answer' = [u \in Threads |-> answer'[u]]
  BY DEF phase, answer
<1> HIDE DEF phase, answer
<1>3. QED
  BY <1>1, <1>2

\* When no abstract variable but seen can change, seen does not.
LEMMA SeenSame ==
  ASSUME SeenInv, Atomic!Witness, UNCHANGED <<items, phase, end, op>>
  PROVE  seen' = seen
<1>1. \A t \in Threads : Atomic!Refused(t)' = Atomic!Refused(t)
  BY DEF Atomic!Refused
<1>2. \A t \in Threads : seen'[t] = seen[t]
  BY <1>1 DEF SeenInv, Atomic!Witness
<1>3. QED
  BY <1>2 DEF SeenInv, Atomic!Witness

Refines == [Atomic!Next]_(Atomic!avars)

\* A step inside an operation is no step of the atomic deque.
LEMMA InsideRefines ==
  ASSUME Sound, Sound', SeenInv, Atomic!Witness, NEW t \in Threads, Steady(t), Unmoved,
         UNCHANGED <<request, ret>>, phase'[t] = phase[t], answer'[t] = answer[t]
  PROVE  Refines
<1>1. items' = items /\ room' = room
  BY UnmovedItems DEF room
<1>2. UNCHANGED <<phase, answer>>
  <2>1. phase \in [Threads -> {"idle", "waiting", "done"}]
    BY DEF phase
  <2>2. answer = [u \in Threads |-> answer[u]]
    BY DEF answer
  <2>3. phase' = [phase EXCEPT ![t] = phase[t]] /\ answer' = [answer EXCEPT ![t] = answer[t]]
    BY ViewFrame
  <2>4. QED
    BY <2>1, <2>2, <2>3
<1>3. UNCHANGED <<end, op, elt>>
  BY DEF request
<1>4. seen' = seen
  BY <1>1, <1>2, <1>3, SeenSame
<1>5. QED
  BY <1>1, <1>2, <1>3, <1>4 DEF Refines, Atomic!avars

LEMMA CallRefines ==
  ASSUME MemInv, Sound, Sound', Atomic!Witness, NEW t \in Threads, Call(t)
  PROVE  Refines
<1>1. /\ Steady(t) /\ Unmoved /\ pc[t] = "idle" /\ pc'[t] = "oracleHint" /\ TypeOK
      /\ ret' = [ret EXCEPT ![t] = [stat |-> NONE, val |-> NULL]]
  BY CallOutcome, Knowledge
<1>2. phase[t] = "idle" /\ phase'[t] = "waiting"
      /\ answer'[t] = [stat |-> NONE, val |-> NULL]
  BY <1>1 DEF phase, answer, Effective, TypeOK
<1>3. /\ phase' = [phase EXCEPT ![t] = "waiting"]
      /\ answer' = [answer EXCEPT ![t] = [stat |-> NONE, val |-> NULL]]
  BY <1>1, <1>2, ViewFrame DEF TypeOK
<1>4. items' = items /\ room' = room
  BY <1>1, UnmovedItems DEF room
<1>5. \E w \in Workload, v \in Elts \cup {NULL} :
        /\ w[2] = PUSH <=> v # NULL
        /\ end' = [end EXCEPT ![t] = w[1]]
        /\ op'  = [op EXCEPT ![t] = w[2]]
        /\ elt' = [elt EXCEPT ![t] = v]
  <2>1. PICK w \in Workload, v \in Elts \cup {NULL} :
          /\ v \in IF w[2] = PUSH THEN Elts ELSE {NULL}
          /\ end' = [end EXCEPT ![t] = w[1]]
          /\ op'  = [op EXCEPT ![t] = w[2]]
          /\ elt' = [elt EXCEPT ![t] = v]
    BY DEF Call
  <2>2. NULL \notin Elts
    OBVIOUS
  <2>3. w[2] = PUSH <=> v # NULL
    BY <2>1, <2>2
  <2>4. QED
    BY <2>1, <2>3
<1>6. Atomic!Call(t)
  BY <1>2, <1>3, <1>4, <1>5
  DEF Atomic!Call, Atomic!Answer, Atomic!PUSH, Atomic!NULL, Atomic!NONE, PUSH, NULL, NONE
<1>7. QED
  BY <1>6 DEF Refines, Atomic!Next, Atomic!Served

\* A pop that answers EMPTY.
LEMMA RefuseRefines ==
  ASSUME MemInv, Sound, Sound', Atomic!Witness, NEW t \in Threads, Steady(t), Unmoved,
         UNCHANGED request, pc[t] = "recheck", op[t] = POP, seen[t], Return(t, EMPTY, NULL)
  PROVE  Refines
<1>1. /\ pc'[t] = "idle" /\ TypeOK
      /\ ret' = [ret EXCEPT ![t] = [stat |-> EMPTY, val |-> NULL]]
  BY Knowledge DEF Return, Goto, TypeOK
<1>2. phase[t] = "waiting" /\ phase'[t] = "idle"
      /\ answer'[t] = [stat |-> EMPTY, val |-> NULL]
  BY <1>1 DEF phase, answer, Effective, TypeOK
<1>3. /\ phase' = [phase EXCEPT ![t] = "idle"]
      /\ answer' = [answer EXCEPT ![t] = [stat |-> EMPTY, val |-> NULL]]
  BY <1>1, <1>2, ViewFrame DEF TypeOK
<1>4. items' = items /\ room' = room
  BY UnmovedItems DEF room
<1>5. Atomic!Refuse(t)
  BY <1>2, <1>3, <1>4
  DEF Atomic!Refuse, Atomic!Answer, Atomic!PUSH, Atomic!NULL, Atomic!EMPTY, PUSH, POP, NULL,
      EMPTY, request
<1>6. QED
  BY <1>5 DEF Refines, Atomic!Next

LEMMA ResizeRefines ==
  ASSUME MemInv, Sound, Sound', Atomic!Witness, NEW t \in Threads, Steady(t), Unmoved,
         UNCHANGED request, Resize(t)
  PROVE  Refines
<1>1. /\ pc[t] = "resize" /\ pc'[t] = "idle" /\ TypeOK
      /\ ret' = [ret EXCEPT ![t] = answer[t]]
  BY Knowledge DEF Resize, Return, Goto, TypeOK, answer, Effective
<1>2. phase[t] = "done" /\ phase'[t] = "idle" /\ answer'[t] = answer[t]
  BY <1>1 DEF phase, answer, Effective, TypeOK
<1>3. phase' = [phase EXCEPT ![t] = "idle"] /\ answer' = answer
  <2>1. /\ phase' = [phase EXCEPT ![t] = "idle"]
        /\ answer' = [answer EXCEPT ![t] = answer[t]]
    BY <1>1, <1>2, ViewFrame DEF TypeOK
  <2>2. answer = [u \in Threads |-> answer[u]]
    BY DEF answer
  <2>3. QED
    BY <2>1, <2>2
<1>4. items' = items /\ room' = room
  BY UnmovedItems DEF room
<1>5. Atomic!Return(t)
  BY <1>2, <1>3, <1>4 DEF Atomic!Return, request
<1>6. QED
  BY <1>5 DEF Refines, Atomic!Next, Atomic!Served

\* A second exchange that hits is where the operation takes effect.
LEMMA StrikeRefines ==
  ASSUME MemInv, Sound, Sound', Atomic!Witness, NEW t \in Threads, Steady(t), Outcome(t),
         pc[t] = "cas2", pc'[t] = "moveHint", UNCHANGED <<request, inner, ret>>
  PROVE  Refines
<1> DEFINE val == IF op[t] = PUSH THEN NULL ELSE inner[t].value
<1>1. TypeOK /\ end[t] \in End /\ op[t] \in {PUSH, POP} /\ PUSH # POP
  BY Knowledge DEF Op, PUSH, POP
<1>2. phase[t] = "waiting" /\ phase'[t] = "done"
      /\ answer'[t] = [stat |-> OK, val |-> val]
  BY <1>1 DEF phase, answer, Effective, TypeOK, request
<1>3. /\ phase' = [phase EXCEPT ![t] = "done"]
      /\ answer' = [answer EXCEPT ![t] = [stat |-> OK, val |-> val]]
  BY <1>2, ViewFrame DEF TypeOK
<1>4. Atomic!TakeEffect(t) /\ room' = room
  BY <1>2, <1>3 DEF Atomic!TakeEffect, request, room
<1>5. CASE op[t] = PUSH
  <2>1. items' = IF end[t] = LEFT THEN <<elt[t]>> \o items ELSE Append(items, elt[t])
    BY <1>1, <1>5, PushedItems DEF Outcome
  <2>2. Atomic!Push(t)
    BY <1>3, <1>4, <1>5, <2>1
    DEF Atomic!Push, Atomic!Widen, Atomic!Answer, Atomic!PUSH, Atomic!LEFT, Atomic!OK,
        Atomic!NULL, PUSH, LEFT, OK, NULL
  <2>3. QED
    BY <2>2 DEF Refines, Atomic!Next, Atomic!Served
<1>6. CASE op[t] = POP
  <2>1. /\ items # <<>>
        /\ items' = IF end[t] = LEFT THEN Tail(items) ELSE SubSeq(items, 1, Len(items) - 1)
        /\ inner[t].value = IF end[t] = LEFT THEN items[1] ELSE items[Len(items)]
    BY <1>1, <1>6, PoppedItems DEF Outcome
  <2>2. val = inner[t].value
    BY <1>1, <1>6
  <2>3. Atomic!Pop(t)
    BY <1>3, <1>4, <1>6, <2>1, <2>2
    DEF Atomic!Pop, Atomic!Widen, Atomic!Answer, Atomic!POP, Atomic!LEFT, Atomic!OK,
        POP, LEFT, OK
  <2>4. QED
    BY <2>3 DEF Refines, Atomic!Next, Atomic!Served
<1>7. QED
  BY <1>1, <1>5, <1>6

LEMMA FreshItems == MemInv /\ Renewed => items = <<>>
<1> SUFFICES ASSUME MemInv, Renewed PROVE items = <<>>
  OBVIOUS
<1>1. PICK b \in Buffers : Fresh(b)
  BY DEF Renewed
<1>2. \A i \in Inner : mem[b][i].value \notin Elts
  <2>1. Inner \subseteq Slots
    BY Indices, LEFT \in End DEF End
  <2>2. mem[b] = Split
    BY <1>1 DEF Fresh
  <2>3. QED
    BY <2>1, <2>2, SplitValues
<1>3. Held = {}
  BY <1>1, <1>2 DEF Held, Fresh, NodeAt
<1>4. QED
  BY <1>3, ChainSound, FreshChain, NoItems

LEMMA ClearRefines ==
  ASSUME MemInv, MemInv', ChainInv, Atomic!Witness, Clear, stage' = "fill"
  PROVE  Refines
<1>1. (MemInv /\ Renewed => items = <<>>)'
  BY FreshItems, PTL
<1>2. items' = <<>> /\ room' = room
  BY <1>1, ClearRenews DEF room
<1>3. /\ \A t \in Threads : phase[t] = "idle"
      /\ UNCHANGED <<phase, end, op, elt, answer>>
  BY DEF Clear, phase, answer, Effective, request, found
<1>4. Atomic!Clear
  BY <1>2, <1>3 DEF Atomic!Clear
<1>5. QED
  BY <1>4 DEF Refines, Atomic!Next

\* A step of an operation is its effect, its answer or nothing.
LEMMA BodyRefines ==
  ASSUME MemInv, MemInv', ChainInv, ChainInv', VacantInv, SeenInv, Atomic!Witness,
         NEW t \in Threads, Body(t), UNCHANGED stage
  PROVE  Refines
<1>1. /\ TypeOK /\ pc \in [Threads -> PC] /\ Steady(t) /\ UNCHANGED request /\ Outcome(t)
      /\ op'[t] = op[t] /\ Sound /\ Sound' /\ pc'[t] # "crashed"
  BY StepOutcome, Knowledge, ChainSound
     DEF TypeOK, request, ChainInv, Sound, NoCrash, Running
<1>2. ASSUME pc[t] \notin {"idle", "moveHint", "resize"},
             pc'[t] \notin {"idle", "moveHint", "resize"}, ret' = ret
      PROVE  Refines
  <2>1. phase'[t] = phase[t] /\ answer'[t] = answer[t]
    BY <1>2 DEF phase, answer, Effective
  <2>2. Unmoved
    BY <1>1, <1>2 DEF Outcome
  <2>3. QED
    BY <1>1, <1>2, <2>1, <2>2, InsideRefines
<1>3. CASE SaveHint(t) \/ LoadInner(t) \/ Attach(t) \/ Reload(t)
  <2>1. /\ pc[t] \in {"saveHint", "loadInner", "attach", "reload"}
        /\ pc'[t] \in {"loadInner", "loadOuter", "cas1", "peek"} /\ ret' = ret
    BY <1>1, <1>3 DEF SaveHint, LoadInner, Attach, Reload, Goto
  <2>2. QED
    BY <1>2, <2>1
<1>4. CASE LoadOuter(t)
  <2>1. /\ pc[t] = "loadOuter" /\ ret' = ret
        /\ pc'[t] \in {"oracleHint", "recheck", "attach", "cas1", "reload", "peek"}
    BY <1>1, <1>4 DEF LoadOuter, Retry, Goto
  <2>2. QED
    BY <1>2, <2>1
<1>5. CASE Recheck(t)
  <2>1. pc[t] = "recheck" /\ op[t] = POP
    BY <1>5, Knowledge DEF Recheck, Placed
  <2>2. CASE NodeAt(In(end[t], k[t])) = inner[t] /\ Return(t, EMPTY, NULL)
    <3>1. seen[t]
      BY <2>1, <2>2, EmptySeen
    <3>2. Unmoved
      BY <1>1, <2>1 DEF Outcome
    <3>3. QED
      BY <1>1, <2>1, <2>2, <3>1, <3>2, RefuseRefines
  <2>3. CASE Goto(t, IF Straddles(t) THEN "peek" ELSE "cas1") /\ ret' = ret
    <3>1. pc'[t] \in {"peek", "cas1"}
      BY <1>1, <2>3 DEF Goto
    <3>2. QED
      BY <1>2, <2>1, <2>3, <3>1
  <2>4. QED
    BY <1>5, <2>2, <2>3 DEF Recheck
<1>6. CASE Peek(t)
  <2>1. pc[t] = "peek" /\ ret' = ret /\ pc'[t] \in {"crashed", "oracleHint", "cas1"}
    BY <1>1, <1>6 DEF Peek, Crash, Retry, Goto
  <2>2. QED
    BY <1>2, <2>1
<1>7. CASE Cas1(t)
  <2>1. pc[t] = "cas1" /\ ret' = ret /\ pc'[t] \in {"cas2", "oracleHint"}
    BY <1>1, <1>7 DEF Cas1, Exchange, Retry, Goto
  <2>2. QED
    BY <1>2, <2>1
<1>8. CASE Cas2(t)
  <2>1. /\ pc[t] = "cas2" /\ ret' = ret /\ pc'[t] \in {"moveHint", "oracleHint"}
        /\ pc'[t] = "moveHint" => inner' = inner
    BY <1>1, <1>8 DEF Cas2, Exchange, Retry, Goto, found
  <2>2. QED
    BY <1>1, <1>2, <2>1, StrikeRefines
<1>9. CASE MoveHint(t)
  <2>1. /\ pc[t] = "moveHint" /\ pc'[t] = "resize" /\ ret' = ret /\ inner' = inner
    BY <1>1, <1>9 DEF MoveHint, Goto, found
  <2>2. phase'[t] = phase[t] /\ answer'[t] = answer[t] /\ Unmoved
    BY <1>1, <2>1 DEF phase, answer, Effective, Outcome
  <2>3. QED
    BY <1>1, <2>1, <2>2, InsideRefines
<1>10. CASE Resize(t)
  <2>1. Unmoved
    BY <1>1, <1>10 DEF Outcome, Resize
  <2>2. QED
    BY <1>1, <1>10, <2>1, ResizeRefines
<1>11. QED
  BY <1>3, <1>4, <1>5, <1>6, <1>7, <1>8, <1>9, <1>10 DEF Body

LEMMA OracleRefines ==
  ASSUME MemInv, MemInv', ChainInv, ChainInv', SeenInv, Atomic!Witness,
         NEW t \in Threads, Oracle(t), UNCHANGED stage
  PROVE  Refines
<1>1. /\ pc \in [Threads -> PC] /\ Steady(t) /\ UNCHANGED <<request, ret>> /\ Outcome(t)
      /\ Sound /\ Sound'
  BY StepOutcome, Knowledge, ChainSound DEF TypeOK, Oracle, ChainInv, Sound
<1>2. /\ pc[t] \notin {"idle", "cas2", "moveHint", "resize"}
      /\ pc'[t] \notin {"idle", "moveHint", "resize"}
  BY <1>1 DEF Oracle, OracleHint, OracleOuter, OracleInner, OraclePeek, Climb, ScanOuter,
              ScanInner, ScanNext, StartClimb, Found, Crash, Goto
<1>3. phase'[t] = phase[t] /\ answer'[t] = answer[t] /\ Unmoved
  BY <1>1, <1>2 DEF phase, answer, Effective, Outcome
<1>4. QED
  BY <1>1, <1>3, InsideRefines

LEMMA StutterRefines ==
  ASSUME UNCHANGED lvars
  PROVE  UNCHANGED Atomic!avars /\ (SeenInv => SeenInv')
<1>1. /\ UNCHANGED <<mem, heap, hint, lost, pc, end, op, elt, inner, outer, k, side, ret, seen>>
  BY DEF lvars, svars, vars, shared, store, request, found, extra
<1>2. items' = items
  <2>1. Chain' = Chain
    BY <1>1 DEF Chain, Reached, Link
  <2>2. Stored' = Stored
    BY <1>1, <2>1 DEF Stored, NodeAt
  <2>3. Row' = Row
    BY <1>1 DEF Row, Rank, UpTo, Reached, Link, NodeAt
  <2>4. QED
    BY <2>2, <2>3 DEF items
<1>3. UNCHANGED <<phase, answer, room>>
  BY <1>1 DEF phase, answer, Effective, room
<1>4. UNCHANGED Atomic!avars
  BY <1>1, <1>2, <1>3 DEF Atomic!avars
<1>5. QED
  BY <1>1, <1>2, <1>3, <1>4 DEF SeenInv, Atomic!Refused

LEMMA LinRefines ==
  ASSUME MemInv, MemInv', ChainInv, ChainInv', VacantInv, SeenInv, [LinNext]_lvars
  PROVE  Refines
<1>1. CASE LinNext
  <2>1. Atomic!Witness
    BY <1>1 DEF LinNext
  <2>2. CASE Clear /\ stage' = "fill"
    BY <2>1, <2>2, ClearRefines
  <2>3. ASSUME NEW t \in Threads, Call(t)
        PROVE  Refines
    <3>1. Sound /\ Sound'
      BY ChainSound DEF Sound, ChainInv
    <3>2. QED
      BY <2>1, <2>3, <3>1, CallRefines
  <2>4. ASSUME NEW t \in Threads, Oracle(t) \/ Body(t), UNCHANGED stage
        PROVE  Refines
    BY <2>1, <2>4, OracleRefines, BodyRefines
  <2>5. QED
    BY <1>1, <2>2, <2>3, <2>4
       DEF LinNext, StagedNext, Step, LeftOracle, RightOracle, LeftPush, LeftPop, RightPush,
           RightPop
<1>2. CASE UNCHANGED lvars
  BY <1>2, StutterRefines DEF Refines
<1>3. QED
  BY <1>1, <1>2

LEMMA LinInitially ==
  ASSUME LinInit
  PROVE  Atomic!Init /\ SeenInv /\ VacantInv
<1>1. /\ StagedInit /\ Init /\ stage = "fill" /\ MemInv /\ TypeOK
      /\ seen = [t \in Threads |-> FALSE]
  BY InitMemInv DEF LinInit, StagedInit, MemInv
<1>2. items = <<>>
  BY <1>1, InitRenews, FreshItems
<1>3. room \in [{LEFT, RIGHT} -> Nat]
  BY DEF room, End
<1>4. /\ phase = [t \in Threads |-> "idle"]
      /\ answer = [t \in Threads |-> [stat |-> NONE, val |-> NULL]]
  BY <1>1 DEF Init, phase, answer, Effective
<1>5. end \in [Threads -> {LEFT, RIGHT}] /\ op \in [Threads -> {PUSH, POP}]
      /\ elt \in [Threads -> Elts \cup {NULL}]
  BY <1>1 DEF TypeOK, End, Op
<1>6. Atomic!Init
  BY <1>1, <1>2, <1>3, <1>4, <1>5
  DEF Atomic!Init, Atomic!LEFT, Atomic!RIGHT, Atomic!PUSH, Atomic!POP,
      Atomic!NULL, Atomic!NONE, LEFT, RIGHT, PUSH, POP, NULL, NONE
<1>7. SeenInv
  BY <1>1, <1>4 DEF SeenInv
<1>8. VacantInv
  BY <1>1 DEF VacantInv
<1>9. QED
  BY <1>6, <1>7, <1>8

LEMMA LinSteps ==
  /\ LinInit => StagedInit
  /\ [LinNext]_lvars => [StagedNext]_svars
BY DEF LinInit, LinNext, lvars

LEMMA LinStaged == LinSpec => StagedSpec
BY LinSteps, PTL DEF LinSpec, StagedSpec

\* What the refinement rests on: what pops have found out, and what seen tells.
THEOREM VacantInvariance == LinSpec => [](VacantInv /\ SeenInv)
<1>1. LinInit => VacantInv /\ SeenInv
  BY LinInitially
<1>2. MemInv /\ MemInv' /\ ChainInv /\ VacantInv /\ SeenInv /\ [LinNext]_lvars =>
        VacantInv' /\ SeenInv'
  <2> SUFFICES ASSUME MemInv, MemInv', ChainInv, VacantInv, SeenInv, [LinNext]_lvars
               PROVE  VacantInv' /\ SeenInv'
    OBVIOUS
  <2>1. VacantInv'
    BY LinSteps, VacantNext
  <2>2. SeenInv'
    BY SeenNext, StutterRefines DEF LinNext
  <2>3. QED
    BY <2>1, <2>2
<1>3. QED
  BY <1>1, <1>2, LinStaged, StagedMem, ChainInvariance, PTL DEF LinSpec

\* Filled and drained in stages, or used by one thread at a time, the unbounded
\* deque is linearizable: whatever buffers are attached and straddled, each
\* operation takes effect at one instant, elements leave in the order of the
\* ends they were pushed to, and a pop that answers EMPTY found it empty at
\* some instant of its call.
THEOREM StagedLinearizable == LinSpec => Linearizable
<1>1. LinInit => Atomic!Init
  BY LinInitially
<1>2. /\ MemInv /\ MemInv' /\ ChainInv /\ ChainInv' /\ VacantInv /\ SeenInv /\ [LinNext]_lvars
      => [Atomic!Next]_(Atomic!avars)
  BY LinRefines DEF Refines
<1>3. QED
  BY <1>1, <1>2, LinStaged, StagedMem, ChainInvariance, VacantInvariance, PTL
     DEF LinSpec, Linearizable, Atomic!Spec
=============================================================================
