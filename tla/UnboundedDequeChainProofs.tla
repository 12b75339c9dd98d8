------------------------ MODULE UnboundedDequeChainProofs ------------------------
(***************************************************************************)
(* The chain of the unbounded deque, for any number of threads, any size   *)
(* of the buffers and any number of them, when the deque is filled and     *)
(* drained in stages: it stays linked and ordered, no buffer is lost or    *)
(* left dangling, pops take elements, and size is exact.                   *)
(***************************************************************************)
EXTENDS UnboundedDequeChain, UnboundedDequeProofs, FiniteSetTheorems

USE DAssumption, ValueAssumption

(* Indices *)

LEMMA Moved ==
  ASSUME NEW e \in End, NEW i \in Slots
  PROVE  /\ Inward(e, i) = IF e = LEFT THEN IF i = D - 1 THEN 0 ELSE i + 1
                           ELSE IF i = 0 THEN D - 1 ELSE i - 1
         /\ Outward(e, i) = IF e = LEFT THEN IF i = 0 THEN D - 1 ELSE i - 1
                            ELSE IF i = D - 1 THEN 0 ELSE i + 1
<1>1. \A j \in 0 .. D : j % D = IF j = D THEN 0 ELSE j
  OBVIOUS
<1>2. (-1) % D = D - 1
  OBVIOUS
<1>3. i + 1 \in 0 .. D /\ (i - 1 = -1 \/ i - 1 \in 0 .. D - 1)
  BY DEF Slots
<1>4. (i + 1) % D = IF i = D - 1 THEN 0 ELSE i + 1
  BY <1>1, <1>3 DEF Slots
<1>5. (i - 1) % D = IF i = 0 THEN D - 1 ELSE i - 1
  BY <1>1, <1>2, <1>3 DEF Slots
<1>6. QED
  BY <1>4, <1>5 DEF Inward, Outward

\* The edges, the nodes next to them, and moves between them.
LEMMA Indices ==
  ASSUME NEW e \in End
  PROVE  /\ Slots = Inner \cup {Rim(e), Far(e)} /\ Inner \subseteq Slots
         /\ Rim(e) # Far(e) /\ Rim(e) \notin Inner /\ Far(e) \notin Inner
         /\ Entry(e) \in Inner /\ Inward(e, Rim(e)) \in Inner
         /\ Entry(e) # Inward(e, Rim(e))
         /\ Outward(e, Rim(e)) = Far(e) /\ Inward(e, Far(e)) = Rim(e)
         /\ \A i \in Slots : /\ Inward(e, i) \in Slots /\ Outward(e, i) \in Slots
                             /\ Inward(e, Outward(e, i)) = i
                             /\ Outward(e, Inward(e, i)) = i
<1>1. e = LEFT \/ (e = RIGHT /\ e # LEFT)
  BY DEF End, LEFT, RIGHT
<1>2. Slots = Inner \cup {Rim(e), Far(e)} /\ Inner \subseteq Slots
  BY <1>1 DEF Slots, Inner, Rim, Far
<1>3. Rim(e) # Far(e) /\ Rim(e) \notin Inner /\ Far(e) \notin Inner
  BY <1>1 DEF Inner, Rim, Far
<1>4. Rim(e) \in Slots /\ Far(e) \in Slots
  BY <1>2
<1>5. /\ Entry(e) = IF e = LEFT THEN D - 2 ELSE 1
      /\ Inward(e, Rim(e)) = IF e = LEFT THEN 1 ELSE D - 2
      /\ Outward(e, Rim(e)) = Far(e) /\ Inward(e, Far(e)) = Rim(e)
  BY <1>1, <1>4, Moved DEF Entry, Rim, Far
<1>6. Entry(e) \in Inner /\ Inward(e, Rim(e)) \in Inner /\ Entry(e) # Inward(e, Rim(e))
  BY <1>1, <1>5 DEF Inner
<1>7. \A i \in Slots : Inward(e, i) \in Slots /\ Outward(e, i) \in Slots
  BY SlotType
<1>8. \A i \in Slots : Inward(e, Outward(e, i)) = i /\ Outward(e, Inward(e, i)) = i
  BY <1>1, <1>7, Moved DEF Slots
<1>9. QED
  BY <1>2, <1>3, <1>5, <1>6, <1>7, <1>8

\* What is outwards at one end is inwards at the other.
LEMMA Opposites ==
  ASSUME NEW e \in End
  PROVE  /\ Opposite(e) \in End /\ Opposite(e) # e /\ Opposite(Opposite(e)) = e
         /\ End = {e, Opposite(e)}
         /\ Own(Opposite(e)) = Other(e) /\ Other(Opposite(e)) = Own(e)
         /\ Rim(Opposite(e)) = Far(e) /\ Far(Opposite(e)) = Rim(e)
         /\ \A i \in Slots : /\ Inward(Opposite(e), i) = Outward(e, i)
                             /\ Outward(Opposite(e), i) = Inward(e, i)
         /\ Entry(Opposite(e)) = Inward(e, Rim(e))
<1>1. LEFT # RIGHT
  BY DEF LEFT, RIGHT
<1>2. \A i \in Slots : /\ Inward(Opposite(e), i) = Outward(e, i)
                       /\ Outward(Opposite(e), i) = Inward(e, i)
  BY <1>1 DEF Opposite, End, Inward, Outward
<1>3. QED
  BY <1>1, <1>2, Indices DEF Opposite, End, Own, Other, Rim, Far, Entry

LEMMA NullFacts ==
  ASSUME NEW e \in End
  PROVE  /\ {Own(e), Other(e)} = {LNULL, RNULL} /\ Own(e) # Other(e)
         /\ {LNULL, RNULL} \cap (Elts \cup Buffers) = {} /\ Elts \cap Buffers = {}
         /\ NULL \notin Elts \cup Buffers
BY DEF Own, Other, End, LNULL, RNULL, LEFT, RIGHT
-----------------------------------------------------------------------------
(* The buffers that links lead to *)

LEMMA ReachedIn ==
  ASSUME NEW S \in SUBSET Buffers, NEW e \in End, NEW b \in S,
         \A x \in S : Link(x, e) \in Buffers => Link(x, e) \in S
  PROVE  Reached(b, e) \subseteq S
BY DEF Reached

LEMMA ReachedStart ==
  ASSUME NEW b \in Buffers, NEW e \in End
  PROVE  b \in Reached(b, e)
BY DEF Reached

LEMMA ReachedStep ==
  ASSUME NEW b \in Buffers, NEW e \in End, NEW c \in Reached(b, e), Link(c, e) \in Buffers
  PROVE  Link(c, e) \in Reached(b, e)
BY DEF Reached

LEMMA ReachedOn ==
  ASSUME NEW b \in Buffers, NEW e \in End, NEW c \in Reached(b, e)
  PROVE  Reached(c, e) \subseteq Reached(b, e)
<1>1. Reached(b, e) \in SUBSET Buffers
  BY DEF Reached
<1>2. QED
  BY <1>1, ReachedStep, ReachedIn

\* As long as the links among the buffers of A stay, what can be reached from
\* one of them can still be reached.
LEMMA ReachedGrows ==
  ASSUME NEW A \in SUBSET Buffers, NEW e \in End, NEW b \in A,
         \A x \in A : Link(x, e) \in Buffers =>
           Link(x, e) \in A /\ Link(x, e)' = Link(x, e)
  PROVE  Reached(b, e) \subseteq Reached(b, e)'
<1> SUFFICES ASSUME NEW c \in Reached(b, e), NEW S \in SUBSET Buffers, b \in S,
                    \A x \in S : Link(x, e)' \in Buffers => Link(x, e)' \in S
             PROVE  c \in S
  BY DEF Reached
<1>1. \A x \in S \cap A : Link(x, e) \in Buffers => Link(x, e) \in S \cap A
  OBVIOUS
<1>2. Reached(b, e) \subseteq S \cap A
  BY <1>1, ReachedIn
<1>3. QED
  BY <1>2

LEMMA AttachedFacts ==
  ASSUME MemInv, InvLinks
  PROVE  /\ Attached \subseteq Buffers /\ Attached \subseteq heap \ lost
         /\ lost \subseteq heap /\ lost \subseteq Public
         /\ \A b \in Attached, e \in End : Link(b, e) \in Attached \cup {Own(e)}
<1>1. /\ Attached \subseteq Buffers /\ Attached \subseteq heap \ lost
      /\ lost \subseteq heap /\ lost \subseteq Public
  BY DEF MemInv, TypeOK, Attached, Public, InvLinks
<1>2. QED
  BY <1>1 DEF InvLinks, Linked

\* The chain is all that is attached.
LEMMA ChainAttached == MemInv /\ InvLinks /\ InvHints => Chain = Attached
<1> SUFFICES ASSUME MemInv, InvLinks, InvHints PROVE Chain = Attached
  OBVIOUS
<1>1. hint[LEFT].buf \in Attached /\ Attached \in SUBSET Buffers /\ End = {LEFT, RIGHT}
  BY AttachedFacts DEF InvHints, End
<1>2. \A e \in End : Reached(hint[LEFT].buf, e) \subseteq Attached
  BY <1>1, ReachedIn DEF InvLinks
<1>3. Attached \subseteq Reached(hint[LEFT].buf, LEFT) \cup Reached(hint[LEFT].buf, RIGHT)
  BY <1>1 DEF InvLinks
<1>4. QED
  BY <1>1, <1>2, <1>3 DEF Chain

-----------------------------------------------------------------------------
(* Links and order after a step *)

\* A step that changes no link leaves the chain as it was; what it stores
\* between the edges may still upset the order.
LEMMA LinksKept ==
  ASSUME MemInv, InvLinks, Attached' = Attached, lost' \subseteq Public',
         \A b \in Attached, e \in End : Link(b, e)' = Link(b, e),
         \A b \in Attached, e \in End :
           Ordered(b, e)' /\ (stage' = "fill" => mem'[b][Entry(e)].value # Own(e))
  PROVE  InvLinks'
<1>1. /\ Attached \in SUBSET Buffers
      /\ \A b \in Attached, e \in End : Link(b, e) \in Buffers => Link(b, e) \in Attached
  BY AttachedFacts DEF InvLinks
<1>2. \A b \in Attached, e \in End : Linked(b, e)'
  <2> SUFFICES ASSUME NEW b \in Attached, NEW e \in End PROVE Linked(b, e)'
    OBVIOUS
  <2>1. Linked(b, e) /\ Opposite(e) \in End
    BY Opposites DEF InvLinks
  <2>2. /\ \A c \in Attached, f \in End : mem'[c][Rim(f)].value = mem[c][Rim(f)].value
        /\ mem[b][Rim(e)].value \in Buffers => mem[b][Rim(e)].value \in Attached
    BY <1>1 DEF Link
  <2>3. QED
    BY <2>1, <2>2 DEF Linked, Link
<1>3. \A b \in Attached, e \in End : Reached(b, e) \subseteq Reached(b, e)'
  <2> SUFFICES ASSUME NEW b \in Attached, NEW e \in End
               PROVE  Reached(b, e) \subseteq Reached(b, e)'
    OBVIOUS
  <2>1. \A x \in Attached : Link(x, e) \in Buffers => Link(x, e) \in Attached /\ Link(x, e)' = Link(x, e)
    BY <1>1
  <2>2. QED
    BY <1>1, <2>1, ReachedGrows
<1>4. \A b \in Attached : Attached \subseteq Reached(b, LEFT)' \cup Reached(b, RIGHT)'
  BY <1>3 DEF InvLinks, End
<1>5. \A e \in End : \E b \in Attached : Link(b, e)' = Own(e)
  BY DEF InvLinks
<1>6. QED
  BY <1>1, <1>2, <1>4, <1>5 DEF InvLinks

\* Ordered speaks of values only.
LEMMA OrderedSame ==
  ASSUME MemInv, InvLinks, NEW b \in Attached, NEW e \in End,
         \A c \in Attached, i \in Slots : mem'[c][i].value = mem[c][i].value
  PROVE  Ordered(b, e)'
<1>1. /\ Ordered(b, e) /\ (Link(b, e) \in Buffers => Link(b, e) \in Attached)
      /\ Link(b, e)' = Link(b, e)
  BY Indices DEF InvLinks, Link
<1>2. /\ Inner \subseteq Slots /\ Entry(e) \in Slots /\ Inward(e, Rim(e)) \in Slots
      /\ \A i \in Inner : Outward(e, i) \in Slots
  BY Indices
<1>3. QED
  BY <1>1, <1>2 DEF Ordered

LEMMA LinksSame ==
  ASSUME MemInv, InvLinks, Attached' = Attached, lost' \subseteq Public',
         \A c \in Attached, i \in Slots : mem'[c][i].value = mem[c][i].value,
         stage' = "fill" => stage = "fill"
  PROVE  InvLinks'
<1>1. \A b \in Attached, e \in End : Link(b, e)' = Link(b, e)
  BY Indices DEF Link
<1>2. \A b \in Attached, e \in End : stage' = "fill" => mem'[b][Entry(e)].value # Own(e)
  BY Indices DEF InvLinks
<1>3. QED
  BY <1>1, <1>2, OrderedSame, LinksKept

\* What Ordered says, with Link written out.
LEMMA OrderedMeans ==
  ASSUME NEW b, NEW e \in End
  PROVE  /\ Ordered(b, e) <=>
              /\ \A j \in Inner :
                   /\ mem[b][j].value \notin Buffers
                   /\ mem[b][j].value = Own(e) =>
                        mem[b][Outward(e, j)].value \in Buffers \cup {Own(e)}
              /\ mem[b][Rim(e)].value \in Buffers /\ mem[b][Inward(e, Rim(e))].value = Own(e)
                   => mem[mem[b][Rim(e)].value][Entry(e)].value = Own(e)
         /\ Ordered(b, e)' <=>
              /\ \A j \in Inner :
                   /\ mem'[b][j].value \notin Buffers
                   /\ mem'[b][j].value = Own(e) =>
                        mem'[b][Outward(e, j)].value \in Buffers \cup {Own(e)}
              /\ mem'[b][Rim(e)].value \in Buffers /\ mem'[b][Inward(e, Rim(e))].value = Own(e)
                   => mem'[mem'[b][Rim(e)].value][Entry(e)].value = Own(e)
BY DEF Ordered, Link

\* An element that is the outermost at end e gives way to a null.
LEMMA OrderedPop ==
  ASSUME MemInv, InvLinks, NEW e \in End, NEW b \in Attached, NEW i \in Inner,
         mem[b][i].value \in Elts,
         \/ mem[b][Outward(e, i)].value = Own(e)
         \/ /\ Outward(e, i) = Rim(e) /\ Link(b, e) \in Buffers
            /\ mem[Link(b, e)][Entry(e)].value = Own(e),
         \A c \in Attached, j \in Slots :
           mem'[c][j].value = IF c = b /\ j = i THEN Own(e) ELSE mem[c][j].value,
         NEW c \in Attached, NEW f \in End
  PROVE  Ordered(c, f)'
<1> DEFINE next == mem[c][Rim(f)].value
<1>1. /\ \A x \in Attached, y \in End : Ordered(x, y) /\ (Link(x, y) \in Buffers => Link(x, y) \in Attached)
      /\ f = e \/ (f = Opposite(e) /\ Own(f) = Other(e))
  BY Opposites DEF InvLinks
<1>2. /\ Inner \subseteq Slots /\ Rim(f) \in Slots /\ Rim(f) \notin Inner /\ Rim(e) \notin Inner
      /\ Entry(f) \in Slots /\ Inward(f, Rim(f)) \in Inner
      /\ \A j \in Inner : Outward(f, j) \in Slots
      /\ Inward(e, Outward(e, i)) = i /\ \A j \in Slots : Outward(e, Inward(e, j)) = j
  BY Indices
<1>3. Own(e) \notin Elts \cup Buffers /\ Other(e) \notin Elts \cup Buffers /\ Own(e) # Other(e)
  BY NullFacts
<1>4. mem'[c][Rim(f)].value = next /\ (next \in Buffers => next \in Attached)
  BY <1>1, <1>2 DEF Link
<1>5. \A j \in Inner : mem'[c][j].value \notin Buffers
  BY <1>1, <1>2, <1>3, OrderedMeans
<1>6. ASSUME NEW j \in Inner, mem'[c][j].value = Own(f)
      PROVE  mem'[c][Outward(f, j)].value \in Buffers \cup {Own(f)}
  <2>1. CASE f = e
    BY <1>1, <1>2, <1>6, <2>1, OrderedMeans DEF Link
  <2>2. CASE f = Opposite(e) /\ Own(f) = Other(e)
    BY <1>1, <1>2, <1>3, <1>6, <2>2, OrderedMeans
  <2>3. QED
    BY <1>1, <2>1, <2>2
<1>7. ASSUME next \in Buffers, mem'[c][Inward(f, Rim(f))].value = Own(f)
      PROVE  mem'[next][Entry(f)].value = Own(f)
  <2>1. CASE f = e
    <3>1. mem[next][Entry(e)].value = Own(e)
      <4>1. CASE c = b /\ Inward(e, Rim(e)) = i
        BY <1>2, <1>3, <1>7, <2>1, <4>1 DEF Link
      <4>2. CASE ~(c = b /\ Inward(e, Rim(e)) = i)
        BY <1>1, <1>2, <1>7, <2>1, <4>2, OrderedMeans
      <4>3. QED
        BY <4>1, <4>2
    <3>2. QED
      BY <1>2, <1>4, <1>7, <2>1, <3>1
  <2>2. CASE f = Opposite(e) /\ Own(f) = Other(e)
    BY <1>1, <1>2, <1>3, <1>4, <1>7, <2>2, OrderedMeans
  <2>3. QED
    BY <1>1, <2>1, <2>2
<1>8. QED
  BY <1>4, <1>5, <1>6, <1>7, OrderedMeans

\* An element takes the place of a null whose inner neighbour is none.
LEMMA OrderedPush ==
  ASSUME MemInv, InvLinks, NEW e \in End, NEW b \in Attached, NEW i \in Inner,
         mem[b][i].value = Own(e), NEW v \in Elts,
         IF i = Entry(e)
         THEN \A x \in Attached : Link(x, e) = b => mem[x][Inward(e, Rim(e))].value # Own(e)
         ELSE mem[b][Inward(e, i)].value # Own(e),
         \A c \in Attached, j \in Slots :
           mem'[c][j].value = IF c = b /\ j = i THEN v ELSE mem[c][j].value,
         NEW c \in Attached, NEW f \in End
  PROVE  Ordered(c, f)'
<1> DEFINE next == mem[c][Rim(f)].value
<1>1. /\ \A x \in Attached, y \in End : Ordered(x, y) /\ (Link(x, y) \in Buffers => Link(x, y) \in Attached)
      /\ f = e \/ (f = Opposite(e) /\ Own(f) = Other(e))
  BY Opposites DEF InvLinks
<1>2. /\ Inner \subseteq Slots /\ Rim(f) \in Slots /\ Rim(f) \notin Inner /\ Rim(e) \notin Inner
      /\ Far(e) \notin Inner
      /\ Entry(f) \in Slots /\ Inward(f, Rim(f)) \in Inner
      /\ \A j \in Inner : Outward(f, j) \in Slots
      /\ \A j \in Slots : Outward(e, Inward(e, j)) = j /\ Inward(e, Outward(e, j)) = j
      /\ Inward(e, Entry(e)) = Far(e)
  BY Indices DEF Entry
<1>3. /\ Own(e) \notin Elts \cup Buffers /\ Other(e) \notin Elts \cup Buffers /\ Own(e) # Other(e)
      /\ v \notin Buffers
  BY NullFacts
<1>4. mem'[c][Rim(f)].value = next /\ (next \in Buffers => next \in Attached)
  BY <1>1, <1>2 DEF Link
<1>5. \A j \in Inner : mem'[c][j].value \notin Buffers
  BY <1>1, <1>2, <1>3, OrderedMeans
<1>6. ASSUME NEW j \in Inner, mem'[c][j].value = Own(f)
      PROVE  mem'[c][Outward(f, j)].value \in Buffers \cup {Own(f)}
  <2>1. /\ ~(c = b /\ j = i) /\ mem[c][j].value = Own(f)
        /\ mem[c][Outward(f, j)].value \in Buffers \cup {Own(f)}
    BY <1>1, <1>2, <1>3, <1>6, OrderedMeans
  <2>2. ~(c = b /\ Outward(f, j) = i)
    <3>1. CASE f = e
      BY <1>2, <1>3, <2>1, <3>1
    <3>2. CASE f = Opposite(e) /\ Own(f) = Other(e)
      BY <1>1, <1>2, <1>3, <2>1, <3>2, OrderedMeans
    <3>3. QED
      BY <1>1, <3>1, <3>2
  <2>3. QED
    BY <1>2, <2>1, <2>2
<1>7. ASSUME next \in Buffers, mem'[c][Inward(f, Rim(f))].value = Own(f)
      PROVE  mem'[next][Entry(f)].value = Own(f)
  <2>1. /\ mem[c][Inward(f, Rim(f))].value = Own(f) /\ mem[next][Entry(f)].value = Own(f)
    BY <1>1, <1>2, <1>3, <1>7, OrderedMeans
  <2>2. ~(next = b /\ Entry(f) = i)
    <3>1. CASE f = e
      BY <1>2, <1>3, <2>1, <3>1 DEF Link
    <3>2. CASE f = Opposite(e) /\ Own(f) = Other(e)
      BY <1>3, <2>1, <3>2
    <3>3. QED
      BY <1>1, <3>1, <3>2
  <2>3. QED
    BY <1>2, <1>4, <1>7, <2>1, <2>2
<1>8. QED
  BY <1>4, <1>5, <1>6, <1>7, OrderedMeans

LEMMA NewBufferValues ==
  ASSUME NEW e \in End, NEW b, NEW v, NEW i \in Slots
  PROVE  NewBuffer(e, b, v)[i].value = IF i = Far(e) THEN b ELSE IF i = Entry(e) THEN v ELSE Own(e)
BY Indices DEF NewBuffer, SetNode, Blank

\* ReachedStart, ReachedStep and ReachedOn, of the next state.
LEMMA ReachedNext ==
  ASSUME NEW b \in Buffers, NEW e \in End
  PROVE  /\ b \in Reached(b, e)'
         /\ \A c \in Buffers : c \in Reached(b, e)' =>
              /\ mem'[c][Rim(e)].value \in Buffers => mem'[c][Rim(e)].value \in Reached(b, e)'
              /\ Reached(c, e)' \subseteq Reached(b, e)'
<1>1. b \in Reached(b, e)'
  BY DEF Reached
<1>2. \A c \in Reached(b, e)' :
        mem'[c][Rim(e)].value \in Buffers => mem'[c][Rim(e)].value \in Reached(b, e)'
  BY DEF Reached, Link
<1>3. Reached(b, e)' \in SUBSET Buffers
  BY DEF Reached
<1>4. \A c \in Buffers, S \in SUBSET Buffers :
        c \in S /\ (\A x \in S : mem'[x][Rim(e)].value \in Buffers => mem'[x][Rim(e)].value \in S)
          => Reached(c, e)' \subseteq S
  BY DEF Reached, Link
<1>5. QED
  BY <1>1, <1>2, <1>3, <1>4

\* Buffer n is linked to the last buffer b at end e, next to an element or to
\* a null of the other end.
LEMMA LinksAttach ==
  ASSUME MemInv, InvLinks, NEW e \in End, NEW b \in Attached, NEW n \in Buffers \ Attached,
         NEW v \in Elts, Link(b, e) = Own(e), mem[b][Inward(e, Rim(e))].value # Own(e),
         mem[n] = NewBuffer(e, b, v), Attached' = Attached \cup {n}, lost' \subseteq Public',
         \A c \in Attached \cup {n}, j \in Slots :
           mem'[c][j].value = IF c = b /\ j = Rim(e) THEN n ELSE mem[c][j].value,
         stage' = stage
  PROVE  InvLinks'
<1> DEFINE val(c, j) == mem[c][j].value
           o == Opposite(e)
<1>1. /\ Attached \in SUBSET Buffers
      /\ \A x \in Attached, y \in End : /\ Ordered(x, y) /\ Linked(x, y)
                                        /\ val(x, Rim(y)) \in Buffers => val(x, Rim(y)) \in Attached
                                        /\ stage = "fill" => val(x, Entry(y)) # Own(y)
  BY AttachedFacts DEF InvLinks, Link
<1>2. /\ o \in End /\ o # e /\ End = {e, o} /\ Own(o) = Other(e) /\ Own(e) # Other(e)
      /\ Rim(o) = Far(e) /\ Far(o) = Rim(e) /\ Opposite(o) = e
      /\ Entry(o) = Inward(e, Rim(e)) /\ Inward(o, Rim(o)) = Entry(e)
      /\ \A i \in Slots : Outward(o, i) = Inward(e, i)
  BY Opposites, NullFacts, Indices DEF Entry
<1>3. /\ Slots = Inner \cup {Rim(e), Far(e)} /\ Inner \subseteq Slots /\ Rim(e) # Far(e)
      /\ Rim(e) \notin Inner /\ Far(e) \notin Inner
      /\ Entry(e) \in Inner /\ Entry(o) \in Inner /\ Entry(e) # Entry(o)
      /\ \A i \in Inner : Outward(e, i) \in Slots /\ Inward(e, i) \in Slots
      /\ \A i \in Inner : Outward(e, i) # Far(e) /\ Outward(e, i) # Entry(e)
      /\ \A i \in Inner : Inward(e, i) # Rim(e)
  BY <1>2, Indices
<1>4. /\ Own(e) \notin Elts \cup Buffers /\ Other(e) \notin Elts \cup Buffers /\ v \notin Buffers
  BY NullFacts
<1>5. \A j \in Slots : val(n, j) = IF j = Far(e) THEN b ELSE IF j = Entry(e) THEN v ELSE Own(e)
  BY NewBufferValues
<1>6. /\ \A c \in Attached, j \in Inner \cup {Far(e)} : mem'[c][j].value = val(c, j)
      /\ \A c \in Attached \ {b}, j \in Slots : mem'[c][j].value = val(c, j)
      /\ mem'[b][Rim(e)].value = n
      /\ \A j \in Slots : mem'[n][j].value = val(n, j)
  BY <1>3
<1>7. val(b, Rim(e)) = Own(e) /\ val(b, Entry(o)) # Own(e)
  BY <1>2 DEF Link
<1>8. \A c \in Attached \cup {n}, f \in End : mem'[c][Rim(f)].value \in Buffers => mem'[c][Rim(f)].value \in Attached \cup {n}
  BY <1>1, <1>2, <1>3, <1>4, <1>5, <1>6
<1>9. \A c \in Attached, f \in End :
        /\ val(c, Rim(f)) \in Buffers => val(val(c, Rim(f)), Rim(Opposite(f))) = c
        /\ val(c, Rim(f)) \notin Buffers => val(c, Rim(f)) = Own(f)
  BY <1>1 DEF Linked, Link
<1>10. ASSUME NEW c \in Attached \cup {n}, NEW f \in End PROVE Linked(c, f)'
  <2>1. CASE c = n
    <3>1. mem'[n][Rim(e)].value = Own(e) /\ mem'[n][Rim(o)].value = b
      BY <1>2, <1>3, <1>5, <1>6
    <3>2. Linked(n, e)'
      BY <1>4, <3>1 DEF Linked, Link
    <3>3. Linked(n, o)'
      BY <1>1, <1>2, <1>6, <3>1 DEF Linked, Link
    <3>4. QED
      BY <1>2, <2>1, <3>2, <3>3
  <2>2. CASE c \in Attached /\ f = e
    <3>1. CASE c = b
      BY <1>2, <1>3, <1>5, <1>6, <2>2, <3>1 DEF Linked, Link
    <3>2. CASE c # b
      BY <1>1, <1>2, <1>3, <1>6, <1>9, <2>2, <3>2 DEF Linked, Link
    <3>3. QED
      BY <3>1, <3>2
  <2>3. CASE c \in Attached /\ f = o
    <3>1. mem'[c][Rim(o)].value = val(c, Rim(o))
      BY <1>2, <1>6, <2>3
    <3>2. CASE val(c, Rim(o)) \in Buffers
      <4>1. val(c, Rim(o)) \in Attached /\ val(val(c, Rim(o)), Rim(e)) = c
        BY <1>1, <1>2, <1>9, <2>3, <3>2
      <4>2. val(c, Rim(o)) # b
        BY <1>1, <1>4, <1>7, <2>3, <4>1
      <4>3. mem'[val(c, Rim(o))][Rim(e)].value = c
        BY <1>3, <1>6, <4>1, <4>2
      <4>4. QED
        BY <1>2, <2>3, <3>1, <3>2, <4>3 DEF Linked, Link
    <3>3. CASE val(c, Rim(o)) \notin Buffers
      BY <1>9, <2>3, <3>1, <3>3 DEF Linked, Link
    <3>4. QED
      BY <3>2, <3>3
  <2>4. QED
    BY <1>2, <1>10, <2>1, <2>2, <2>3
<1>11. ASSUME NEW c \in Attached \cup {n}, NEW f \in End PROVE Ordered(c, f)'
  <2>1. CASE c = n /\ f = e
    BY <1>3, <1>4, <1>5, <1>6, <2>1, OrderedMeans
  <2>2. CASE c = n /\ f = o
    BY <1>2, <1>3, <1>4, <1>5, <1>6, <2>2, OrderedMeans
  <2>3. CASE c \in Attached /\ f = e
    <3>1. Ordered(c, e)
      BY <1>1, <2>3
    <3>2. \A j \in Inner : /\ mem'[c][j].value = val(c, j)
                           /\ Outward(e, j) # Rim(e) => mem'[c][Outward(e, j)].value = val(c, Outward(e, j))
      BY <1>3, <1>6, <2>3
    <3>3. mem'[c][Rim(e)].value = IF c = b THEN n ELSE val(c, Rim(e))
      BY <1>3, <1>6, <2>3
    <3>4. ASSUME c # b, val(c, Rim(e)) \in Buffers
          PROVE  mem'[val(c, Rim(e))][Entry(e)].value = val(val(c, Rim(e)), Entry(e))
      BY <1>1, <1>2, <1>3, <1>6, <2>3, <3>4
    <3>5. \A j \in Inner : /\ mem'[c][j].value \notin Buffers
                           /\ mem'[c][j].value = Own(e) =>
                                mem'[c][Outward(e, j)].value \in Buffers \cup {Own(e)}
      BY <3>1, <3>2, <3>3, OrderedMeans
    <3>6. mem'[c][Rim(e)].value \in Buffers /\ mem'[c][Inward(e, Rim(e))].value = Own(e)
            => mem'[mem'[c][Rim(e)].value][Entry(e)].value = Own(e)
      BY <1>2, <1>3, <1>7, <3>1, <3>2, <3>3, <3>4, OrderedMeans
    <3>7. QED
      BY <2>3, <3>5, <3>6, OrderedMeans
  <2>4. CASE c \in Attached /\ f = o
    <3>1. Ordered(c, o)
      BY <1>1, <1>2, <2>4
    <3>2. /\ mem'[c][Rim(o)].value = val(c, Rim(o)) /\ mem'[c][Entry(e)].value = val(c, Entry(e))
          /\ \A j \in Inner : /\ mem'[c][j].value = val(c, j)
                              /\ mem'[c][Outward(o, j)].value = val(c, Outward(o, j))
      BY <1>2, <1>3, <1>6, <2>4
    <3>3. val(c, Rim(o)) \in Buffers => mem'[val(c, Rim(o))][Entry(o)].value = val(val(c, Rim(o)), Entry(o))
      BY <1>1, <1>2, <1>3, <1>6, <2>4
    <3>4. QED
      BY <1>2, <2>4, <3>1, <3>2, <3>3, OrderedMeans
  <2>5. QED
    BY <1>2, <1>11, <2>1, <2>2, <2>3, <2>4
<1>12. \A f \in End : \E c \in Attached \cup {n} : Link(c, f)' = Own(f)
  <2>1. mem'[n][Rim(e)].value = Own(e)
    BY <1>3, <1>5, <1>6
  <2>2. PICK c \in Attached : Link(c, o) = Own(o)
    BY <1>2 DEF InvLinks
  <2>3. mem'[c][Rim(o)].value = Own(o)
    BY <1>2, <1>6, <2>2 DEF Link
  <2>4. QED
    BY <1>2, <2>1, <2>3 DEF Link
<1>13. \A c \in Attached \cup {n}, f \in End : stage' = "fill" => mem'[c][Entry(f)].value # Own(f)
  <2>1. ASSUME stage = "fill", NEW c \in Attached, NEW f \in End PROVE mem'[c][Entry(f)].value # Own(f)
    BY <1>1, <1>2, <1>3, <1>6, <2>1
  <2>2. ASSUME NEW f \in End PROVE mem'[n][Entry(f)].value # Own(f)
    BY <1>2, <1>3, <1>4, <1>5, <1>6
  <2>3. QED
    BY <2>1, <2>2
<1>14. \A c \in Attached \cup {n} : Attached \cup {n} \subseteq Reached(c, e)' \cup Reached(c, o)'
  <2>1. ASSUME NEW c \in Attached, NEW f \in End PROVE Reached(c, f) \subseteq Reached(c, f)'
    <3>1. \A x \in Attached : Link(x, f) \in Buffers => Link(x, f) \in Attached /\ Link(x, f)' = Link(x, f)
      BY <1>1, <1>2, <1>3, <1>4, <1>6, <1>7 DEF Link
    <3>2. QED
      BY <1>1, <3>1, ReachedGrows
  <2>2. \A c \in Attached : Attached \subseteq Reached(c, e) \cup Reached(c, o)
    BY <1>2 DEF InvLinks, End
  <2>3. ASSUME NEW c \in Attached, c # b PROVE b \notin Reached(c, o)
    <3>1. \A x \in Attached \ {b} : Link(x, o) \in Buffers => Link(x, o) \in Attached \ {b}
      BY <1>1, <1>2, <1>4, <1>7, <1>9 DEF Link
    <3>2. Reached(c, o) \subseteq Attached \ {b}
      BY <1>1, <1>2, <2>3, <3>1, ReachedIn
    <3>3. QED
      BY <3>2
  <2>4. mem'[b][Rim(e)].value = n /\ mem'[n][Rim(o)].value = b
    BY <1>2, <1>3, <1>5, <1>6
  <2>5. ASSUME NEW c \in Attached PROVE Attached \cup {n} \subseteq Reached(c, e)' \cup Reached(c, o)'
    <3>1. b \in Reached(c, e)
      BY <1>1, <2>2, <2>3, ReachedStart
    <3>2. n \in Reached(c, e)'
      BY <1>1, <2>1, <2>4, <3>1, ReachedNext
    <3>3. QED
      BY <1>2, <2>1, <2>2, <3>2
  <2>6. Attached \cup {n} \subseteq Reached(n, e)' \cup Reached(n, o)'
    <3>1. n \in Reached(n, o)' /\ b \in Reached(n, o)'
      BY <1>1, <1>2, <2>4, ReachedNext
    <3>2. Reached(b, o)' \subseteq Reached(n, o)'
      BY <1>1, <1>2, <3>1, ReachedNext
    <3>3. Reached(b, e) \subseteq {b}
      <4>1. {b} \in SUBSET Buffers /\ \A x \in {b} : Link(x, e) \notin Buffers
        BY <1>1, <1>4, <1>7 DEF Link
      <4>2. QED
        BY <4>1, ReachedIn
    <3>4. QED
      BY <1>2, <2>1, <2>2, <3>1, <3>2, <3>3
  <2>7. QED
    BY <2>5, <2>6
<1>15. QED
  <2>1. \A c \in Attached', f \in End : Link(c, f)' \in Buffers => Link(c, f)' \in Attached'
    BY <1>8 DEF Link
  <2>2. \A c \in Attached' : Attached' \subseteq Reached(c, LEFT)' \cup Reached(c, RIGHT)'
    BY <1>2, <1>14 DEF End
  <2>3. QED
    BY <1>10, <1>11, <1>12, <1>13, <2>1, <2>2 DEF InvLinks

-----------------------------------------------------------------------------
(* What a step of t means for the others *)

\* Nodes get newer, links stay, a fill makes no node empty, and a drain fills
\* no empty one.
Gentle ==
  \A p \in Place : p.buf \in Attached =>
    LET m == NodeAt(p)
        n == mem'[p.buf][p.idx]
    IN
    /\ Older(m, n)
    /\ m.value \in Buffers => n.value = m.value
    /\ stage = "fill" => n.value = m.value \/ n.value \notin {LNULL, RNULL}
    /\ stage = "drain" /\ m.value \in {LNULL, RNULL} => n.value = m.value

\* A thread that is idle has nothing to be right about.
LEMMA IdleHolds ==
  ASSUME MemInv, NEW t \in Threads, pc[t] = "idle"
  PROVE  Aimed(t) /\ Scanning(t) /\ Informed(t)
<1>1. Forgotten(t) /\ ~Attaching(t) /\ NULL \notin Buffers
  BY Knowledge DEF Placed, Attaching
<1>2. QED
  BY <1>1 DEF Forgotten, Aimed, Scanning, Informed, AttachedPlace, Working, Decided

\* Where a thread works, all is attached.
LEMMA PlacesAttached ==
  ASSUME MemInv, InvThreads, NEW t \in Threads
  PROVE  /\ end[t] \in End /\ op[t] \in Op
         /\ pc[t] \notin {"idle", "oracleHint"} =>
              /\ k[t] \in Place /\ k[t].buf \in Attached
              /\ In(end[t], k[t]) \in Place /\ In(end[t], k[t]).buf = k[t].buf
         /\ pc[t] \in {"climb", "scanOuter", "scanInner", "scanNext"} =>
              at[t] \in Place /\ at[t].buf \in Attached
         /\ pc[t] \in {"cas1", "cas2"} /\ Straddles(t) =>
              side[t] \in Attached /\ PeekPlace(t) \in Place /\ PeekPlace(t).buf = side[t]
<1>1. /\ TypeOK /\ Placed(t) /\ Aimed(t) /\ end[t] \in End /\ op[t] \in Op
  BY Knowledge DEF InvThreads
<1>2. pc[t] \notin {"idle", "oracleHint"} => k[t] \in Place /\ k[t].buf \in Attached
  BY <1>1, NowherePlace DEF Placed, Aimed, AttachedPlace
<1>3. pc[t] \in {"climb", "scanOuter", "scanInner", "scanNext"} => at[t] \in Place /\ at[t].buf \in Attached
  BY <1>1, NowherePlace DEF Placed, Aimed, AttachedPlace
<1>4. pc[t] \in {"cas1", "cas2"} /\ Straddles(t) =>
        side[t] \in Attached /\ PeekPlace(t) \in Place /\ PeekPlace(t).buf = side[t]
  BY <1>1, StraddlesOrAttaches, SlotType DEF Placed, Aimed, PeekPlace, Place
<1>5. QED
  BY <1>1, <1>2, <1>3, <1>4, PlaceType

LEMMA OtherHolds ==
  ASSUME MemInv, MemInv', InvStage, InvThreads, NEW t \in Busy, Steady(t), UNCHANGED stage,
         Attached \subseteq Attached', Gentle,
         NEW u \in Threads, u # t, Attaching(u) => mem'[side[u]] = mem[side[u]]
  PROVE  Aimed(u)' /\ Scanning(u)' /\ Informed(u)'
<1> DEFINE e == end[u]
           val(p) == NodeAt(p).value
           new(p) == mem'[p.buf][p.idx].value
<1>0. /\ pc'[u] = pc[u] /\ end'[u] = e /\ op'[u] = op[u] /\ elt'[u] = elt[u]
      /\ k'[u] = k[u] /\ at'[u] = at[u] /\ saved'[u] = saved[u] /\ side'[u] = side[u]
      /\ inner'[u] = inner[u] /\ outer'[u] = outer[u] /\ peek'[u] = peek[u]
      /\ t \in Threads
  BY DEF Steady, Busy
<1>1. CASE pc[u] = "idle"
  <2>1. Forgotten(u)' /\ ~Attaching(u)' /\ NULL \notin Buffers
    BY <1>0, <1>1 DEF MemInv, InvPlaced, Placed, Attaching
  <2>2. QED
    BY <1>0, <1>1, <2>1 DEF Forgotten, Aimed, Scanning, Informed, AttachedPlace, Working, Decided
<1>2. CASE pc[u] # "idle"
  <2>1. stage \in {"fill", "drain"} /\ op[u] = IF stage = "drain" THEN POP ELSE PUSH
    BY <1>0, <1>2 DEF InvStage, Busy
  <2>2. /\ Aimed(u) /\ Scanning(u) /\ Informed(u) /\ Loaded(u) /\ e \in End
        /\ inner[u] \in Node /\ TypeOK
    BY Knowledge DEF InvThreads
  <2>3. /\ Straddles(u)' <=> Straddles(u)
        /\ Attaching(u)' <=> Attaching(u)
        /\ AtEdge(u)' <=> AtEdge(u)
    BY <1>0, OthersSame
  <2>4. ASSUME NEW p \in Place, p.buf \in Attached
        PROVE  /\ Older(NodeAt(p), mem'[p.buf][p.idx])
               /\ NodeAt(p) \in Node /\ mem'[p.buf][p.idx] \in Node
               /\ val(p) \in Buffers => new(p) = val(p)
               /\ stage = "fill" => new(p) = val(p) \/ new(p) \notin {LNULL, RNULL}
               /\ stage = "drain" /\ val(p) \in {LNULL, RNULL} => new(p) = val(p)
    <3>1. NodeAt(p) \in Node /\ mem'[p.buf][p.idx] \in Node
      BY <2>2, LoadType DEF MemInv, TypeOK, Place
    <3>2. QED
      BY <2>4, <3>1 DEF Gentle
  <2>5. Own(e) \in {LNULL, RNULL} /\ Other(e) \in {LNULL, RNULL}
    BY <2>2, NullFacts
  <2>6. Aimed(u)'
    <3>1. AttachedPlace(k[u])' /\ AttachedPlace(at[u])' /\ AttachedPlace(saved[u])'
      BY <1>0, <2>2 DEF Aimed, AttachedPlace
    <3>2. ASSUME pc[u] \in Working, stage # "fill", k[u].idx = Entry(e)
          PROVE  mem'[k[u].buf][Far(e)].value = Other(e)
      <4>1. k[u] \in Place /\ k[u].buf \in Attached
        BY <3>2, PlacesAttached DEF Working, Decided
      <4>2. [buf |-> k[u].buf, idx |-> Far(e)] \in Place
        BY <2>2, <4>1, SlotType DEF Place
      <4>3. mem[k[u].buf][Far(e)].value = Other(e)
        BY <2>2, <3>2 DEF Aimed
      <4>4. QED
        BY <2>1, <2>4, <2>5, <3>2, <4>1, <4>2, <4>3 DEF NodeAt
    <3>3. QED
      BY <1>0, <2>2, <2>3, <3>1, <3>2 DEF Aimed
  <2>7. Scanning(u)'
    <3>1. pc[u] \in {"scanOuter", "scanInner", "scanNext"} => at[u] \in Place /\ at[u].buf \in Attached
      BY PlacesAttached
    <3>2. NodeAt(at[u])'.value = mem'[at[u].buf][at[u].idx].value
      BY <1>0 DEF NodeAt
    <3>3. /\ pc[u] \in {"scanOuter", "scanInner"} /\ stage # "fill" =>
               at[u].idx = Rim(e) \/ NodeAt(at[u])'.value = Own(e)
          /\ pc[u] = "scanNext" /\ stage # "fill" => NodeAt(at[u])'.value \in Buffers
      BY <2>1, <2>2, <2>4, <2>5, <3>1, <3>2 DEF Scanning
    <3>4. QED
      BY <1>0, <2>2, <2>3, <3>3 DEF Scanning
  <2>8. Informed(u)'
    <3> DEFINE next == In(e, k[u])
    <3>1. pc[u] \in Decided \cup {"loadOuter"} =>
            k[u] \in Place /\ k[u].buf \in Attached /\ next \in Place /\ next.buf \in Attached
      BY PlacesAttached DEF Decided
    <3>2. /\ NodeAt(In(end[u], k[u]))' = mem'[next.buf][next.idx]
          /\ NodeAt(k[u])' = mem'[k[u].buf][k[u].idx]
          /\ NodeAt(PeekPlace(u))' = mem'[PeekPlace(u).buf][PeekPlace(u).idx]
          /\ Link(k[u].buf, end[u])' = mem'[k[u].buf][Rim(e)].value
      BY <1>0 DEF NodeAt, PeekPlace, Link
    <3>3. pc[u] \in Decided =>
            /\ inner[u].value # Own(e)
            /\ ~Straddles(u) => outer[u].value = Own(e) /\ (op[u] = POP => new(k[u]) = Own(e))
      BY <2>1, <2>2, <2>4, <2>5, <3>1, PUSH # POP DEF Informed, PUSH, POP
    <3>4. pc[u] \in Decided /\ Straddles(u) =>
            side[u] = mem'[k[u].buf][Rim(e)].value /\ side[u] \in Buffers
      <4>1. pc[u] \in Decided => [buf |-> k[u].buf, idx |-> Rim(e)] \in Place
        BY <2>2, <3>1, SlotType DEF Place
      <4>2. QED
        BY <2>2, <2>4, <3>1, <4>1 DEF Informed, Link, NodeAt
    <3>5. pc[u] \in {"cas1", "cas2"} /\ Straddles(u) =>
            /\ stage # "fill" /\ peek[u].value = Own(e)
            /\ op[u] = POP => new(PeekPlace(u)) = Own(e)
      BY <2>1, <2>2, <2>4, <2>5, PlacesAttached DEF Informed
    <3>6. pc[u] \in Decided \ {"recheck"} /\ op[u] = POP /\ inner[u].value = Other(e) =>
            inner[u] # mem'[next.buf][next.idx]
      <4>1. ASSUME pc[u] \in Decided \ {"recheck"}, op[u] = POP, inner[u].value = Other(e)
            PROVE  inner[u] # mem'[next.buf][next.idx]
        <5>1. Older(inner[u], NodeAt(next)) /\ inner[u] # NodeAt(next)
          BY <2>2, <4>1 DEF Loaded, Informed, Decided
        <5>2. Older(NodeAt(next), mem'[next.buf][next.idx])
              /\ NodeAt(next) \in Node /\ mem'[next.buf][next.idx] \in Node
          BY <2>4, <3>1, <4>1 DEF Decided
        <5>3. QED
          BY <2>2, <5>1, <5>2 DEF Older, Node
      <4>2. QED
        BY <4>1
    <3>7. Attaching(u) => mem'[side[u]] = NewBuffer(e, k[u].buf, elt[u])
      BY <2>2 DEF Informed
    <3>8. pc[u] \in Decided \cup {"loadOuter"} /\ op[u] = PUSH /\ inner[u].value # Own(e) =>
            new(next) # Own(e)
      BY <2>1, <2>2, <2>4, <2>5, <3>1, PUSH # POP DEF Informed, PUSH, POP
    <3>9. QED
      BY <1>0, <2>3, <3>2, <3>3, <3>4, <3>5, <3>6, <3>7, <3>8 DEF Informed
  <2>9. QED
    BY <2>6, <2>7, <2>8
<1>3. QED
  BY <1>1, <1>2

LEMMA ChainLater == MemInv' /\ InvLinks' /\ InvHints' => Chain' = Attached'
<1>1. (MemInv /\ InvLinks /\ InvHints => Chain = Attached)'
  BY ChainAttached, PTL
<1>2. QED
  BY <1>1

\* The new value of the invariant is that of its parts that t has to do with.
LEMMA ChainAssembled ==
  ASSUME MemInv, MemInv', ChainInv, NEW t \in Busy, Steady(t), UNCHANGED <<stage, request>>,
         Attached \subseteq Attached', Gentle,
         \A u \in Threads \ {t} : Attaching(u) => mem'[side[u]] = mem[side[u]],
         InvLinks', InvHints', pc'[t] # "crashed", IsFiniteSet(Stored)', SizeExact',
         Aimed(t)', Scanning(t)', Informed(t)'
  PROVE  ChainInv'
<1>1. t \in Threads /\ Busy' \subseteq Busy
  BY DEF Busy, Steady
<1>2. InvStage'
  BY <1>1 DEF ChainInv, InvStage, request
<1>3. InvThreads'
  BY OtherHolds DEF ChainInv, InvThreads
<1>4. NoCrash'
  BY DEF ChainInv, NoCrash, Running, Steady
<1>5. InvFinite'
  BY <1>1, FS_Subset DEF ChainInv, InvFinite
<1>6. QED
  BY <1>2, <1>3, <1>4, <1>5 DEF ChainInv

-----------------------------------------------------------------------------
(* The number of elements *)

\* Unsigned arithmetic: how n modulo ULONG is made up, and that a number may
\* be brought into the range of the word before or after d is added to it.
LEMMA InWord ==
  ASSUME NEW n \in Int
  PROVE  n % ULONG \in Word
BY ULONGAssumption DEF Word

LEMMA WordKept ==
  ASSUME NEW n \in Word
  PROVE  n % ULONG = n
BY ULONGAssumption DEF Word

LEMMA RoundRemoved ==
  ASSUME NEW q \in Int, NEW r \in Word
  PROVE  (q * ULONG + r) % ULONG = r
BY ULONGAssumption DEF Word

LEMMA RoundsOf ==
  ASSUME NEW n \in Int
  PROVE  \E q \in Int : n = q * ULONG + (n % ULONG)
<1>1. n \div ULONG \in Int
  BY ULONGAssumption
<1>2. n = (n \div ULONG) * ULONG + (n % ULONG)
  BY ULONGAssumption
<1>3. QED
  BY <1>1, <1>2

LEMMA RoundsAdded ==
  ASSUME NEW p \in Int, NEW q \in Int
  PROVE  (q + p) * ULONG = q * ULONG + p * ULONG
BY ULONGAssumption

LEMMA WordAdds ==
  ASSUME NEW n \in Int, NEW d \in Int
  PROVE  ((n % ULONG) + d) % ULONG = (n + d) % ULONG
<1>1. PICK m \in Int : m = n % ULONG
  BY InWord, ULONGAssumption DEF Word
<1>2. PICK s \in Int : s = m + d
  OBVIOUS
<1>3. PICK q \in Int : n = q * ULONG + m
  BY RoundsOf, <1>1
<1>4. PICK r \in Word : r = s % ULONG
  BY InWord
<1>5. PICK p \in Int : s = p * ULONG + r
  BY RoundsOf, <1>4
<1>6. (n + d) % ULONG = r
  <2>1. PICK z \in Int : z = q + p
    OBVIOUS
  <2>2. n + d = z * ULONG + r
    <3>1. z * ULONG = q * ULONG + p * ULONG
      BY <2>1, RoundsAdded
    <3>2. QED
      BY <1>2, <1>3, <1>5, <3>1, ULONGAssumption DEF Word
  <2>3. (z * ULONG + r) % ULONG = r
    BY RoundRemoved
  <2>4. QED
    BY <2>2, <2>3
<1>7. QED
  BY <1>1, <1>2, <1>4, <1>6

LEMMA SizeKept ==
  ASSUME TypeOK, UNCHANGED size
  PROVE  size' = (size + 0) % ULONG
<1>1. size \in Word /\ size + 0 = size
  BY ULONGAssumption DEF TypeOK, Word
<1>2. QED
  BY <1>1, WordKept

\* Two sets that agree but for x differ in size by what x makes of it.
LEMMA AgreeButFor ==
  ASSUME NEW S, NEW T, NEW x, IsFiniteSet(S), S \ {x} = T \ {x}
  PROVE  /\ IsFiniteSet(T) /\ Cardinality(S) \in Nat /\ Cardinality(T) \in Nat
         /\ Cardinality(T) + (IF x \in S THEN 1 ELSE 0) =
              Cardinality(S) + (IF x \in T THEN 1 ELSE 0)
<1> DEFINE R == S \ {x}
<1>1. IsFiniteSet(R) /\ Cardinality(R) \in Nat /\ Cardinality(S) \in Nat
  BY FS_RemoveElement, FS_CardinalityType
<1>2. Cardinality(S) = Cardinality(R) + (IF x \in S THEN 1 ELSE 0)
  BY <1>1, FS_RemoveElement
<1>3. IsFiniteSet(T) /\ Cardinality(T) = Cardinality(R) + (IF x \in T THEN 1 ELSE 0)
  <2>1. CASE x \in T
    <3>1. T = R \cup {x} /\ x \notin R
      BY <2>1
    <3>2. QED
      BY <1>1, <2>1, <3>1, FS_AddElement
  <2>2. CASE x \notin T
    <3>1. T = R
      BY <2>2
    <3>2. QED
      BY <1>1, <2>2, <3>1
  <2>3. QED
    BY <2>1, <2>2
<1>4. QED
  BY <1>1, <1>2, <1>3

\* The threads whose update of size is still owed, and the places that hold
\* an element, in terms of what is attached.
Debtors(o) == {t \in Threads : op[t] = o /\ pc[t] \in {"moveHint", "resize"}}
Held       == {p \in [buf : Attached, idx : Inner] : NodeAt(p).value \in Elts}

\* A step of t that stores or removes one element, or pays for one.
LEMMA SizeAfter ==
  ASSUME MemInv, MemInv', ChainInv, InvLinks', InvHints',
         NEW t \in Threads, Steady(t), NEW p, Held' \ {p} = Held \ {p},
         NEW d \in Int, size' = (size + d) % ULONG,
         LET one(b) == IF b THEN 1 ELSE 0
         IN  d = one(p \in Held') - one(p \in Held)
                 - one(t \in Debtors(PUSH)') + one(t \in Debtors(PUSH))
                 + one(t \in Debtors(POP)') - one(t \in Debtors(POP))
  PROVE  IsFiniteSet(Stored)' /\ SizeExact'
<1>1. Stored = Held /\ Stored' = Held' /\ IsFiniteSet(Held)
  <2>1. Chain = Attached /\ Chain' = Attached'
    BY ChainAttached, ChainLater DEF ChainInv
  <2>2. QED
    BY <2>1 DEF Stored, Held, ChainInv, InvFinite
<1>2. ASSUME NEW o \in Op
      PROVE  /\ Owing(o) = Cardinality(Debtors(o)) /\ Owing(o)' = Cardinality(Debtors(o)')
             /\ IsFiniteSet(Debtors(o)) /\ Debtors(o) \ {t} = Debtors(o)' \ {t}
  <2>1. Debtors(o) \subseteq Busy
    BY DEF Debtors, Busy
  <2>2. IsFiniteSet(Debtors(o))
    BY <2>1, FS_Subset DEF ChainInv, InvFinite
  <2>3. QED
    BY <2>2 DEF Owing, Debtors, Steady
<1>3. PUSH \in Op /\ POP \in Op
  BY DEF Op
<1>4. /\ Cardinality(Held) \in Nat /\ Cardinality(Held') \in Nat /\ IsFiniteSet(Held')
      /\ Cardinality(Held') + (IF p \in Held THEN 1 ELSE 0) =
           Cardinality(Held) + (IF p \in Held' THEN 1 ELSE 0)
  BY <1>1, AgreeButFor
<1>5. ASSUME NEW o \in Op
      PROVE  /\ Owing(o) \in Nat /\ Owing(o)' \in Nat
             /\ Owing(o)' + (IF t \in Debtors(o) THEN 1 ELSE 0) =
                  Owing(o) + (IF t \in Debtors(o)' THEN 1 ELSE 0)
  BY <1>2, AgreeButFor
<1>6. PICK n \in Int : n = Cardinality(Held) - Owing(PUSH) + Owing(POP)
  BY <1>3, <1>4, <1>5
<1>7. size' = (Cardinality(Held') - Owing(PUSH)' + Owing(POP)') % ULONG
  <2>1. size = n % ULONG
    BY <1>1, <1>6 DEF ChainInv, SizeExact
  <2>2. size' = (n + d) % ULONG
    BY <2>1, WordAdds
  <2>3. n + d = Cardinality(Held') - Owing(PUSH)' + Owing(POP)'
    <3> HIDE DEF Held, Debtors, Owing
    <3>1. /\ Owing(PUSH) \in Nat /\ Owing(PUSH)' \in Nat
          /\ Owing(PUSH)' + (IF t \in Debtors(PUSH) THEN 1 ELSE 0) =
               Owing(PUSH) + (IF t \in Debtors(PUSH)' THEN 1 ELSE 0)
      BY <1>3, <1>5
    <3>2. /\ Owing(POP) \in Nat /\ Owing(POP)' \in Nat
          /\ Owing(POP)' + (IF t \in Debtors(POP) THEN 1 ELSE 0) =
               Owing(POP) + (IF t \in Debtors(POP)' THEN 1 ELSE 0)
      BY <1>3, <1>5
    <3>3. QED
      BY <1>4, <1>6, <3>1, <3>2
  <2>4. QED
    BY <2>2, <2>3
<1>8. QED
  BY <1>1, <1>4, <1>7 DEF SizeExact

-----------------------------------------------------------------------------
(* What a step does to the chain *)

\* It changes no value.
Unmoved ==
  /\ Attached' = Attached
  /\ \A c \in Attached, i \in Slots : mem'[c][i].value = mem[c][i].value

\* It takes an element outwards of which there is a null.
Popped(t) ==
  LET e == end[t] IN
  \E b \in Attached, i \in Inner :
    /\ Attached' = Attached
    /\ inner[t].value \in Elts /\ mem[b][i].value = inner[t].value
    /\ \/ mem[b][Outward(e, i)].value = Own(e)
       \/ /\ Outward(e, i) = Rim(e) /\ Link(b, e) \in Buffers
          /\ mem[Link(b, e)][Entry(e)].value = Own(e)
    /\ \A c \in Attached, j \in Slots :
         mem'[c][j].value = IF c = b /\ j = i THEN Own(e) ELSE mem[c][j].value

\* It puts an element in place of a null.
Filled(t) ==
  \E b \in Attached, i \in Inner :
    /\ Attached' = Attached /\ elt[t] \in Elts /\ mem[b][i].value = Own(end[t])
    /\ \A c \in Attached, j \in Slots :
         mem'[c][j].value = IF c = b /\ j = i THEN elt[t] ELSE mem[c][j].value

\* It puts an element in a new buffer at the end of the chain.
Extended(t) ==
  LET e == end[t] IN
  \E b \in Attached, n \in Buffers \ Attached :
    /\ Attached' = Attached \cup {n} /\ elt[t] \in Elts
    /\ Link(b, e) = Own(e) /\ mem[n] = NewBuffer(e, b, elt[t])
    /\ \A c \in Attached \cup {n}, j \in Slots :
         mem'[c][j].value = IF c = b /\ j = Rim(e) THEN n ELSE mem[c][j].value

Pushed(t) == Filled(t) \/ Extended(t)

\* Only the second exchange changes a value, when it hits.
Outcome(t) ==
  IF pc[t] = "cas2" /\ pc'[t] = "moveHint"
  THEN IF op[t] = POP THEN Popped(t) ELSE Pushed(t)
  ELSE Unmoved

-----------------------------------------------------------------------------
(* Steps that change no value in the chain *)

LEMMA ChainQuiet ==
  ASSUME MemInv, MemInv', ChainInv, NEW t \in Busy, Steady(t),
         UNCHANGED <<stage, request, lost, hint, size>>, Public' = Public,
         \A p \in Place : p.buf \in Public =>
           /\ Older(NodeAt(p), mem'[p.buf][p.idx])
           /\ mem'[p.buf][p.idx].value = NodeAt(p).value,
         \A u \in Threads \ {t} : Attaching(u) => mem'[side[u]] = mem[side[u]],
         pc[t] \notin {"moveHint", "resize"}, pc'[t] \notin {"moveHint", "resize", "crashed"},
         Aimed(t)', Scanning(t)', Informed(t)'
  PROVE  ChainInv' /\ Unmoved
<1>1. Attached' = Attached /\ lost' \subseteq Public' /\ t \in Threads
  BY DEF Attached, Busy, ChainInv, InvLinks
<1>2. \A c \in Attached, i \in Slots : mem'[c][i].value = mem[c][i].value
  <2> SUFFICES ASSUME NEW c \in Attached, NEW i \in Slots PROVE mem'[c][i].value = mem[c][i].value
    OBVIOUS
  <2>1. [buf |-> c, idx |-> i] \in Place /\ c \in Public
    BY AttachedFacts DEF Place, ChainInv, Attached
  <2>2. QED
    BY <2>1 DEF NodeAt
<1>3. InvLinks'
  BY <1>1, <1>2, LinksSame DEF ChainInv
<1>4. InvHints'
  BY <1>1 DEF ChainInv, InvHints
<1>5. Gentle
  BY DEF Gentle, Attached
<1>6. IsFiniteSet(Stored)' /\ SizeExact'
  <2>1. Held' = Held
    <3>1. \A p \in [buf : Attached, idx : Inner] : NodeAt(p)'.value = NodeAt(p).value
      BY <1>2, Indices, LEFT \in End DEF NodeAt, End
    <3>2. QED
      BY <1>1, <3>1 DEF Held
  <2>2. \A o \in Op : t \notin Debtors(o) /\ t \notin Debtors(o)'
    BY DEF Debtors
  <2>3. size' = (size + 0) % ULONG /\ PUSH \in Op /\ POP \in Op
    BY SizeKept DEF MemInv, Op
  <2>4. PICK p : p = Nowhere
    OBVIOUS
  <2>5. QED
    BY <1>1, <1>3, <1>4, <2>1, <2>2, <2>3, <2>4, SizeAfter
<1>7. QED
  BY <1>1, <1>2, <1>3, <1>4, <1>5, <1>6, ChainAssembled DEF Unmoved

LEMMA ChainStill ==
  ASSUME MemInv, MemInv', ChainInv, NEW t \in Busy, Steady(t),
         UNCHANGED <<stage, request, lost, hint, size, mem, heap>>,
         ~Attaching(t), ~Attaching(t)',
         pc[t] \notin {"moveHint", "resize"}, pc'[t] \notin {"moveHint", "resize", "crashed"},
         Aimed(t)', Scanning(t)', Informed(t)'
  PROVE  ChainInv' /\ Unmoved
<1>1. Public' = Public /\ t \in Threads
  BY OthersSame DEF Public, Steady, Busy
<1>2. \A p \in Place : /\ Older(NodeAt(p), mem'[p.buf][p.idx])
                       /\ mem'[p.buf][p.idx].value = NodeAt(p).value
  BY DEF Older, NodeAt
<1>3. QED
  BY <1>1, <1>2, ChainQuiet

-----------------------------------------------------------------------------
(* The oracles *)

\* What the invariant says of a thread that takes a step.
LEMMA Learned ==
  ASSUME MemInv, ChainInv, NEW t \in Threads
  PROVE  /\ Aimed(t) /\ Scanning(t) /\ Informed(t) /\ pc[t] # "crashed"
         /\ \A b \in Attached :
              /\ mem[b][Rim(end[t])].value \in Attached \cup {Own(end[t])}
              /\ mem[b][Far(end[t])].value \in Attached \cup {Other(end[t])}
              /\ stage = "fill" => mem[b][Entry(end[t])].value # Own(end[t])
         /\ Attached \subseteq Buffers /\ Attached \subseteq Public
<1>1. end[t] \in End
  BY Knowledge
<1>2. QED
  BY <1>1, AttachedFacts, Opposites DEF ChainInv, InvThreads, NoCrash, Running, Link, InvLinks, Attached

\* What a step of the oracle leaves to show.
LEMMA SearchedOn ==
  ASSUME MemInv, MemInv', ChainInv, NEW t \in Threads, Steady(t),
         UNCHANGED <<stage, shared, request, extra, ret, calls, lost>>,
         pc[t] \in Searching, pc'[t] \in Searching \cup {"saveHint"},
         AttachedPlace(k'[t]), AttachedPlace(at'[t]),
         pc'[t] # "oracleHint" =>
           /\ k'[t].idx # Far(end[t])
           /\ stage = "fill" => k'[t].idx # Entry(end[t]),
         pc'[t] = "saveHint" /\ stage # "fill" /\ k'[t].idx = Entry(end[t]) =>
           mem[k'[t].buf][Far(end[t])].value = Other(end[t]),
         Scanning(t)'
  PROVE  ChainInv'
<1>1. /\ ~Attaching(t) /\ ~Attaching(t)' /\ t \in Busy
      /\ UNCHANGED <<stage, request, lost, hint, size, mem, heap>>
      /\ end'[t] = end[t] /\ saved'[t] = saved[t] /\ side'[t] = side[t]
  BY DEF Searching, Attaching, Busy, shared, store, request, extra
<1>2. Attached' = Attached
  BY <1>1, OthersSame DEF Attached, Public, Steady
<1>3. Aimed(t)
  BY Learned
<1>4. Aimed(t)'
  BY <1>1, <1>2, <1>3 DEF Aimed, AttachedPlace, Searching, Working, Decided
<1>5. Informed(t)'
  BY <1>1 DEF Informed, Searching, Decided
<1>6. QED
  BY <1>1, <1>4, <1>5, ChainStill DEF Searching

\* The same for a step that ends the search, or that turns to the climb.
LEMMA FoundOn ==
  ASSUME MemInv, MemInv', ChainInv, NEW t \in Threads, Oracle(t), UNCHANGED stage,
         pc[t] \in Searching, NEW p \in Place, p.buf \in Attached, p.idx # Far(end[t]),
         stage = "fill" => p.idx # Entry(end[t]),
         stage # "fill" /\ p.idx = Entry(end[t]) =>
           mem[p.buf][Far(end[t])].value = Other(end[t]),
         Found(t, p)
  PROVE  ChainInv'
<1>1. Steady(t) /\ TypeOK /\ UNCHANGED <<shared, request, extra, ret, calls, lost>>
  BY OracleSteady, Knowledge DEF Oracle
<1>2. pc'[t] = "saveHint" /\ k'[t] = p /\ at'[t] = Nowhere
  BY <1>1 DEF Found, Goto, TypeOK
<1>3. Scanning(t)'
  BY <1>2 DEF Scanning
<1>4. QED
  BY <1>1, <1>2, <1>3, SearchedOn DEF AttachedPlace

LEMMA ClimbOn ==
  ASSUME MemInv, MemInv', ChainInv, NEW t \in Threads, Oracle(t), UNCHANGED stage,
         pc[t] \in Searching \ {"oracleHint"}, StartClimb(t)
  PROVE  ChainInv'
<1>1. Steady(t) /\ TypeOK /\ UNCHANGED <<shared, request, extra, ret, calls, lost>>
  BY OracleSteady, Knowledge DEF Oracle
<1>2. /\ pc'[t] = "climb" /\ k'[t] = k[t] /\ at'[t] = [buf |-> k[t].buf, idx |-> Rim(end[t])]
      /\ end'[t] = end[t]
  BY <1>1 DEF StartClimb, Goto, TypeOK, request
<1>3. Scanning(t)'
  BY <1>2 DEF Scanning
<1>4. Aimed(t) /\ k[t].buf \in Attached
  BY Learned, PlacesAttached DEF ChainInv, Searching
<1>5. AttachedPlace(k'[t]) /\ AttachedPlace(at'[t])
  BY <1>2, <1>4 DEF Aimed, AttachedPlace
<1>6. QED
  BY <1>1, <1>2, <1>3, <1>4, <1>5, SearchedOn DEF Aimed, Searching

LEMMA OracleChain ==
  ASSUME MemInv, MemInv', ChainInv, NEW t \in Threads, Oracle(t), UNCHANGED stage
  PROVE  ChainInv'
<1> DEFINE e == end[t]
<1>0. /\ Steady(t) /\ TypeOK /\ UNCHANGED <<shared, request, extra, ret, calls, lost>>
      /\ e \in End /\ end'[t] = e /\ UNCHANGED mem
  BY OracleSteady, Knowledge DEF Oracle, request, shared, store
<1>1. /\ Aimed(t) /\ Scanning(t) /\ pc[t] # "crashed"
      /\ \A b \in Attached : /\ mem[b][Rim(e)].value \in Attached \cup {Own(e)}
                             /\ mem[b][Far(e)].value \in Attached \cup {Other(e)}
                             /\ stage = "fill" => mem[b][Entry(e)].value # Own(e)
      /\ Attached \subseteq Buffers
  BY Learned
<1>2. /\ pc[t] \notin {"idle", "oracleHint"} => k[t] \in Place /\ k[t].buf \in Attached
      /\ pc[t] \in {"climb", "scanOuter", "scanInner", "scanNext"} => at[t] \in Place /\ at[t].buf \in Attached
  BY PlacesAttached DEF ChainInv
<1>3. AttachedPlace(Nowhere) /\ AttachedPlace(k[t]) /\ AttachedPlace(at[t])
  BY <1>1 DEF AttachedPlace, Aimed
<1>4. /\ Rim(e) # Far(e) /\ Rim(e) # Entry(e) /\ Far(e) # Entry(e)
      /\ \A i \in Slots : Inward(e, i) = Far(e) => i = Entry(e)
      /\ Inward(e, Entry(e)) = Far(e)
  BY <1>0, Indices DEF Entry
<1>5. Own(e) \notin Buffers /\ Other(e) \notin Buffers /\ Own(e) # Other(e)
  BY <1>0, NullFacts
<1>6. CASE OracleHint(t)
  <2>1. /\ pc[t] = "oracleHint" /\ pc'[t] = "oracleOuter" /\ k'[t] = hint[e] /\ UNCHANGED at
    BY <1>0, <1>6 DEF OracleHint, Goto, TypeOK
  <2>2. /\ hint[e].buf \in Attached /\ hint[e].idx # Far(e)
        /\ stage = "fill" => hint[e].idx # Entry(e)
    BY <1>0 DEF ChainInv, InvHints
  <2>3. Scanning(t)'
    BY <2>1 DEF Scanning
  <2>4. QED
    BY <1>0, <1>3, <2>1, <2>2, <2>3, SearchedOn DEF AttachedPlace, Searching
<1>7. CASE OracleOuter(t)
  <2>1. /\ pc[t] = "oracleOuter" /\ pc'[t] = "oracleInner" /\ outer'[t] = NodeAt(k[t])
        /\ k'[t] = k[t] /\ at'[t] = at[t]
    BY <1>0, <1>7 DEF OracleOuter, Goto, TypeOK
  <2>2. k[t].idx = Rim(e) => NodeAt(k[t]).value \in Buffers \cup {Own(e)}
    BY <1>1, <1>2, <2>1 DEF NodeAt
  <2>3. Scanning(t)'
    BY <1>0, <2>1, <2>2 DEF Scanning, AtEdge
  <2>4. QED
    BY <1>0, <1>1, <1>3, <2>1, <2>3, SearchedOn DEF Aimed, Searching
<1>8. CASE OracleInner(t)
  <2>1. pc[t] = "oracleInner" /\ k[t] \in Place /\ k[t].buf \in Attached
    BY <1>2, <1>8 DEF OracleInner
  <2>2. CASE StartClimb(t)
    BY <2>1, <2>2, ClimbOn DEF Searching
  <2>3. In(e, k[t]).idx = Inward(e, k[t].idx) /\ k[t].idx \in Slots
    BY <2>1 DEF In, Place
  <2>4. CASE Found(t, k[t]) /\ In(e, k[t]).idx # Far(e)
    <3>1. k[t].idx # Entry(e) /\ k[t].idx # Far(e)
      BY <1>1, <1>4, <2>1, <2>3, <2>4 DEF Aimed
    <3>2. QED
      BY <2>1, <2>4, <3>1, FoundOn DEF Searching
  <2>5. CASE Goto(t, "oraclePeek") /\ UNCHANGED <<found, at>> /\ k[t].idx = Rim(e) /\ outer[t].value # Own(e)
    <3>1. pc'[t] = "oraclePeek" /\ k'[t] = k[t] /\ at'[t] = at[t] /\ outer'[t] = outer[t]
      BY <1>0, <2>5 DEF Goto, TypeOK, found
    <3>2. Scanning(t)'
      BY <1>0, <1>1, <2>1, <2>5, <3>1 DEF Scanning, AtEdge
    <3>3. QED
      BY <1>0, <1>1, <1>3, <2>1, <3>1, <3>2, SearchedOn DEF Aimed, Searching
  <2>6. QED
    BY <1>8, <2>2, <2>4, <2>5 DEF OracleInner
<1>9. CASE OraclePeek(t)
  <2>1. /\ pc[t] = "oraclePeek" /\ k[t] \in Place /\ k[t].buf \in Attached
        /\ k[t].idx = Rim(e) /\ outer[t].value \in Buffers
    BY <1>1, <1>2, <1>9 DEF OraclePeek, Scanning, AtEdge
  <2>2. CASE StartClimb(t)
    BY <2>1, <2>2, ClimbOn DEF Searching
  <2>3. CASE Found(t, k[t])
    BY <1>4, <2>1, <2>3, FoundOn DEF Searching
  <2>4. QED
    BY <1>9, <2>1, <2>2, <2>3 DEF OraclePeek
<1>10. CASE Climb(t)
  <2>1. /\ pc[t] = "climb" /\ k[t] \in Place /\ at[t] \in Place /\ at[t].buf \in Attached
        /\ at[t].idx = Rim(e) /\ k'[t] = k[t]
    BY <1>1, <1>2, <1>10 DEF Climb, Scanning, found
  <2>2. NodeAt(at[t]).value \in Attached \cup {Own(e)}
    BY <1>1, <2>1 DEF NodeAt
  <2>3. CASE Goto(t, "scanOuter") /\ UNCHANGED at
    <3>1. pc'[t] = "scanOuter" /\ at'[t] = at[t]
      BY <1>0, <2>3 DEF Goto, TypeOK
    <3>2. Scanning(t)'
      BY <1>0, <1>4, <2>1, <3>1 DEF Scanning
    <3>3. QED
      BY <1>0, <1>1, <1>3, <2>1, <3>1, <3>2, SearchedOn DEF Aimed, Searching
  <2>4. CASE /\ NodeAt(at[t]).value \in Attached
             /\ at' = [at EXCEPT ![t].buf = NodeAt(at[t]).value] /\ UNCHANGED pc
    <3>1. at'[t].buf = NodeAt(at[t]).value /\ at'[t].idx = Rim(e) /\ pc'[t] = "climb"
      BY <1>0, <2>1, <2>4 DEF TypeOK, Place
    <3>2. Scanning(t)'
      BY <1>0, <3>1 DEF Scanning
    <3>3. AttachedPlace(at'[t])
      BY <2>4, <3>1 DEF AttachedPlace
    <3>4. QED
      BY <1>0, <1>1, <1>3, <2>1, <3>1, <3>2, <3>3, SearchedOn DEF Aimed, Searching
  <2>5. QED
    BY <1>1, <1>5, <1>10, <2>2, <2>3, <2>4 DEF Climb
<1>11. CASE ScanOuter(t)
  <2>1. /\ pc[t] = "scanOuter" /\ pc'[t] = "scanInner" /\ outer'[t] = NodeAt(at[t])
        /\ k'[t] = k[t] /\ at'[t] = at[t] /\ at[t] \in Place /\ at[t].buf \in Attached
    BY <1>0, <1>2, <1>11 DEF ScanOuter, Goto, TypeOK
  <2>2. stage = "fill" /\ at[t].idx = Entry(e) => NodeAt(at[t]).value # Own(e)
    BY <1>1, <2>1 DEF NodeAt
  <2>3. NodeAt(at[t])' = NodeAt(at[t])
    BY <1>0, <2>1 DEF NodeAt
  <2>4. Scanning(t)'
    BY <1>0, <1>1, <2>1, <2>2, <2>3 DEF Scanning
  <2>5. QED
    BY <1>0, <1>1, <1>3, <2>1, <2>4, SearchedOn DEF Aimed, Searching
<1>12. CASE ScanInner(t)
  <2> DEFINE prev == In(e, at[t])
             n    == NodeAt(prev)
             cur  == outer[t]
  <2>1. /\ pc[t] = "scanInner" /\ at[t] \in Place /\ at[t].buf \in Attached
        /\ at[t].idx # Far(e) /\ at[t].idx \in Slots
        /\ stage = "fill" /\ at[t].idx = Entry(e) => cur.value # Own(e)
        /\ stage # "fill" => at[t].idx = Rim(e) \/ cur.value = Own(e)
        /\ k[t].idx # Far(e) /\ (stage = "fill" => k[t].idx # Entry(e))
    BY <1>1, <1>2, <1>12 DEF ScanInner, Scanning, Aimed, Place
  <2>2. prev \in Place /\ prev.buf = at[t].buf /\ prev.idx = Inward(e, at[t].idx)
    BY <1>0, <2>1, PlaceType DEF In, Place
  <2>3. /\ prev.idx = Far(e) <=> at[t].idx = Entry(e)
        /\ prev.idx = Far(e) => n = mem[at[t].buf][Far(e)]
    BY <1>4, <2>1, <2>2 DEF NodeAt
  <2>4. CASE /\ IF prev.idx = Far(e) THEN cur.value = Own(e) /\ n.value = Other(e)
                ELSE n.value # Own(e) /\ (at[t].idx = Rim(e) \/ cur.value = Own(e))
             /\ Found(t, at[t])
    <3>1. /\ stage = "fill" => at[t].idx # Entry(e)
          /\ stage # "fill" /\ at[t].idx = Entry(e) => mem[at[t].buf][Far(e)].value = Other(e)
      BY <2>1, <2>3, <2>4
    <3>2. QED
      BY <2>1, <2>4, <3>1, FoundOn DEF Searching
  <2>5. CASE /\ ~IF prev.idx = Far(e) THEN cur.value = Own(e) /\ n.value = Other(e)
                 ELSE n.value # Own(e) /\ (at[t].idx = Rim(e) \/ cur.value = Own(e))
             /\ at' = [at EXCEPT ![t] = prev]
             /\ Goto(t, IF prev.idx = Far(e) THEN "scanNext" ELSE "scanOuter")
             /\ UNCHANGED k
    <3>1. /\ at'[t] = prev /\ k'[t] = k[t] /\ NodeAt(at[t])' = n
          /\ pc'[t] = IF prev.idx = Far(e) THEN "scanNext" ELSE "scanOuter"
      BY <1>0, <2>5 DEF Goto, TypeOK, NodeAt
    <3>2. prev.idx = Far(e) /\ stage # "fill" => n.value \in Buffers
      BY <1>1, <1>4, <2>1, <2>3, <2>5
    <3>3. prev.idx # Far(e) /\ stage # "fill" => n.value = Own(e)
      BY <2>1, <2>5
    <3>4. Scanning(t)'
      BY <1>0, <3>1, <3>2, <3>3 DEF Scanning
    <3>5. AttachedPlace(at'[t])
      BY <2>1, <2>2, <3>1 DEF AttachedPlace
    <3>6. QED
      BY <1>0, <1>3, <2>1, <3>1, <3>4, <3>5, SearchedOn DEF Searching
  <2>6. QED
    BY <1>12, <2>4, <2>5 DEF ScanInner
<1>13. CASE ScanNext(t)
  <2>1. /\ pc[t] = "scanNext" /\ at[t] \in Place /\ at[t].buf \in Attached /\ at[t].idx = Far(e)
        /\ k[t] \in Place /\ k[t].buf \in Attached
        /\ stage # "fill" => NodeAt(at[t]).value \in Buffers
        /\ k[t].idx # Far(e) /\ (stage = "fill" => k[t].idx # Entry(e))
    BY <1>1, <1>2, <1>13 DEF ScanNext, Scanning, Aimed
  <2>2. NodeAt(at[t]).value \in Attached \cup {Other(e)}
    BY <1>1, <2>1 DEF NodeAt
  <2>3. CASE Found(t, k[t]) /\ NodeAt(at[t]).value = Other(e)
    BY <1>5, <2>1, <2>3, FoundOn DEF Searching
  <2>4. CASE /\ NodeAt(at[t]).value \in Attached
             /\ at' = [at EXCEPT ![t] = [buf |-> NodeAt(at[t]).value, idx |-> Rim(e)]]
             /\ Goto(t, "scanOuter") /\ UNCHANGED found
    <3>1. /\ at'[t].buf = NodeAt(at[t]).value /\ at'[t].idx = Rim(e) /\ pc'[t] = "scanOuter"
          /\ k'[t] = k[t]
      BY <1>0, <2>4 DEF Goto, TypeOK, found
    <3>2. Scanning(t)'
      BY <1>0, <1>4, <3>1 DEF Scanning
    <3>3. AttachedPlace(at'[t])
      BY <2>4, <3>1 DEF AttachedPlace
    <3>4. QED
      BY <1>0, <1>3, <2>1, <3>1, <3>2, <3>3, SearchedOn DEF Searching
  <2>5. QED
    BY <1>1, <1>5, <1>13, <2>2, <2>3, <2>4 DEF ScanNext
<1>14. QED
  BY <1>6, <1>7, <1>8, <1>9, <1>10, <1>11, <1>12, <1>13 DEF Oracle

-----------------------------------------------------------------------------
(* The steps of an operation that change no value in the chain *)

\* An operation that starts over or returns has nothing to be right about.
LEMMA RestartedOn ==
  ASSUME MemInv, NEW t \in Threads, Forget(t), pc'[t] \in {"idle", "oracleHint"}
  PROVE  Aimed(t)' /\ Scanning(t)' /\ Informed(t)' /\ ~Attaching(t)'
<1>1. Forgotten(t)' /\ NULL \notin Buffers /\ ~Attaching(t)'
  BY ForgetType, Knowledge DEF Attaching
<1>2. QED
  BY <1>1 DEF Forgotten, Aimed, Scanning, Informed, AttachedPlace, Working, Decided

LEMMA AttachedStill ==
  ASSUME NEW t \in Threads, Steady(t), UNCHANGED <<heap, lost>>,
         Attaching(t)' <=> Attaching(t), side'[t] = side[t] \/ ~Attaching(t)
  PROVE  Public' = Public /\ Attached' = Attached
<1>1. \A u \in Threads : (Attaching(u)' <=> Attaching(u)) /\ (Attaching(u) => side'[u] = side[u])
  BY OthersSame DEF Steady
<1>2. Public' = Public
  BY <1>1 DEF Public
<1>3. QED
  BY <1>2 DEF Attached

\* An operation goes on at the same place.
LEMMA AimedOn ==
  ASSUME NEW t \in Threads, Aimed(t), pc[t] \in Working, pc'[t] \in Working, Attached' = Attached,
         stage' = stage, end'[t] = end[t], k'[t] = k[t], at'[t] = at[t],
         AttachedPlace(saved'[t]),
         ~Attaching(t)' /\ side'[t] \in Buffers => side'[t] \in Attached,
         mem'[k[t].buf][Far(end[t])].value = mem[k[t].buf][Far(end[t])].value
  PROVE  Aimed(t)' /\ Scanning(t)'
BY DEF Aimed, Scanning, AttachedPlace, Working, Decided

LEMMA SaveHintChain ==
  ASSUME MemInv, MemInv', ChainInv, NEW t \in Threads, Body(t), SaveHint(t), UNCHANGED stage
  PROVE  ChainInv' /\ Unmoved
<1>1. /\ Steady(t) /\ TypeOK /\ UNCHANGED <<shared, request, lost>> /\ end[t] \in End
      /\ Aimed(t)
  BY BodySteady, Knowledge, Learned DEF Body, SaveHint
<1>2. /\ pc[t] = "saveHint" /\ pc'[t] = "loadInner" /\ saved'[t] = hint[end[t]]
      /\ UNCHANGED <<mem, heap, hint, size, k, at, inner, outer, side, peek, end>>
  BY <1>1 DEF SaveHint, Goto, TypeOK, shared, store, found, request
<1>3. ~Attaching(t) /\ ~Attaching(t)' /\ t \in Busy /\ Attached' = Attached
  BY <1>1, <1>2, AttachedStill DEF Attaching, Busy
<1>4. AttachedPlace(saved'[t])
  BY <1>1, <1>2 DEF ChainInv, InvHints, AttachedPlace
<1>5. Aimed(t)' /\ Scanning(t)'
  BY <1>1, <1>2, <1>3, <1>4, AimedOn DEF Working, Aimed
<1>6. Informed(t)'
  BY <1>2, <1>3 DEF Informed, Decided
<1>7. QED
  BY <1>1, <1>2, <1>3, <1>5, <1>6, ChainStill

LEMMA LoadInnerChain ==
  ASSUME MemInv, MemInv', ChainInv, NEW t \in Threads, Body(t), LoadInner(t), UNCHANGED stage
  PROVE  ChainInv' /\ Unmoved
<1>1. /\ Steady(t) /\ TypeOK /\ UNCHANGED <<shared, request, lost>> /\ end[t] \in End
      /\ Aimed(t)
  BY BodySteady, Knowledge, Learned DEF Body, LoadInner
<1>2. /\ pc[t] = "loadInner" /\ pc'[t] = "loadOuter" /\ inner'[t] = NodeAt(In(end[t], k[t]))
      /\ UNCHANGED <<mem, heap, hint, size, k, at, saved, outer, side, peek, end, op>>
  BY <1>1 DEF LoadInner, Goto, TypeOK, shared, store, extra, request
<1>3. ~Attaching(t) /\ ~Attaching(t)' /\ t \in Busy /\ Attached' = Attached
  BY <1>1, <1>2, AttachedStill DEF Attaching, Busy
<1>4. Aimed(t)' /\ Scanning(t)'
  BY <1>1, <1>2, <1>3, AimedOn DEF Working, Aimed
<1>5. Informed(t)'
  BY <1>2, <1>3 DEF Informed, Decided, NodeAt
<1>6. QED
  BY <1>1, <1>2, <1>3, <1>4, <1>5, ChainStill

\* An operation finds its case.  The nodes it has loaded are still null, or
\* still not, and the pointer it follows is the link to the neighbour.
LEMMA LoadOuterChain ==
  ASSUME MemInv, MemInv', ChainInv, NEW t \in Threads, Body(t), LoadOuter(t), UNCHANGED stage
  PROVE  ChainInv' /\ Unmoved
<1> DEFINE e == end[t]
           n == NodeAt(k[t])
<1>1. /\ Steady(t) /\ TypeOK /\ UNCHANGED <<shared, request, lost>> /\ end[t] \in End
      /\ Aimed(t) /\ Informed(t) /\ pc[t] = "loadOuter" /\ ~Attaching(t) /\ t \in Busy
      /\ \A b \in Attached : mem[b][Rim(e)].value \in Attached \cup {Own(e)}
      /\ Attached \subseteq Buffers /\ op[t] \in Op
  BY BodySteady, Knowledge, Learned DEF Body, LoadOuter, Attaching, Busy
<1>2. k[t] \in Place /\ k[t].buf \in Attached
  BY <1>1, PlacesAttached DEF ChainInv
<1>3. UNCHANGED <<mem, heap, hint, size, end, op>>
  BY <1>1 DEF shared, store, request
<1>4. CASE Retry(t)
  <2>1. pc'[t] = "oracleHint" /\ Forget(t)
    BY <1>1, <1>4 DEF Retry, Goto, TypeOK
  <2>2. QED
    BY <1>1, <1>3, <2>1, RestartedOn, ChainStill
<1>5. CASE /\ ~(inner[t].value = Own(e) \/ (n.value # Own(e) /\ ~AtEdge(t)))
           /\ outer' = [outer EXCEPT ![t] = n]
           /\ side' = [side EXCEPT ![t] = IF Crosses(t, n) THEN n.value ELSE NULL]
           /\ Goto(t, IF op[t] = POP /\ inner[t].value = Other(e) THEN "recheck"
                      ELSE IF Extends(t, n) THEN "attach"
                      ELSE IF ~Crosses(t, n) THEN "cas1"
                      ELSE IF Reloads(t) THEN "reload" ELSE "peek")
           /\ UNCHANGED <<k, at, inner, saved, peek, ret>>
  <2>1. /\ outer'[t] = n /\ side'[t] = IF Crosses(t, n) THEN n.value ELSE NULL
        /\ pc'[t] = IF op[t] = POP /\ inner[t].value = Other(e) THEN "recheck"
                    ELSE IF Extends(t, n) THEN "attach"
                    ELSE IF ~Crosses(t, n) THEN "cas1"
                    ELSE IF Reloads(t) THEN "reload" ELSE "peek"
    BY <1>1, <1>5 DEF Goto, TypeOK
  <2>2. /\ Straddles(t)' <=> Crosses(t, n)
        /\ Attaches(t)' <=> Extends(t, n)
    BY <1>3, <1>5, <2>1 DEF Straddles, Attaches, Crosses, Extends, AtEdge
  <2>3. pc'[t] \in Decided /\ ~Attaching(t)' /\ (pc'[t] = "cas1" => ~Straddles(t)')
        /\ pc'[t] # "cas2"
    BY <2>1, <2>2 DEF Decided, Attaching, Extends, Crosses
  <2>4. Crosses(t, n) => n.value = Link(k[t].buf, e) /\ n.value \in Attached
    BY <1>1, <1>2 DEF Crosses, AtEdge, Link, NodeAt
  <2>5. Attached' = Attached
    BY <1>1, <1>3, <2>3, AttachedStill
  <2>6. NULL \notin Buffers
    BY <1>1, NullFacts
  <2>7. Aimed(t)' /\ Scanning(t)'
    BY <1>1, <1>3, <1>5, <2>1, <2>3, <2>4, <2>5, <2>6, AimedOn DEF Working, Aimed
  <2>8. Informed(t)'
    <3>1. /\ NodeAt(In(end[t], k[t]))' = NodeAt(In(e, k[t])) /\ NodeAt(k[t])' = n
          /\ Link(k[t].buf, end[t])' = Link(k[t].buf, e)
      BY <1>3, <1>5 DEF NodeAt, Link
    <3>2. inner'[t] = inner[t] /\ op'[t] = op[t] /\ end'[t] = e /\ k'[t] = k[t]
      BY <1>3, <1>5
    <3>3. op[t] = PUSH => NodeAt(In(e, k[t])).value # Own(e)
      BY <1>1, <1>5 DEF Informed
    <3>4. ~Crosses(t, n) => n.value = Own(e)
      BY <1>5 DEF Crosses
    <3>5. op[t] = POP /\ inner[t].value = Other(e) => pc'[t] = "recheck"
      BY <2>1
    <3>6. QED
      BY <1>1, <1>5, <2>1, <2>2, <2>3, <2>4, <3>1, <3>2, <3>3, <3>4, <3>5 DEF Informed
  <2>9. QED
    BY <1>1, <1>3, <2>3, <2>7, <2>8, ChainStill DEF Decided
<1>6. QED
  BY <1>4, <1>5 DEF LoadOuter

LEMMA RecheckChain ==
  ASSUME MemInv, MemInv', ChainInv, NEW t \in Threads, Body(t), Recheck(t), UNCHANGED stage
  PROVE  ChainInv' /\ Unmoved
<1> DEFINE e == end[t]
<1>1. /\ Steady(t) /\ TypeOK /\ UNCHANGED <<shared, request, lost>> /\ end[t] \in End
      /\ Aimed(t) /\ Informed(t) /\ pc[t] = "recheck" /\ op[t] = POP
      /\ ~Attaching(t) /\ t \in Busy
  BY BodySteady, Knowledge, Learned DEF Body, Recheck, Placed, Attaching, Busy
<1>2. UNCHANGED <<mem, heap, hint, size, end, op>>
  BY <1>1 DEF shared, store, request
<1>3. CASE Return(t, EMPTY, NULL)
  <2>1. pc'[t] = "idle" /\ Forget(t)
    BY <1>1, <1>3 DEF Return, Goto, TypeOK
  <2>2. QED
    BY <1>1, <1>2, <2>1, RestartedOn, ChainStill
<1>4. CASE /\ NodeAt(In(e, k[t])) # inner[t]
           /\ Goto(t, IF Straddles(t) THEN "peek" ELSE "cas1")
           /\ UNCHANGED <<found, at, extra, ret>>
  <2>1. /\ pc'[t] = IF Straddles(t) THEN "peek" ELSE "cas1"
        /\ UNCHANGED <<k, inner, outer, at, saved, side, peek>>
    BY <1>1, <1>4 DEF Goto, TypeOK, found, extra
  <2>2. Straddles(t)' <=> Straddles(t)
    BY <1>2, <2>1 DEF Straddles, Crosses, AtEdge
  <2>3. ~Attaching(t)'
    BY <1>1, <1>2 DEF Attaching, Attaches, Extends, PUSH, POP
  <2>4. Attached' = Attached
    BY <1>1, <1>2, <2>3, AttachedStill
  <2>5. Aimed(t)' /\ Scanning(t)'
    BY <1>1, <1>2, <2>1, <2>3, <2>4, AimedOn DEF Working, Decided, Aimed
  <2>6. Informed(t)'
    BY <1>1, <1>2, <1>4, <2>1, <2>2, <2>3 DEF Informed, Decided, NodeAt, Link, PUSH, POP
  <2>7. QED
    BY <1>1, <1>2, <2>1, <2>3, <2>5, <2>6, ChainStill
<1>5. QED
  BY <1>3, <1>4 DEF Recheck

\* The second load of the pointer finds what the first did.
LEMMA ReloadChain ==
  ASSUME MemInv, MemInv', ChainInv, NEW t \in Threads, Body(t), Reload(t), UNCHANGED stage
  PROVE  ChainInv' /\ Unmoved
<1> DEFINE e == end[t]
<1>1. /\ Steady(t) /\ TypeOK /\ UNCHANGED <<shared, request, lost>> /\ end[t] \in End
      /\ Aimed(t) /\ Informed(t) /\ pc[t] = "reload" /\ Straddles(t)
      /\ ~Attaching(t) /\ t \in Busy
  BY BodySteady, Knowledge, Learned DEF Body, Reload, Placed, Attaching, Busy
<1>2. UNCHANGED <<mem, heap, hint, size, end, op>>
  BY <1>1 DEF shared, store, request
<1>3. /\ pc'[t] = "peek" /\ side'[t] = NodeAt(k[t]).value
      /\ UNCHANGED <<k, inner, outer, at, saved, peek>>
  BY <1>1 DEF Reload, Goto, TypeOK, found
<1>4. side'[t] = side[t]
  BY <1>1, <1>3 DEF Informed, Decided, Straddles, Crosses, AtEdge, Link, NodeAt
<1>5. Straddles(t)' /\ ~Attaching(t)'
  BY <1>1, <1>2, <1>3 DEF Straddles, Crosses, AtEdge, Attaching
<1>6. Attached' = Attached
  BY <1>1, <1>2, <1>5, AttachedStill
<1>7. Aimed(t)' /\ Scanning(t)'
  BY <1>1, <1>2, <1>3, <1>4, <1>5, <1>6, AimedOn DEF Working, Decided, Aimed
<1>8. Informed(t)'
  BY <1>1, <1>2, <1>3, <1>4, <1>5 DEF Informed, Decided, NodeAt, Link
<1>9. QED
  BY <1>1, <1>2, <1>3, <1>5, <1>7, <1>8, ChainStill

\* In a fill the neighbour's node is taken: its last null has gone before.
LEMMA PeekChain ==
  ASSUME MemInv, MemInv', ChainInv, NEW t \in Threads, Body(t), Peek(t), UNCHANGED stage
  PROVE  ChainInv' /\ Unmoved
<1> DEFINE e == end[t]
<1>1. /\ Steady(t) /\ TypeOK /\ UNCHANGED <<shared, request, lost>> /\ end[t] \in End
      /\ Aimed(t) /\ Informed(t) /\ pc[t] = "peek" /\ Straddles(t)
      /\ ~Attaching(t) /\ t \in Busy
      /\ \A b \in Attached : stage = "fill" => mem[b][Entry(e)].value # Own(e)
  BY BodySteady, Knowledge, Learned DEF Body, Peek, Placed, Attaching, Busy
<1>2. UNCHANGED <<mem, heap, hint, size, end, op>>
  BY <1>1 DEF shared, store, request
<1>3. side[t] \in Attached /\ side[t] \in Buffers
  BY <1>1 DEF Informed, Decided, Aimed
<1>4. CASE Retry(t)
  <2>1. pc'[t] = "oracleHint" /\ Forget(t)
    BY <1>1, <1>4 DEF Retry, Goto, TypeOK
  <2>2. QED
    BY <1>1, <1>2, <2>1, RestartedOn, ChainStill
<1>5. CASE /\ NodeAt(PeekPlace(t)).value = Own(e)
           /\ peek' = [peek EXCEPT ![t] = NodeAt(PeekPlace(t))]
           /\ Goto(t, "cas1")
           /\ UNCHANGED <<found, at, saved, side, ret>>
  <2>1. /\ pc'[t] = "cas1" /\ peek'[t] = NodeAt(PeekPlace(t))
        /\ UNCHANGED <<k, inner, outer, at, saved, side>>
    BY <1>1, <1>5 DEF Goto, TypeOK, found
  <2>2. Straddles(t)' /\ ~Attaching(t)'
    BY <1>1, <1>2, <2>1 DEF Straddles, Crosses, AtEdge, Attaching, Attaches, Extends
  <2>3. Attached' = Attached
    BY <1>1, <1>2, <2>2, AttachedStill
  <2>4. stage # "fill"
    BY <1>1, <1>3, <1>5 DEF PeekPlace, NodeAt
  <2>5. Aimed(t)' /\ Scanning(t)'
    BY <1>1, <1>2, <2>1, <2>2, <2>3, AimedOn DEF Working, Decided, Aimed
  <2>6. Informed(t)'
    BY <1>1, <1>2, <1>5, <2>1, <2>2, <2>4 DEF Informed, Decided, NodeAt, Link, PeekPlace
  <2>7. QED
    BY <1>1, <1>2, <2>1, <2>2, <2>5, <2>6, ChainStill
<1>6. QED
  BY <1>3, <1>4, <1>5 DEF Peek

\* A new buffer is its thread's own and changes nothing for the others.
LEMMA AttachChain ==
  ASSUME MemInv, MemInv', ChainInv, NEW t \in Threads, Body(t), Attach(t), UNCHANGED stage
  PROVE  ChainInv' /\ Unmoved
<1> DEFINE e == end[t]
           next == In(e, k[t])
<1>1. /\ Steady(t) /\ TypeOK /\ UNCHANGED <<request, lost, hint, size>> /\ end[t] \in End
      /\ Aimed(t) /\ Informed(t) /\ pc[t] = "attach" /\ Attaches(t)
      /\ ~Attaching(t) /\ t \in Busy /\ Attached \subseteq Public
  BY BodySteady, Knowledge, Learned DEF Body, Attach, Placed, Attaching, Busy
<1>2. PICK b \in Buffers \ heap :
        /\ heap' = heap \cup {b}
        /\ mem'  = [mem EXCEPT ![b] = NewBuffer(e, k[t].buf, elt[t])]
        /\ side' = [side EXCEPT ![t] = b]
  BY DEF Attach
<1>3. /\ pc'[t] = "cas1" /\ side'[t] = b
      /\ UNCHANGED <<k, inner, outer, at, saved, peek, end, op, elt>>
  BY <1>1, <1>2 DEF Attach, Goto, TypeOK, found, request
<1>4. Attaching(t)' /\ ~Straddles(t)' /\ ~Straddles(t) /\ op[t] = PUSH
  BY <1>1, <1>3 DEF Attaching, Attaches, Extends, Straddles, Crosses, AtEdge
<1>5. \A u \in Threads \ {t} : /\ Attaching(u)' <=> Attaching(u)
                               /\ side'[u] = side[u] /\ (Attaching(u) => side[u] \in heap)
  BY <1>1, OthersSame DEF Steady, MemInv, InvOwn
<1>6. Public' = Public /\ b \notin Public
  BY <1>1, <1>2, <1>3, <1>4, <1>5 DEF Public
<1>7. Attached' = Attached
  BY <1>1, <1>6 DEF Attached
<1>8. \A c \in Buffers : c # b => mem'[c] = mem[c]
  BY <1>1, <1>2 DEF TypeOK
<1>9. mem'[b] = NewBuffer(e, k[t].buf, elt[t])
  BY <1>1, <1>2 DEF TypeOK
<1>10. \A p \in Place : p.buf \in Public => mem'[p.buf][p.idx] = NodeAt(p)
  BY <1>6, <1>8 DEF NodeAt, Place
<1>11. \A u \in Threads \ {t} : Attaching(u) => mem'[side[u]] = mem[side[u]]
  BY <1>1, <1>2, <1>5, <1>8 DEF TypeOK
<1>12. k[t] \in Place /\ k[t].buf \in Attached /\ next \in Place /\ next.buf = k[t].buf /\ k[t].buf \in Buffers
  BY <1>1, PlacesAttached DEF ChainInv, Place
<1>13. mem'[k[t].buf] = mem[k[t].buf]
  BY <1>1, <1>6, <1>8, <1>12
<1>14. Aimed(t)' /\ Scanning(t)'
  BY <1>1, <1>3, <1>4, <1>7, <1>13, AimedOn DEF Working, Decided, Aimed
<1>15. Informed(t)'
  <2>1. NodeAt(In(end[t], k[t]))' = NodeAt(next)
    BY <1>3, <1>12, <1>13 DEF NodeAt
  <2>2. (mem[side[t]] = NewBuffer(end[t], k[t].buf, elt[t]))'
    BY <1>3, <1>9
  <2>3. op'[t] = PUSH /\ op'[t] # POP /\ inner'[t] = inner[t] /\ outer'[t] = outer[t] /\ end'[t] = e
    BY <1>3, <1>4 DEF PUSH, POP
  <2>4. inner[t].value # Own(e) /\ NodeAt(next).value # Own(e) /\ outer[t].value = Own(e)
    BY <1>1, <1>4 DEF Informed, Decided
  <2>5. QED
    BY <1>4, <2>1, <2>2, <2>3, <2>4 DEF Informed
<1>16. QED
  BY <1>1, <1>3, <1>6, <1>10, <1>11, <1>14, <1>15, ChainQuiet DEF Older

-----------------------------------------------------------------------------
(* The two exchanges *)

\* An exchange that fails: the operation starts over, and frees the buffer
\* that it would have attached.
LEMMA MissChain ==
  ASSUME MemInv, MemInv', ChainInv, NEW t \in Threads, Body(t), UNCHANGED <<stage, hint, size>>,
         pc[t] \in {"cas1", "cas2"}, Retry(t),
         IF Attaches(t) THEN Discard(t) ELSE UNCHANGED store
  PROVE  ChainInv' /\ Unmoved
<1>1. /\ Steady(t) /\ TypeOK /\ UNCHANGED <<request, lost>> /\ t \in Busy
      /\ (Attaching(t) <=> Attaches(t))
  BY BodySteady, Knowledge DEF Body, Busy, Attaching
<1>2. pc'[t] = "oracleHint" /\ Forget(t)
  BY <1>1 DEF Retry, Goto, TypeOK
<1>3. Aimed(t)' /\ Scanning(t)' /\ Informed(t)' /\ ~Attaching(t)'
  BY <1>2, RestartedOn
<1>4. CASE ~Attaches(t)
  BY <1>1, <1>2, <1>3, <1>4, ChainStill DEF store
<1>5. CASE Attaches(t)
  <2>1. /\ heap' = heap \ {side[t]} /\ mem' = [mem EXCEPT ![side[t]] = Split]
        /\ \A u \in Threads : Attaching(u) => side[u] \in Buffers /\ (side[u] = side[t] => u = t)
    BY <1>1, <1>5 DEF Discard, MemInv, InvOwn, TypeOK
  <2>2. Public' = Public /\ side[t] \notin Public
    BY <1>1, <1>3, <1>5, <2>1, OthersSame DEF Public, Steady
  <2>3. \A c \in Buffers : c # side[t] => mem'[c] = mem[c]
    BY <1>1, <2>1 DEF TypeOK
  <2>4. \A p \in Place : p.buf \in Public => mem'[p.buf][p.idx] = NodeAt(p)
    BY <2>2, <2>3 DEF NodeAt, Place
  <2>5. \A u \in Threads \ {t} : Attaching(u) => mem'[side[u]] = mem[side[u]]
    BY <2>1, <2>3
  <2>6. QED
    BY <1>1, <1>2, <1>3, <2>2, <2>4, <2>5, ChainQuiet DEF Older
<1>6. QED
  BY <1>4, <1>5

\* A successful exchange changes its own node only.
LEMMA HitFacts ==
  ASSUME MemInv, NEW p \in Place, p.buf \in Public, NEW old \in Node, Unchanged(p, old),
         NEW new \in Node, new.count = old.count + 1,
         mem' = [mem EXCEPT ![p.buf][p.idx] = new]
  PROVE  /\ \A c \in Buffers, i \in Slots :
              mem'[c][i] = IF c = p.buf /\ i = p.idx THEN new ELSE mem[c][i]
         /\ \A q \in Place : Older(NodeAt(q), mem'[q.buf][q.idx])
         /\ \A u \in Threads : Attaching(u) => mem'[side[u]] = mem[side[u]]
<1>1. TypeOK /\ p.buf \in Buffers /\ p.idx \in Slots
  BY DEF MemInv, Place
<1>2. \A c \in Buffers, i \in Slots : mem'[c][i] = IF c = p.buf /\ i = p.idx THEN new ELSE mem[c][i]
  BY <1>1 DEF TypeOK
<1>3. ASSUME NEW q \in Place PROVE Older(NodeAt(q), mem'[q.buf][q.idx])
  <2>1. NodeAt(q) \in Node /\ NodeAt(p) = old
    BY <1>1, LoadType DEF Unchanged
  <2>2. mem'[q.buf][q.idx] = IF q.buf = p.buf /\ q.idx = p.idx THEN new ELSE NodeAt(q)
    BY <1>2 DEF NodeAt, Place
  <2>3. QED
    BY <2>1, <2>2 DEF Older, Node, NodeAt
<1>4. ASSUME NEW u \in Threads, Attaching(u) PROVE mem'[side[u]] = mem[side[u]]
  <2>1. side[u] \in Buffers /\ side[u] # p.buf
    BY <1>1, <1>4 DEF MemInv, InvOwn, TypeOK, Public
  <2>2. QED
    BY <1>1, <2>1 DEF TypeOK
<1>5. QED
  BY <1>2, <1>3, <1>4

\* The first exchange changes a version and no value.
LEMMA CopyChain ==
  ASSUME MemInv, MemInv', ChainInv, NEW t \in Threads, Body(t), UNCHANGED <<stage, hint, size>>,
         pc[t] = "cas1", NEW p \in Place, p.buf \in Public, NEW old \in Node, Unchanged(p, old),
         mem' = [mem EXCEPT ![p.buf][p.idx] = CopyNode(old)], Goto(t, "cas2"),
         UNCHANGED <<heap, found, at, extra, ret>>
  PROVE  ChainInv' /\ Unmoved
<1> DEFINE e == end[t]
           next == In(e, k[t])
           now(q) == mem'[q.buf][q.idx]
<1>1. /\ Steady(t) /\ TypeOK /\ UNCHANGED <<request, lost>> /\ end[t] \in End
      /\ Aimed(t) /\ Informed(t) /\ Loaded(t) /\ t \in Busy
      /\ inner[t] \in Node /\ Attached \subseteq Public /\ Attached \subseteq Buffers
  BY BodySteady, Knowledge, Learned DEF Body, Busy
<1>2. /\ pc'[t] = "cas2"
      /\ UNCHANGED <<k, inner, outer, at, saved, side, peek, end, op, elt>>
  BY <1>1 DEF Goto, TypeOK, found, extra, request
<1>3. /\ Straddles(t)' <=> Straddles(t)
      /\ Attaching(t)' <=> Attaching(t)
  BY <1>2 DEF Straddles, Crosses, AtEdge, Attaching, Attaches, Extends
<1>4. CopyNode(old) \in Node /\ CopyNode(old).value = old.value /\ CopyNode(old).count = old.count + 1
  BY NodeType DEF Node
<1>5. /\ \A c \in Buffers, i \in Slots :
           mem'[c][i] = IF c = p.buf /\ i = p.idx THEN CopyNode(old) ELSE mem[c][i]
      /\ \A q \in Place : Older(NodeAt(q), now(q))
      /\ \A u \in Threads : Attaching(u) => mem'[side[u]] = mem[side[u]]
  BY <1>4, HitFacts
<1>6. \A c \in Buffers, i \in Slots : mem'[c][i].value = mem[c][i].value
  BY <1>4, <1>5 DEF Unchanged, NodeAt
<1>7. \A q \in Place : /\ now(q).value = NodeAt(q).value
                       /\ NodeAt(q) \in Node /\ now(q) \in Node
  BY <1>1, <1>6, LoadType DEF NodeAt, Place, MemInv, TypeOK
<1>8. Public' = Public /\ Attached' = Attached
  BY <1>1, <1>2, <1>3, AttachedStill
<1>9. /\ k[t] \in Place /\ k[t].buf \in Attached /\ next \in Place
      /\ Straddles(t) => PeekPlace(t) \in Place
  BY PlacesAttached DEF ChainInv
<1>10. Rim(e) \in Slots /\ Far(e) \in Slots
  BY <1>1, SlotType
<1>11. Aimed(t)' /\ Scanning(t)'
  BY <1>1, <1>2, <1>3, <1>6, <1>8, <1>9, <1>10, AimedOn DEF Working, Decided, Aimed
<1>12. Informed(t)'
  <2>1. /\ NodeAt(In(end[t], k[t]))' = now(next) /\ NodeAt(k[t])' = now(k[t])
        /\ NodeAt(PeekPlace(t))' = now(PeekPlace(t))
        /\ Link(k[t].buf, end[t])' = mem'[k[t].buf][Rim(e)].value
    BY <1>2 DEF NodeAt, PeekPlace, Link
  <2>2. mem'[k[t].buf][Rim(e)].value = Link(k[t].buf, e)
    BY <1>1, <1>6, <1>9, <1>10 DEF Link
  <2>3. op[t] = POP /\ inner[t].value = Other(e) => inner[t] # now(next)
    <3>1. ASSUME op[t] = POP, inner[t].value = Other(e) PROVE inner[t] # now(next)
      <4>1. inner[t] # NodeAt(next) /\ Older(inner[t], NodeAt(next))
        BY <1>1, <3>1 DEF Informed, Loaded, Decided
      <4>2. QED
        BY <1>1, <1>5, <1>7, <1>9, <4>1 DEF Older, Node
    <3>2. QED
      BY <3>1
  <2>4. Attaching(t)' => (mem[side[t]] = NewBuffer(end[t], k[t].buf, elt[t]))'
    BY <1>1, <1>2, <1>3, <1>5 DEF Informed
  <2>5. QED
    BY <1>1, <1>2, <1>3, <1>7, <1>9, <2>1, <2>2, <2>3, <2>4 DEF Informed, Decided
<1>13. QED
  BY <1>1, <1>2, <1>5, <1>7, <1>8, <1>11, <1>12, ChainQuiet

LEMMA Cas1Chain ==
  ASSUME MemInv, MemInv', ChainInv, NEW t \in Threads, Body(t), Cas1(t), UNCHANGED stage
  PROVE  ChainInv' /\ Unmoved
<1>1. /\ pc[t] = "cas1" /\ inner[t] \in Node /\ outer[t] \in Node /\ peek[t] \in Node
  BY Knowledge DEF Cas1
<1>2. ASSUME NEW p \in Place, p.buf \in Public, NEW n \in Node,
             Exchange(t, p, n, CopyNode(n), "cas2")
      PROVE  ChainInv' /\ Unmoved
  <2>1. CASE Unchanged(p, n)
    BY <1>1, <1>2, <2>1, CopyChain DEF Exchange
  <2>2. CASE ~Unchanged(p, n)
    BY <1>1, <1>2, <2>2, MissChain DEF Exchange
  <2>3. QED
    BY <2>1, <2>2
<1>3. QED
  BY <1>1, <1>2, CasPlaces DEF Cas1

\* The thread whose exchange has taken effect has only the hint and size to
\* update.
LEMMA TookEffect ==
  ASSUME NEW t \in Threads, Aimed(t), pc[t] = "cas2", pc'[t] = "moveHint", stage' = stage,
         UNCHANGED <<end, op, k, at, saved, side>>, Attached \subseteq Attached',
         side[t] \in Buffers => side[t] \in Attached',
         op[t] = POP => k[t].idx # Entry(end[t])
  PROVE  Aimed(t)' /\ Scanning(t)' /\ Informed(t)'
BY DEF Aimed, Scanning, Informed, AttachedPlace, Working, Decided, Attaching

\* A pop takes an element: the outermost one at its end.
LEMMA PopTakes ==
  ASSUME MemInv, ChainInv, NEW t \in Threads, pc[t] = "cas2", op[t] = POP,
         Unchanged(In(end[t], k[t]), inner[t])
  PROVE  /\ inner[t].value \in Elts /\ k[t].idx # Entry(end[t]) /\ stage = "drain"
         /\ k[t] \in Place /\ k[t].buf \in Attached
         /\ In(end[t], k[t]) = [buf |-> k[t].buf, idx |-> Inward(end[t], k[t].idx)]
         /\ Inward(end[t], k[t].idx) \in Inner
<1> DEFINE e == end[t]
           next == In(e, k[t])
<1>1. /\ Aimed(t) /\ Informed(t) /\ e \in End /\ inner[t] \in Node
      /\ \A b \in Attached : mem[b][Far(e)].value \in Attached \cup {Other(e)}
      /\ Attached \subseteq Buffers /\ t \in Busy
  BY Knowledge, Learned DEF Busy
<1>2. stage = "drain"
  BY <1>1 DEF ChainInv, InvStage, PUSH, POP
<1>3. /\ k[t] \in Place /\ k[t].buf \in Attached /\ next \in Place
      /\ next = [buf |-> k[t].buf, idx |-> Inward(e, k[t].idx)]
  <2>1. k[t] \in Place /\ k[t].buf \in Attached /\ next \in Place
    BY PlacesAttached DEF ChainInv
  <2>2. QED
    BY <2>1 DEF In, Place
<1>4. NodeAt(next) = inner[t]
  BY DEF Unchanged
<1>5. inner[t].value # Other(e) /\ inner[t].value # Own(e) /\ k[t].idx # Far(e)
  BY <1>1, <1>4 DEF Informed, Aimed, Decided
<1>6. k[t].idx # Entry(e)
  <2>1. ASSUME k[t].idx = Entry(e) PROVE FALSE
    <3>1. mem[k[t].buf][Far(e)].value = Other(e)
      BY <1>1, <1>2, <2>1 DEF Aimed, Working, Decided
    <3>2. Inward(e, Entry(e)) = Far(e)
      BY <1>1, Indices DEF Entry
    <3>3. QED
      BY <1>3, <1>4, <1>5, <2>1, <3>1, <3>2 DEF NodeAt
  <2>2. QED
    BY <2>1
<1>7. Inward(e, k[t].idx) \in Inner
  BY <1>1, <1>3, <1>5, <1>6, Indices DEF Entry, Place
<1>8. inner[t].value \notin Buffers
  BY <1>1, <1>3, <1>4, <1>7 DEF ChainInv, InvLinks, Ordered, NodeAt
<1>9. inner[t].value \in Elts
  BY <1>1, <1>5, <1>8, NullFacts DEF Node, Value
<1>10. QED
  BY <1>2, <1>3, <1>6, <1>7, <1>9

LEMMA PopChain ==
  ASSUME MemInv, MemInv', ChainInv, NEW t \in Threads, Body(t), UNCHANGED <<stage, hint, size>>,
         pc[t] = "cas2", op[t] = POP, Unchanged(In(end[t], k[t]), inner[t]),
         mem' = [mem EXCEPT ![In(end[t], k[t]).buf][In(end[t], k[t]).idx] = SetNode(Own(end[t]), inner[t])],
         Goto(t, "moveHint"), UNCHANGED <<heap, found, at, extra, ret>>
  PROVE  ChainInv' /\ Popped(t)
<1> DEFINE e == end[t]
           b == k[t].buf
           i == Inward(e, k[t].idx)
           p == [buf |-> b, idx |-> i]
<1>1. /\ Steady(t) /\ TypeOK /\ UNCHANGED <<request, lost>> /\ e \in End
      /\ Aimed(t) /\ Informed(t) /\ t \in Busy /\ inner[t] \in Node
      /\ Attached \subseteq Public /\ Attached \subseteq Buffers
  BY BodySteady, Knowledge, Learned DEF Body, Busy
<1>2. /\ pc'[t] = "moveHint"
      /\ UNCHANGED <<k, inner, outer, at, saved, side, peek, end, op, elt>>
  BY <1>1 DEF Goto, TypeOK, found, extra, request
<1>3. ~Attaching(t) /\ ~Attaching(t)'
  BY <1>2 DEF Attaching, Attaches, Extends, PUSH, POP
<1>4. /\ inner[t].value \in Elts /\ k[t].idx # Entry(e) /\ stage = "drain"
      /\ k[t] \in Place /\ b \in Attached /\ In(e, k[t]) = p /\ i \in Inner
  BY PopTakes
<1>5. p \in Place /\ p.buf \in Public /\ NodeAt(p) = inner[t] /\ Inner \subseteq Slots
  BY <1>1, <1>4, Indices DEF Place, Unchanged
<1>6. /\ SetNode(Own(e), inner[t]) \in Node /\ SetNode(Own(e), inner[t]).value = Own(e)
      /\ SetNode(Own(e), inner[t]).count = inner[t].count + 1
  BY <1>1, NodeType, OwnType
<1>7. /\ \A c \in Buffers, j \in Slots :
           mem'[c][j] = IF c = b /\ j = i THEN SetNode(Own(e), inner[t]) ELSE mem[c][j]
      /\ \A q \in Place : Older(NodeAt(q), mem'[q.buf][q.idx])
      /\ \A u \in Threads : Attaching(u) => mem'[side[u]] = mem[side[u]]
  <2>1. Unchanged(p, inner[t]) /\ mem' = [mem EXCEPT ![p.buf][p.idx] = SetNode(Own(e), inner[t])]
    BY <1>4
  <2>2. p.buf = b /\ p.idx = i
    OBVIOUS
  <2> HIDE DEF p
  <2>3. /\ \A c \in Buffers, j \in Slots :
             mem'[c][j] = IF c = p.buf /\ j = p.idx THEN SetNode(Own(e), inner[t]) ELSE mem[c][j]
        /\ \A q \in Place : Older(NodeAt(q), mem'[q.buf][q.idx])
        /\ \A u \in Threads : Attaching(u) => mem'[side[u]] = mem[side[u]]
    BY <1>1, <1>5, <1>6, <2>1, HitFacts
  <2>4. QED
    BY <2>2, <2>3
<1>8. \A c \in Attached, j \in Slots : mem'[c][j].value = IF c = b /\ j = i THEN Own(e) ELSE mem[c][j].value
  BY <1>1, <1>6, <1>7
<1>9. Public' = Public /\ Attached' = Attached
  BY <1>1, <1>3, AttachedStill
<1>10. \/ mem[b][Outward(e, i)].value = Own(e)
       \/ /\ Outward(e, i) = Rim(e) /\ Link(b, e) \in Buffers
          /\ mem[Link(b, e)][Entry(e)].value = Own(e)
  <2>1. Outward(e, i) = k[t].idx
    BY <1>1, <1>4, Indices DEF Place
  <2>2. CASE Straddles(t)
    BY <1>1, <2>1, <2>2 DEF Informed, Decided, Straddles, Crosses, AtEdge, PeekPlace, NodeAt
  <2>3. CASE ~Straddles(t)
    BY <1>1, <2>1, <2>3 DEF Informed, Decided, NodeAt
  <2>4. QED
    BY <2>2, <2>3
<1>11. InvLinks'
  <2>1. \A c \in Attached, f \in End : Link(c, f)' = Link(c, f)
    BY <1>4, <1>8, Indices DEF Link
  <2>2. \A c \in Attached, f \in End : Ordered(c, f)'
    <3>1. mem[b][i].value \in Elts /\ InvLinks
      BY <1>4, <1>5 DEF NodeAt, ChainInv
    <3>2. QED
      BY <1>1, <1>4, <1>8, <1>10, <3>1, OrderedPop
  <2>3. lost' \subseteq Public' /\ InvLinks /\ stage' # "fill"
    BY <1>1, <1>4, <1>9 DEF ChainInv, InvLinks
  <2>4. QED
    BY <1>9, <2>1, <2>2, <2>3, LinksKept
<1>12. InvHints'
  BY <1>9 DEF ChainInv, InvHints
<1>13. Gentle
  <2>1. ASSUME NEW q \in Place, q.buf \in Attached
        PROVE  LET m == NodeAt(q)
                   n == mem'[q.buf][q.idx]
               IN  /\ Older(m, n)
                   /\ m.value \in Buffers => n.value = m.value
                   /\ stage = "fill" => n.value = m.value \/ n.value \notin {LNULL, RNULL}
                   /\ stage = "drain" /\ m.value \in {LNULL, RNULL} => n.value = m.value
    <3>1. q.idx \in Slots /\ q = [buf |-> q.buf, idx |-> q.idx]
      BY DEF Place
    <3>2. CASE q = p
      BY <1>4, <1>5, <1>7, <3>2, NullFacts
    <3>3. CASE q # p
      BY <1>4, <1>7, <1>8, <2>1, <3>1, <3>3 DEF NodeAt
    <3>4. QED
      BY <3>2, <3>3
  <2>2. QED
    BY <2>1 DEF Gentle
<1>14. IsFiniteSet(Stored)' /\ SizeExact'
  <2>1. \A q \in [buf : Attached, idx : Inner] :
          NodeAt(q)'.value = IF q = p THEN Own(e) ELSE NodeAt(q).value
    BY <1>5, <1>8 DEF NodeAt
  <2>2. Held' \ {p} = Held \ {p}
    BY <1>9, <2>1 DEF Held
  <2>3. p \in Held /\ p \notin Held'
    BY <1>1, <1>4, <1>5, <1>9, <2>1, NullFacts DEF Held
  <2>4. /\ t \notin Debtors(PUSH) /\ t \notin Debtors(PUSH)'
        /\ t \notin Debtors(POP) /\ t \in Debtors(POP)'
    BY <1>2 DEF Debtors, PUSH, POP
  <2>5. size' = (size + 0) % ULONG /\ InvLinks /\ InvHints
    BY <1>1, SizeKept DEF ChainInv
  <2>6. QED
    BY <1>1, <1>11, <1>12, <2>2, <2>3, <2>4, <2>5, SizeAfter
<1>15. Aimed(t)' /\ Scanning(t)' /\ Informed(t)'
  BY <1>1, <1>2, <1>3, <1>4, <1>9, TookEffect DEF Aimed
<1>16. Popped(t)
  <2>1. mem[b][i].value = inner[t].value
    BY <1>5 DEF NodeAt
  <2>2. QED
    BY <1>4, <1>8, <1>9, <1>10, <2>1 DEF Popped
<1>17. QED
  BY <1>1, <1>2, <1>7, <1>9, <1>11, <1>12, <1>13, <1>14, <1>15, <1>16, ChainAssembled

\* A push puts its element in place of a null whose inner neighbour is taken.
LEMMA PushChain ==
  ASSUME MemInv, MemInv', ChainInv, NEW t \in Threads, Body(t), UNCHANGED <<stage, hint, size>>,
         pc[t] = "cas2", op[t] = PUSH, ~Attaches(t),
         NEW p \in Place, p.buf \in Attached, p.idx \in Inner, NodeAt(p).value = Own(end[t]),
         IF p.idx = Entry(end[t])
         THEN \A x \in Attached : Link(x, end[t]) = p.buf =>
                mem[x][Inward(end[t], Rim(end[t]))].value # Own(end[t])
         ELSE mem[p.buf][Inward(end[t], p.idx)].value # Own(end[t]),
         NEW old \in Node, Unchanged(p, old),
         mem' = [mem EXCEPT ![p.buf][p.idx] = SetNode(elt[t], old)],
         Goto(t, "moveHint"), UNCHANGED <<heap, found, at, extra, ret>>
  PROVE  ChainInv' /\ Filled(t)
<1> DEFINE e == end[t]
           b == p.buf
           i == p.idx
           v == elt[t]
<1>1. /\ Steady(t) /\ TypeOK /\ UNCHANGED <<request, lost>> /\ e \in End
      /\ Aimed(t) /\ Informed(t) /\ t \in Busy /\ v \in Elts
      /\ Attached \subseteq Public /\ Attached \subseteq Buffers
  BY BodySteady, Knowledge, Learned DEF Body, Busy, Placed
<1>2. /\ pc'[t] = "moveHint"
      /\ UNCHANGED <<k, inner, outer, at, saved, side, peek, end, op, elt>>
  BY <1>1 DEF Goto, TypeOK, found, extra, request
<1>3. ~Attaching(t) /\ ~Attaching(t)' /\ stage # "drain"
  BY <1>1, <1>2 DEF Attaching, ChainInv, InvStage, PUSH, POP
<1>4. p \in Place /\ b \in Public /\ NodeAt(p) = old /\ Inner \subseteq Slots
  BY <1>1, Indices DEF Unchanged
<1>5. SetNode(v, old) \in Node /\ SetNode(v, old).value = v /\ SetNode(v, old).count = old.count + 1
  BY <1>1, NodeType DEF Value
<1>6. /\ \A c \in Buffers, j \in Slots :
           mem'[c][j] = IF c = b /\ j = i THEN SetNode(v, old) ELSE mem[c][j]
      /\ \A q \in Place : Older(NodeAt(q), mem'[q.buf][q.idx])
      /\ \A u \in Threads : Attaching(u) => mem'[side[u]] = mem[side[u]]
  BY <1>4, <1>5, HitFacts
<1>7. \A c \in Attached, j \in Slots : mem'[c][j].value = IF c = b /\ j = i THEN v ELSE mem[c][j].value
  BY <1>1, <1>5, <1>6
<1>8. Public' = Public /\ Attached' = Attached
  BY <1>1, <1>3, AttachedStill
<1>9. v \notin {LNULL, RNULL} /\ v \notin Buffers /\ Own(e) \in {LNULL, RNULL}
  BY <1>1, NullFacts
<1>10. InvLinks'
  <2>1. \A c \in Attached, f \in End : Link(c, f)' = Link(c, f)
    BY <1>7, Indices DEF Link
  <2>2. \A c \in Attached, f \in End : Ordered(c, f)'
    <3>1. mem[b][i].value = Own(e) /\ InvLinks
      BY DEF NodeAt, ChainInv
    <3>2. QED
      BY <1>1, <1>7, <3>1, OrderedPush
  <2>3. ASSUME NEW c \in Attached, NEW f \in End, stage' = "fill"
        PROVE  mem'[c][Entry(f)].value # Own(f)
    <3>1. mem[c][Entry(f)].value # Own(f) /\ Entry(f) \in Slots /\ Own(f) \in {LNULL, RNULL}
      BY <2>3, Indices, NullFacts DEF ChainInv, InvLinks
    <3>2. QED
      BY <1>7, <1>9, <3>1
  <2>4. lost' \subseteq Public' /\ InvLinks
    BY <1>1, <1>8 DEF ChainInv, InvLinks
  <2>5. QED
    BY <1>8, <2>1, <2>2, <2>3, <2>4, LinksKept
<1>11. InvHints'
  BY <1>8 DEF ChainInv, InvHints
<1>12. Gentle
  <2>1. ASSUME NEW q \in Place, q.buf \in Attached
        PROVE  LET m == NodeAt(q)
                   n == mem'[q.buf][q.idx]
               IN  /\ Older(m, n)
                   /\ m.value \in Buffers => n.value = m.value
                   /\ stage = "fill" => n.value = m.value \/ n.value \notin {LNULL, RNULL}
                   /\ stage = "drain" /\ m.value \in {LNULL, RNULL} => n.value = m.value
    <3>1. q.idx \in Slots
      BY DEF Place
    <3>2. CASE q.buf = b /\ q.idx = i
      <4>1. NodeAt(q).value = Own(e) /\ mem'[q.buf][q.idx].value = v
        BY <1>7, <3>1, <3>2 DEF NodeAt
      <4>2. Own(e) \notin Buffers
        BY <1>1, NullFacts
      <4>3. QED
        BY <1>3, <1>6, <1>9, <2>1, <4>1, <4>2
    <3>3. CASE ~(q.buf = b /\ q.idx = i)
      BY <1>6, <1>7, <2>1, <3>1, <3>3 DEF NodeAt
    <3>4. QED
      BY <3>2, <3>3
  <2>2. QED
    BY <2>1 DEF Gentle
<1>13. IsFiniteSet(Stored)' /\ SizeExact'
  <2>1. \A q \in [buf : Attached, idx : Inner] :
          NodeAt(q)'.value = IF q.buf = b /\ q.idx = i THEN v ELSE NodeAt(q).value
    BY <1>4, <1>7 DEF NodeAt
  <2>2. \A q \in [buf : Attached, idx : Inner] : q.buf = b /\ q.idx = i => q = p
    BY DEF Place
  <2>3. Held' \ {p} = Held \ {p}
    BY <1>8, <2>1, <2>2 DEF Held
  <2>4. p \in [buf : Attached, idx : Inner]
    BY DEF Place
  <2>5. Own(e) \notin Elts
    BY <1>1, NullFacts
  <2>6. p \notin Held /\ p \in Held'
    BY <1>1, <1>8, <2>1, <2>4, <2>5 DEF Held
  <2>7. /\ t \notin Debtors(POP) /\ t \notin Debtors(POP)'
        /\ t \notin Debtors(PUSH) /\ t \in Debtors(PUSH)'
    BY <1>2 DEF Debtors, PUSH, POP
  <2>8. size' = (size + 0) % ULONG /\ InvLinks /\ InvHints
    BY <1>1, SizeKept DEF ChainInv
  <2>9. QED
    BY <1>1, <1>10, <1>11, <2>3, <2>6, <2>7, <2>8, SizeAfter
<1>14. Aimed(t)' /\ Scanning(t)' /\ Informed(t)'
  BY <1>1, <1>2, <1>3, <1>8, TookEffect DEF Aimed, PUSH, POP
<1>15. Filled(t)
  <2>1. mem[b][i].value = Own(e)
    BY DEF NodeAt
  <2>2. QED
    BY <1>1, <1>7, <1>8, <2>1 DEF Filled
<1>16. QED
  BY <1>1, <1>2, <1>6, <1>8, <1>10, <1>11, <1>12, <1>13, <1>14, <1>15, ChainAssembled

\* A push at the end of the chain links a new buffer that holds its element.
LEMMA ExtendChain ==
  ASSUME MemInv, MemInv', ChainInv, NEW t \in Threads, Body(t), UNCHANGED <<stage, hint, size>>,
         pc[t] = "cas2", op[t] = PUSH, Attaches(t), Unchanged(k[t], outer[t]),
         mem' = [mem EXCEPT ![k[t].buf][k[t].idx] = SetNode(side[t], outer[t])],
         Goto(t, "moveHint"), UNCHANGED <<heap, found, at, extra, ret>>
  PROVE  ChainInv' /\ Extended(t)
<1> DEFINE e == end[t]
           b == k[t].buf
           n == side[t]
           v == elt[t]
           p == [buf |-> n, idx |-> Entry(e)]
<1>1. /\ Steady(t) /\ TypeOK /\ UNCHANGED <<request, lost>> /\ e \in End
      /\ Aimed(t) /\ Informed(t) /\ t \in Busy /\ v \in Elts /\ outer[t] \in Node
      /\ Attached \subseteq Public /\ Attached \subseteq Buffers
  BY BodySteady, Knowledge, Learned DEF Body, Busy, Placed
<1>2. /\ pc'[t] = "moveHint"
      /\ UNCHANGED <<k, inner, outer, at, saved, side, peek, end, op, elt>>
  BY <1>1 DEF Goto, TypeOK, found, extra, request
<1>3. Attaching(t) /\ ~Attaching(t)' /\ stage # "drain"
  BY <1>1, <1>2 DEF Attaching, ChainInv, InvStage, PUSH, POP
<1>4. /\ k[t] \in Place /\ b \in Attached /\ k[t].idx = Rim(e) /\ outer[t].value = Own(e)
      /\ In(e, k[t]) = [buf |-> b, idx |-> Inward(e, Rim(e))]
  <2>1. k[t] \in Place /\ b \in Attached
    BY PlacesAttached DEF ChainInv
  <2>2. k[t].idx = Rim(e) /\ outer[t].value = Own(e)
    BY DEF Attaches, Extends, AtEdge
  <2>3. QED
    BY <2>1, <2>2 DEF In, Place
<1>5. /\ n \in Buffers /\ n \in heap /\ n \notin Public
      /\ \A u \in Threads : Attaching(u) /\ side[u] = n => u = t
  BY <1>1, <1>3 DEF MemInv, InvOwn, TypeOK, Public
<1>6. /\ SetNode(n, outer[t]) \in Node /\ SetNode(n, outer[t]).value = n
      /\ SetNode(n, outer[t]).count = outer[t].count + 1
  BY <1>1, <1>5, NodeType DEF Value
<1>7. /\ \A c \in Buffers, j \in Slots :
           mem'[c][j] = IF c = b /\ j = Rim(e) THEN SetNode(n, outer[t]) ELSE mem[c][j]
      /\ \A q \in Place : Older(NodeAt(q), mem'[q.buf][q.idx])
      /\ \A u \in Threads : Attaching(u) => mem'[side[u]] = mem[side[u]]
  <2>1. /\ \A c \in Buffers, j \in Slots :
             mem'[c][j] = IF c = b /\ j = k[t].idx THEN SetNode(n, outer[t]) ELSE mem[c][j]
        /\ \A q \in Place : Older(NodeAt(q), mem'[q.buf][q.idx])
        /\ \A u \in Threads : Attaching(u) => mem'[side[u]] = mem[side[u]]
    <3>1. k[t].buf \in Public /\ outer[t] \in Node
      BY <1>1, <1>4
    <3>2. PICK new \in Node : new = SetNode(n, outer[t])
      BY <1>6
    <3>3. /\ mem' = [mem EXCEPT ![k[t].buf][k[t].idx] = new] /\ new.count = outer[t].count + 1
          /\ k[t] \in Place /\ Unchanged(k[t], outer[t])
      BY <1>4, <1>6, <3>2
    <3>4. /\ \A c \in Buffers, j \in Slots :
               mem'[c][j] = IF c = k[t].buf /\ j = k[t].idx THEN new ELSE mem[c][j]
          /\ \A q \in Place : Older(NodeAt(q), mem'[q.buf][q.idx])
          /\ \A u \in Threads : Attaching(u) => mem'[side[u]] = mem[side[u]]
      BY <3>1, <3>3, HitFacts
    <3>5. QED
      BY <3>2, <3>4
  <2>2. QED
    BY <1>4, <2>1
<1>8. \A c \in Attached \cup {n}, j \in Slots :
        mem'[c][j].value = IF c = b /\ j = Rim(e) THEN n ELSE mem[c][j].value
  BY <1>1, <1>5, <1>6, <1>7
<1>9. /\ Public' = Public \cup {n} /\ lost' = lost /\ Attached' = Attached \cup {n}
      /\ lost' \subseteq Public' /\ n \notin Attached
  <2>1. \A u \in Threads \ {t} : (Attaching(u)' <=> Attaching(u)) /\ side'[u] = side[u]
    BY <1>1, OthersSame DEF Steady
  <2>2. Public' = Public \cup {n}
    BY <1>3, <1>5, <2>1 DEF Public
  <2>3. lost' = lost /\ lost \subseteq Public
    BY <1>1 DEF ChainInv, InvLinks
  <2>4. QED
    BY <1>5, <2>2, <2>3 DEF Attached
<1>10. Link(b, e) = Own(e) /\ mem[b][Inward(e, Rim(e))].value # Own(e) /\ mem[n] = NewBuffer(e, b, v)
  <2>1. Link(b, e) = Own(e)
    BY <1>4 DEF Unchanged, NodeAt, Link
  <2>2. inner[t].value # Own(e) /\ NodeAt(In(e, k[t])).value # Own(e)
    BY <1>1 DEF Informed, Decided
  <2>3. QED
    BY <1>1, <1>3, <1>4, <2>1, <2>2 DEF Informed, NodeAt
<1>11. /\ v \notin {LNULL, RNULL} /\ Own(e) \in {LNULL, RNULL} /\ n \notin {LNULL, RNULL}
       /\ Own(e) \notin Buffers /\ Own(e) \notin Elts /\ n \notin Elts
  BY <1>1, <1>5, NullFacts
<1>12. InvLinks'
  BY <1>1, <1>4, <1>5, <1>8, <1>9, <1>10, LinksAttach DEF ChainInv
<1>13. InvHints'
  BY <1>9 DEF ChainInv, InvHints
<1>14. Gentle
  <2>1. ASSUME NEW q \in Place, q.buf \in Attached
        PROVE  LET m == NodeAt(q)
                   r == mem'[q.buf][q.idx]
               IN  /\ Older(m, r)
                   /\ m.value \in Buffers => r.value = m.value
                   /\ stage = "fill" => r.value = m.value \/ r.value \notin {LNULL, RNULL}
                   /\ stage = "drain" /\ m.value \in {LNULL, RNULL} => r.value = m.value
    <3>1. q.idx \in Slots
      BY DEF Place
    <3>2. CASE q.buf = b /\ q.idx = Rim(e)
      <4>1. NodeAt(q).value = Own(e) /\ mem'[q.buf][q.idx].value = n
        BY <1>4, <1>8, <1>10, <3>1, <3>2 DEF NodeAt, Link
      <4>2. QED
        BY <1>3, <1>7, <1>11, <2>1, <4>1
    <3>3. CASE ~(q.buf = b /\ q.idx = Rim(e))
      BY <1>7, <1>8, <2>1, <3>1, <3>3 DEF NodeAt
    <3>4. QED
      BY <3>2, <3>3
  <2>2. QED
    BY <2>1 DEF Gentle
<1>15. IsFiniteSet(Stored)' /\ SizeExact'
  <2>1. \A q \in [buf : Attached \cup {n}, idx : Inner] : NodeAt(q)'.value = NodeAt(q).value
    <3>1. Rim(e) \notin Inner /\ Inner \subseteq Slots
      BY <1>1, Indices
    <3>2. QED
      BY <1>8, <3>1 DEF NodeAt
  <2>2. \A q \in [buf : {n}, idx : Inner] : NodeAt(q).value \in Elts <=> q = p
    <3>1. Entry(e) \in Inner /\ Far(e) \notin Inner /\ Inner \subseteq Slots
      BY <1>1, Indices
    <3>2. \A j \in Inner : mem[n][j].value = IF j = Entry(e) THEN v ELSE Own(e)
      BY <1>1, <1>10, <3>1, NewBufferValues
    <3>3. QED
      BY <1>1, <1>11, <3>2 DEF NodeAt
  <2>3. Entry(e) \in Inner
    BY <1>1, Indices
  <2>4. Held' = Held \cup {p} /\ p \notin Held
    <3>1. Held' = {q \in [buf : Attached \cup {n}, idx : Inner] : NodeAt(q).value \in Elts}
      BY <1>9, <2>1 DEF Held
    <3>2. p \in [buf : {n}, idx : Inner]
      BY <2>3
    <3>3. QED
      BY <1>9, <2>2, <3>1, <3>2 DEF Held
  <2>5. /\ t \notin Debtors(POP) /\ t \notin Debtors(POP)'
        /\ t \notin Debtors(PUSH) /\ t \in Debtors(PUSH)'
    BY <1>2 DEF Debtors, PUSH, POP
  <2>6. /\ size' = (size + 0) % ULONG /\ InvLinks /\ InvHints
        /\ Held' \ {p} = Held \ {p} /\ p \in Held'
    BY <1>1, <2>4, SizeKept DEF ChainInv
  <2>7. QED
    BY <1>1, <1>12, <1>13, <2>4, <2>5, <2>6, SizeAfter
<1>16. Aimed(t)' /\ Scanning(t)' /\ Informed(t)'
  BY <1>1, <1>2, <1>3, <1>9, TookEffect DEF Aimed, PUSH, POP
<1>17. Extended(t)
  BY <1>1, <1>4, <1>5, <1>8, <1>9, <1>10 DEF Extended
<1>18. QED
  BY <1>1, <1>2, <1>7, <1>9, <1>12, <1>13, <1>14, <1>15, <1>16, <1>17, ChainAssembled

LEMMA Cas2Chain ==
  ASSUME MemInv, MemInv', ChainInv, NEW t \in Threads, Body(t), Cas2(t), UNCHANGED stage
  PROVE  ChainInv' /\ Outcome(t)
<1> DEFINE e == end[t]
           next == In(e, k[t])
<1>1. /\ pc[t] = "cas2" /\ e \in End /\ op[t] \in Op
      /\ inner[t] \in Node /\ outer[t] \in Node /\ peek[t] \in Node
      /\ Aimed(t) /\ Informed(t) /\ TypeOK
  BY Knowledge, Learned DEF Cas2
<1>10. \A label : Goto(t, label) => pc'[t] = label
  BY <1>1 DEF Goto, TypeOK
<1>2. ASSUME NEW p, NEW old, NEW new, Exchange(t, p, old, new, "moveHint"), ~Unchanged(p, old)
      PROVE  ChainInv' /\ Outcome(t)
  BY <1>1, <1>2, <1>10, MissChain DEF Exchange, Retry, Outcome
<1>3. /\ k[t] \in Place /\ k[t].buf \in Attached /\ k[t].idx \in Slots
      /\ next = [buf |-> k[t].buf, idx |-> Inward(e, k[t].idx)]
  <2>1. k[t] \in Place /\ k[t].buf \in Attached
    BY <1>1, PlacesAttached DEF ChainInv
  <2>2. QED
    BY <2>1 DEF In, Place
<1>4. CASE op[t] = POP /\ Unchanged(next, inner[t])
  BY <1>1, <1>4, <1>10, PopChain DEF Cas2, Exchange, Outcome
<1>5. CASE op[t] = PUSH /\ Attaches(t) /\ Unchanged(k[t], outer[t])
  BY <1>1, <1>5, <1>10, ExtendChain DEF Cas2, Exchange, Outcome, Pushed, PUSH, POP
<1>6. CASE op[t] = PUSH /\ ~Attaches(t) /\ Straddles(t) /\ Unchanged(PeekPlace(t), peek[t])
  <2> DEFINE s == side[t]
  <2>1. /\ s = Link(k[t].buf, e) /\ s \in Buffers /\ s \in Attached /\ k[t].idx = Rim(e)
        /\ peek[t].value = Own(e) /\ NodeAt(next).value # Own(e)
    <3>1. ~Attaching(t)
      BY <1>6 DEF Attaching
    <3>2. QED
      BY <1>1, <1>6, <3>1 DEF Informed, Decided, Aimed, Straddles, Crosses, AtEdge
  <2>2. PICK p : p = PeekPlace(t)
    OBVIOUS
  <2>3. /\ p.buf = s /\ p.idx = Entry(e) /\ p \in Place /\ Entry(e) \in Inner
        /\ NodeAt(p).value = Own(e)
    BY <1>1, <1>6, <2>1, <2>2, Indices, SlotType DEF PeekPlace, Place, Unchanged
  <2>4. ASSUME NEW x \in Attached, Link(x, e) = s PROVE mem[x][Inward(e, Rim(e))].value # Own(e)
    <3>1. Linked(x, e) /\ Linked(k[t].buf, e)
      BY <1>1, <1>3 DEF ChainInv, InvLinks
    <3>2. x = k[t].buf
      BY <2>1, <2>4, <3>1 DEF Linked
    <3>3. QED
      BY <1>3, <2>1, <3>2 DEF NodeAt
  <2>5. /\ mem' = [mem EXCEPT ![p.buf][p.idx] = SetNode(elt[t], peek[t])]
        /\ Goto(t, "moveHint") /\ UNCHANGED <<heap, hint, size, found, at, extra, ret>>
        /\ Unchanged(p, peek[t])
    BY <1>6, <2>2 DEF Cas2, Exchange, PUSH, POP
  <2>6. QED
    BY <1>1, <1>6, <1>10, <2>1, <2>3, <2>4, <2>5, PushChain DEF Outcome, Pushed, PUSH, POP
<1>7. CASE op[t] = PUSH /\ ~Attaches(t) /\ ~Straddles(t) /\ Unchanged(k[t], outer[t])
  <2>1. /\ outer[t].value = Own(e) /\ k[t].idx # Rim(e) /\ NodeAt(k[t]).value = Own(e)
        /\ NodeAt(next).value # Own(e) /\ k[t].idx # Far(e)
    BY <1>1, <1>7 DEF Informed, Decided, Aimed, Attaches, Extends, AtEdge, Unchanged
  <2>2. k[t].idx \in Inner
    BY <1>1, <1>3, <2>1, Indices
  <2>3. CASE k[t].idx = Entry(e)
    <3>1. mem[k[t].buf][Far(e)].value = Other(e)
      <4>1. NodeAt(k[t]) = mem[k[t].buf][Entry(e)]
        BY <2>3 DEF NodeAt
      <4>2. stage # "fill"
        BY <1>1, <1>3, <2>1, <4>1 DEF ChainInv, InvLinks
      <4>3. QED
        BY <1>1, <2>3, <4>2 DEF Aimed, Working, Decided
    <3>2. ASSUME NEW x \in Attached, Link(x, e) = k[t].buf PROVE FALSE
      <4>1. Linked(x, e) /\ k[t].buf \in Buffers /\ x \in Buffers
        BY <1>1, <1>3, AttachedFacts DEF ChainInv, InvLinks, Place
      <4>2. mem[k[t].buf][Far(e)].value = x
        BY <1>1, <3>2, <4>1, Opposites DEF Linked, Link
      <4>3. QED
        BY <1>1, <3>1, <4>1, <4>2, NullFacts
    <3>3. \A x \in Attached : Link(x, e) = k[t].buf => mem[x][Inward(e, Rim(e))].value # Own(e)
      BY <3>2
    <3>4. QED
      BY <1>1, <1>3, <1>7, <2>1, <2>2, <2>3, <1>10, <3>3, PushChain
      DEF Cas2, Exchange, Outcome, Pushed, PUSH, POP
  <2>4. CASE k[t].idx # Entry(e)
    <3>1. mem[k[t].buf][Inward(e, k[t].idx)].value # Own(e)
      BY <1>3, <2>1 DEF NodeAt
    <3>2. QED
      BY <1>1, <1>3, <1>7, <2>1, <2>2, <2>4, <1>10, <3>1, PushChain
      DEF Cas2, Exchange, Outcome, Pushed, PUSH, POP
  <2>5. QED
    BY <2>3, <2>4
<1>8. op[t] = PUSH \/ op[t] = POP
  BY <1>1 DEF Op
<1>9. QED
  BY <1>1, <1>2, <1>4, <1>5, <1>6, <1>7, <1>8 DEF Cas2

\* The hint of the end moves next to where the operation took place, which
\* is no edge that a link may take up.
LEMMA NewHintPlace ==
  ASSUME MemInv, ChainInv, NEW t \in Threads, pc[t] = "moveHint"
  PROVE  /\ NewHint(t).buf \in Attached /\ NewHint(t).idx # Far(end[t])
         /\ stage = "fill" => NewHint(t).idx # Entry(end[t])
<1> DEFINE e == end[t]
<1>1. /\ Aimed(t) /\ e \in End /\ op[t] \in Op /\ Placed(t) /\ t \in Busy
  BY Knowledge, Learned DEF Busy
<1>2. k[t] \in Place /\ k[t].buf \in Attached /\ k[t].idx \in Slots /\ k[t].idx # Far(e)
  <2>1. k[t] \in Place /\ k[t].buf \in Attached
    BY <1>1, PlacesAttached DEF ChainInv
  <2>2. QED
    BY <1>1, <2>1 DEF Place, Aimed
<1>3. /\ Entry(e) \in Slots /\ Entry(e) = Outward(e, Far(e)) /\ Rim(e) # Far(e)
      /\ Far(e) \in Slots /\ Rim(e) \in Slots
      /\ Outward(e, Rim(e)) = Far(e) /\ Entry(e) # Far(e) /\ Entry(e) # Rim(e)
      /\ \A i \in Slots : Inward(e, Outward(e, i)) = i /\ Outward(e, Inward(e, i)) = i
  BY <1>1, Indices DEF Entry
<1>4. CASE op[t] = POP
  <2>1. stage = "drain" /\ k[t].idx # Entry(e)
    BY <1>1, <1>4 DEF ChainInv, InvStage, Aimed, PUSH, POP
  <2>2. NewHint(t).buf = k[t].buf /\ NewHint(t).idx = Inward(e, k[t].idx)
    BY <1>2, <1>4 DEF NewHint, In, Place
  <2>3. QED
    BY <1>2, <1>3, <2>1, <2>2
<1>5. CASE op[t] = PUSH /\ AtEdge(t)
  <2>1. side[t] \in Attached
    BY <1>1, <1>5 DEF Placed, Aimed, Attaching
  <2>2. NewHint(t).buf = side[t] /\ NewHint(t).idx = Outward(e, Entry(e))
    BY <1>5 DEF NewHint, Out, PeekPlace, PUSH, POP
  <2>3. Outward(e, Entry(e)) # Far(e) /\ Outward(e, Entry(e)) # Entry(e)
    BY <1>1, <1>3
  <2>4. QED
    BY <2>1, <2>2, <2>3
<1>6. CASE op[t] = PUSH /\ ~AtEdge(t)
  <2>1. NewHint(t).buf = k[t].buf /\ NewHint(t).idx = Outward(e, k[t].idx)
    BY <1>2, <1>6 DEF NewHint, Out, Place, PUSH, POP
  <2>2. k[t].idx # Rim(e)
    BY <1>6 DEF AtEdge
  <2>3. QED
    BY <1>2, <1>3, <2>1, <2>2
<1>7. QED
  BY <1>1, <1>4, <1>5, <1>6 DEF Op

\* What follows from memory staying as it is.
LEMMA MemoryStill ==
  ASSUME MemInv, ChainInv, NEW t \in Threads, Steady(t), UNCHANGED <<mem, heap, lost, stage>>,
         ~Attaching(t), ~Attaching(t)'
  PROVE  /\ Public' = Public /\ Attached' = Attached /\ Held' = Held /\ Gentle /\ InvLinks'
<1>1. Public' = Public /\ Attached' = Attached
  BY AttachedStill
<1>2. Held' = Held
  BY <1>1 DEF Held, NodeAt
<1>3. Gentle
  BY DEF Gentle, Older, NodeAt
<1>4. InvLinks'
  BY <1>1, LinksSame DEF ChainInv, InvLinks
<1>5. QED
  BY <1>1, <1>2, <1>3, <1>4

LEMMA MoveHintChain ==
  ASSUME MemInv, MemInv', ChainInv, NEW t \in Threads, Body(t), MoveHint(t), UNCHANGED stage
  PROVE  ChainInv' /\ Unmoved
<1>1. /\ Steady(t) /\ TypeOK /\ UNCHANGED <<request, lost, size>> /\ end[t] \in End
      /\ Aimed(t) /\ pc[t] = "moveHint" /\ ~Attaching(t) /\ t \in Busy
  BY BodySteady, Knowledge, Learned DEF Body, MoveHint, Attaching, Busy
<1>2. /\ pc'[t] = "resize"
      /\ UNCHANGED <<mem, heap, k, at, inner, outer, saved, side, peek, end, op>>
  BY <1>1 DEF MoveHint, Goto, TypeOK, store, found, extra, request
<1>3. ~Attaching(t)'
  BY <1>2 DEF Attaching
<1>4. /\ Public' = Public /\ Attached' = Attached /\ Held' = Held /\ Gentle /\ InvLinks'
  BY <1>1, <1>2, <1>3, MemoryStill
<1>5. InvHints'
  <2>1. /\ hint'[end[t]] \in {hint[end[t]], NewHint(t)}
        /\ \A f \in End : f # end[t] => hint'[f] = hint[f]
    BY <1>1 DEF MoveHint, TypeOK
  <2>2. QED
    BY <1>1, <1>4, <2>1, NewHintPlace DEF ChainInv, InvHints
<1>6. IsFiniteSet(Stored)' /\ SizeExact'
  <2>1. \A o \in Op : t \in Debtors(o) <=> t \in Debtors(o)'
    BY <1>1, <1>2 DEF Debtors
  <2>2. size' = (size + 0) % ULONG /\ PUSH \in Op /\ POP \in Op
    BY <1>1, SizeKept DEF Op
  <2>3. PICK p : p = Nowhere
    OBVIOUS
  <2>4. QED
    BY <1>1, <1>4, <1>5, <2>1, <2>2, <2>3, SizeAfter
<1>7. Aimed(t)' /\ Scanning(t)' /\ Informed(t)'
  BY <1>1, <1>2, <1>3, <1>4 DEF Aimed, Scanning, Informed, AttachedPlace, Working, Decided
<1>8. QED
  BY <1>1, <1>2, <1>4, <1>5, <1>6, <1>7, ChainAssembled DEF Unmoved

LEMMA ResizeChain ==
  ASSUME MemInv, MemInv', ChainInv, NEW t \in Threads, Body(t), Resize(t), UNCHANGED stage
  PROVE  ChainInv' /\ Unmoved
<1>1. /\ Steady(t) /\ TypeOK /\ UNCHANGED <<request, lost, hint, mem, heap>> /\ op[t] \in Op
      /\ pc[t] = "resize" /\ ~Attaching(t) /\ t \in Busy /\ size' = Resized(op[t], size)
  BY BodySteady, Knowledge DEF Body, Resize, Attaching, Busy, store
<1>2. pc'[t] = "idle" /\ Forget(t) /\ UNCHANGED op
  BY <1>1 DEF Resize, Return, Goto, TypeOK, request
<1>3. Aimed(t)' /\ Scanning(t)' /\ Informed(t)' /\ ~Attaching(t)'
  BY <1>2, RestartedOn
<1>4. /\ Public' = Public /\ Attached' = Attached /\ Held' = Held /\ Gentle /\ InvLinks'
  BY <1>1, <1>3, MemoryStill
<1>5. InvHints'
  BY <1>1, <1>4 DEF ChainInv, InvHints
<1>6. IsFiniteSet(Stored)' /\ SizeExact'
  <2>1. \A o \in Op : (t \in Debtors(o) <=> op[t] = o) /\ t \notin Debtors(o)'
    BY <1>1, <1>2 DEF Debtors
  <2>2. PUSH \in Op /\ POP \in Op /\ PUSH # POP /\ size \in Int
    BY <1>1, ULONGAssumption DEF TypeOK, Word, Op, PUSH, POP
  <2>3. PICK p : p = Nowhere
    OBVIOUS
  <2>4. CASE op[t] = PUSH
    <3>1. size' = (size + 1) % ULONG
      BY <1>1, <2>2, <2>4 DEF Resized
    <3>2. t \in Debtors(PUSH) /\ t \notin Debtors(POP) /\ t \notin Debtors(PUSH)' /\ t \notin Debtors(POP)'
      BY <2>1, <2>2, <2>4
    <3>3. QED
      BY <1>1, <1>4, <1>5, <2>3, <3>1, <3>2, SizeAfter
  <2>5. CASE op[t] = POP
    <3>1. size' = (size + (-1)) % ULONG
      BY <1>1, <2>2, <2>5 DEF Resized
    <3>2. t \notin Debtors(PUSH) /\ t \in Debtors(POP) /\ t \notin Debtors(PUSH)' /\ t \notin Debtors(POP)'
      BY <2>1, <2>2, <2>5
    <3>3. QED
      BY <1>1, <1>4, <1>5, <2>3, <3>1, <3>2, SizeAfter
  <2>6. QED
    BY <1>1, <2>4, <2>5 DEF Op
<1>7. QED
  BY <1>1, <1>2, <1>3, <1>4, <1>5, <1>6, ChainAssembled DEF Unmoved

LEMMA BodyChain ==
  ASSUME MemInv, MemInv', ChainInv, NEW t \in Threads, Body(t), UNCHANGED stage
  PROVE  ChainInv' /\ Outcome(t)
<1>1. CASE Cas2(t)
  BY <1>1, Cas2Chain
<1>2. CASE ~Cas2(t)
  <2>1. ChainInv' /\ Unmoved
    BY <1>2, SaveHintChain, LoadInnerChain, LoadOuterChain, RecheckChain, AttachChain,
       ReloadChain, PeekChain, Cas1Chain, MoveHintChain, ResizeChain DEF Body
  <2>2. pc[t] # "cas2"
    BY <1>2 DEF Body, SaveHint, LoadInner, LoadOuter, Recheck, Attach, Reload, Peek, Cas1,
                MoveHint, Resize
  <2>3. QED
    BY <2>1, <2>2 DEF Outcome
<1>3. QED
  BY <1>1, <1>2

-----------------------------------------------------------------------------
(* Calls *)

LEMMA IdleLater ==
  ASSUME NEW t \in Threads
  PROVE  MemInv' /\ pc'[t] = "idle" => Aimed(t)' /\ Scanning(t)' /\ Informed(t)'
<1>1. (MemInv /\ pc[t] = "idle" => Aimed(t) /\ Scanning(t) /\ Informed(t))'
  BY IdleHolds, PTL
<1>2. QED
  BY <1>1

\* A thread's knowledge outlasts a step that leaves it and the memory alone.
LEMMA StillHolds ==
  ASSUME NEW u \in Threads, Aimed(u), Scanning(u), Informed(u),
         Attached' = Attached, mem' = mem, stage' = stage,
         pc'[u] = pc[u], end'[u] = end[u], op'[u] = op[u], elt'[u] = elt[u],
         k'[u] = k[u], at'[u] = at[u], saved'[u] = saved[u], side'[u] = side[u],
         inner'[u] = inner[u], outer'[u] = outer[u], peek'[u] = peek[u]
  PROVE  Aimed(u)' /\ Scanning(u)' /\ Informed(u)'
<1>1. /\ Straddles(u)' <=> Straddles(u)
      /\ Attaching(u)' <=> Attaching(u)
      /\ AtEdge(u)' <=> AtEdge(u)
  BY DEF Straddles, Crosses, AtEdge, Attaching, Attaches, Extends
<1>2. /\ NodeAt(In(end[u], k[u]))' = NodeAt(In(end[u], k[u])) /\ NodeAt(k[u])' = NodeAt(k[u])
      /\ NodeAt(at[u])' = NodeAt(at[u]) /\ NodeAt(PeekPlace(u))' = NodeAt(PeekPlace(u))
      /\ Link(k[u].buf, end[u])' = Link(k[u].buf, end[u])
  BY DEF NodeAt, PeekPlace, Link
<1>3. Aimed(u)'
  BY <1>1 DEF Aimed, AttachedPlace
<1>4. Scanning(u)'
  BY <1>1, <1>2 DEF Scanning
<1>5. Informed(u)'
  BY <1>1, <1>2 DEF Informed
<1>6. QED
  BY <1>3, <1>4, <1>5

\* A call is admitted when it cannot meet one of the other kind.
LEMMA CallChain ==
  ASSUME MemInv, MemInv', ChainInv, NEW t \in Threads, Call(t), Admit(t)
  PROVE  ChainInv'
<1>1. /\ Steady(t) /\ TypeOK /\ pc[t] = "idle" /\ Placed(t)
      /\ UNCHANGED <<mem, heap, hint, size, lost>>
  BY CallSteady, Knowledge DEF Call, shared, store
<1>2. /\ pc'[t] = "oracleHint" /\ op'[t] \in Op
      /\ UNCHANGED <<k, at, inner, outer, saved, side, peek>>
  <2>1. PICK w \in Workload : op' = [op EXCEPT ![t] = w[2]]
    BY DEF Call
  <2>2. op'[t] \in Op
    BY <1>1, <2>1, WorkloadAssumption DEF TypeOK
  <2>3. QED
    BY <1>1, <2>2 DEF Call, Goto, TypeOK, found, extra
<1>3. ~Attaching(t) /\ ~Attaching(t)' /\ t \notin Busy /\ Busy' = Busy \cup {t}
  BY <1>1, <1>2 DEF Attaching, Busy, Steady
<1>4. Public' = Public /\ Attached' = Attached
  BY <1>1, <1>3, AttachedStill
<1>5. /\ stage' \in {"fill", "drain", "refill"} /\ (stage' = "fill" => stage = "fill")
      /\ Busy = {} \/ (stage' = stage /\ stage # "refill")
      /\ op'[t] = IF stage' = "drain" THEN POP ELSE PUSH
  <2>1. AllIdle => Busy = {}
    BY DEF AllIdle, Busy
  <2>2. stage \in {"fill", "drain", "refill"}
    BY DEF ChainInv, InvStage
  <2>3. QED
    BY <1>2, <2>1, <2>2 DEF Admit, Op
<1>6. InvStage'
  <2>1. \A u \in Busy' : op'[u] = IF stage' = "drain" THEN POP ELSE PUSH
    <3> SUFFICES ASSUME NEW u \in Busy' PROVE op'[u] = IF stage' = "drain" THEN POP ELSE PUSH
      OBVIOUS
    <3>1. CASE u = t
      BY <1>5, <3>1
    <3>2. CASE u # t
      <4>1. u \in Busy /\ u \in Threads /\ op'[u] = op[u]
        BY <1>1, <1>3, <3>2 DEF Steady, Busy
      <4>2. QED
        BY <1>5, <4>1 DEF ChainInv, InvStage
    <3>3. QED
      BY <3>1, <3>2
  <2>2. stage' = "refill" => Busy' = {t}
    BY <1>3, <1>5
  <2>3. QED
    BY <1>5, <2>1, <2>2 DEF InvStage
<1>7. InvLinks' /\ InvHints'
  <2>1. InvLinks'
    BY <1>1, <1>4, <1>5, LinksSame DEF ChainInv, InvLinks
  <2>2. InvHints'
    BY <1>1, <1>4, <1>5 DEF ChainInv, InvHints
  <2>3. QED
    BY <2>1, <2>2
<1>8. InvThreads'
  <2>1. Aimed(t)' /\ Scanning(t)' /\ Informed(t)'
    <3>1. Forgotten(t) /\ NULL \notin Buffers
      BY <1>1 DEF Placed
    <3>2. Forgotten(t)'
      BY <1>2, <3>1 DEF Forgotten
    <3>3. QED
      BY <1>2, <1>3, <3>1, <3>2
         DEF Forgotten, Aimed, Scanning, Informed, AttachedPlace, Working, Decided
  <2>2. ASSUME NEW u \in Threads, u # t PROVE Aimed(u)' /\ Scanning(u)' /\ Informed(u)'
    <3>1. CASE Busy = {}
      <4>1. pc'[u] = "idle"
        BY <1>1, <2>2, <3>1 DEF Steady, Busy
      <4>2. QED
        BY <4>1, IdleLater
    <3>2. CASE stage' = stage
      BY <1>1, <1>4, <2>2, <3>2, StillHolds DEF Steady, ChainInv, InvThreads
    <3>3. QED
      BY <1>5, <3>1, <3>2
  <2>3. QED
    BY <2>1, <2>2 DEF InvThreads
<1>9. NoCrash'
  BY <1>1, <1>2 DEF ChainInv, NoCrash, Running, Steady
<1>10. Stored' = Stored
  <2>1. Chain = Attached /\ Chain' = Attached'
    BY <1>7, ChainAttached, ChainLater DEF ChainInv
  <2>2. QED
    BY <1>1, <1>4, <2>1 DEF Stored, NodeAt
<1>11. InvFinite'
  BY <1>3, <1>10, FS_AddElement DEF ChainInv, InvFinite
<1>12. SizeExact'
  <2>1. Owing(PUSH)' = Owing(PUSH) /\ Owing(POP)' = Owing(POP)
    <3>1. \A u \in Threads : /\ pc[u] \in {"moveHint", "resize"} <=> pc'[u] \in {"moveHint", "resize"}
                             /\ pc[u] \in {"moveHint", "resize"} => op'[u] = op[u]
      BY <1>1, <1>2 DEF Steady
    <3>2. QED
      BY <3>1 DEF Owing
  <2>2. QED
    BY <1>1, <1>10, <2>1 DEF ChainInv, SizeExact
<1>13. QED
  BY <1>6, <1>7, <1>8, <1>9, <1>11, <1>12 DEF ChainInv

-----------------------------------------------------------------------------
(* The deque that init_deque and clear_deque leave: one buffer of nulls *)

LEMMA SplitValues ==
  /\ \A i \in Slots : Split[i].value = IF i < D \div 2 THEN LNULL ELSE RNULL
  /\ D \div 2 \in 2 .. D - 2
BY DEF Split, Blank

\* The deque is buffer b alone, and nobody is in it.
Fresh(b) ==
  /\ Attached = {b} /\ lost \subseteq Public /\ hint = Middle(b) /\ size = 0
  /\ mem = [c \in Buffers |-> Split] /\ AllIdle /\ stage = "fill"

Renewed == \E b \in Buffers : Fresh(b)

LEMMA FreshChain == MemInv /\ Renewed => ChainInv
<1> SUFFICES ASSUME NEW b \in Buffers, MemInv, Fresh(b) PROVE ChainInv
  BY DEF Renewed
<1>1. /\ Attached = {b} /\ lost \subseteq Public /\ hint = Middle(b) /\ size = 0
      /\ \A t \in Threads : pc[t] = "idle"
      /\ stage = "fill"
  BY DEF Fresh, AllIdle
<1>2. \A i \in Slots : mem[b][i].value = IF i < D \div 2 THEN LNULL ELSE RNULL
  BY SplitValues DEF Fresh
<1>3. Busy = {} /\ IsFiniteSet(Busy)
  BY <1>1, FS_EmptySet DEF Busy
<1>4. InvStage /\ NoCrash
  BY <1>1, <1>3 DEF InvStage, NoCrash, Running
<1>5. InvThreads
  BY <1>1, IdleHolds DEF InvThreads
<1>6. /\ LNULL # RNULL /\ LNULL \notin Buffers /\ RNULL \notin Buffers
      /\ LNULL \notin Elts /\ RNULL \notin Elts
  BY DEF LNULL, RNULL
<1>7. ASSUME NEW e \in End
      PROVE  /\ mem[b][Rim(e)].value = Own(e) /\ mem[b][Entry(e)].value # Own(e)
             /\ \A i \in Inner : mem[b][i].value = Own(e) => mem[b][Outward(e, i)].value = Own(e)
  <2>1. e = LEFT \/ (e = RIGHT /\ e # LEFT)
    BY DEF End, LEFT, RIGHT
  <2>2. /\ Own(e) = IF e = LEFT THEN LNULL ELSE RNULL
        /\ Rim(e) = IF e = LEFT THEN 0 ELSE D - 1
        /\ Entry(e) = IF e = LEFT THEN D - 2 ELSE 1
        /\ \A i \in Inner : Outward(e, i) = IF e = LEFT THEN i - 1 ELSE i + 1
        /\ D \div 2 \in 2 .. D - 2
    BY <2>1, Moved, SplitValues DEF Own, Rim, Far, Entry, Inner, Slots
  <2>3. 0 \in Slots /\ D - 1 \in Slots /\ D - 2 \in Slots /\ 1 \in Slots
    BY DEF Slots
  <2>4. mem[b][Rim(e)].value = Own(e) /\ mem[b][Entry(e)].value # Own(e)
    BY <1>2, <1>6, <2>1, <2>2, <2>3
  <2>5. ASSUME NEW i \in Inner, mem[b][i].value = Own(e) PROVE mem[b][Outward(e, i)].value = Own(e)
    <3>1. i \in Slots /\ i - 1 \in Slots /\ i + 1 \in Slots
      BY DEF Inner, Slots
    <3>2. CASE e = LEFT
      <4>1. i < D \div 2
        BY <1>2, <1>6, <2>2, <2>5, <3>1, <3>2
      <4>2. i - 1 < D \div 2
        BY <2>2, <4>1 DEF Inner
      <4>3. QED
        BY <1>2, <2>2, <3>1, <3>2, <4>2
    <3>3. CASE e = RIGHT /\ e # LEFT
      <4>1. ~(i < D \div 2)
        BY <1>2, <1>6, <2>2, <2>5, <3>1, <3>3
      <4>2. ~(i + 1 < D \div 2)
        BY <2>2, <4>1 DEF Inner
      <4>3. QED
        BY <1>2, <2>2, <3>1, <3>3, <4>2
    <3>4. QED
      BY <2>1, <3>2, <3>3
  <2>6. QED
    BY <2>4, <2>5
<1>8. \A i \in Slots : mem[b][i].value \notin Buffers /\ mem[b][i].value \notin Elts
  BY <1>2, <1>6
<1>9. InvLinks
  <2>1. ASSUME NEW e \in End
        PROVE  Link(b, e) = Own(e) /\ Linked(b, e) /\ Ordered(b, e) /\ mem[b][Entry(e)].value # Own(e)
    <3>1. Link(b, e) = Own(e) /\ Own(e) \notin Buffers
      BY <1>7, NullFacts DEF Link
    <3>2. Ordered(b, e)
      BY <1>7, <1>8, <3>1, Indices, OrderedMeans DEF Link
    <3>3. QED
      BY <1>7, <3>1, <3>2 DEF Linked
  <2>2. b \in Reached(b, LEFT) /\ LEFT \in End
    BY ReachedStart DEF End
  <2>3. \A e \in End : Own(e) \notin Buffers
    BY NullFacts
  <2>4. QED
    BY <1>1, <2>1, <2>2, <2>3 DEF InvLinks
<1>10. InvHints
  <2>1. ASSUME NEW e \in End
        PROVE  /\ hint[e].buf = b /\ hint[e].idx = IF e = LEFT THEN D \div 2 - 1 ELSE D \div 2
               /\ Far(e) = IF e = LEFT THEN D - 1 ELSE 0
               /\ Entry(e) = IF e = LEFT THEN D - 2 ELSE 1
               /\ D \div 2 \in 2 .. D - 2
    <3>1. e = LEFT \/ (e = RIGHT /\ e # LEFT)
      BY DEF End, LEFT, RIGHT
    <3>2. Entry(e) = IF e = LEFT THEN D - 2 ELSE 1
      BY <3>1, Moved DEF Entry, Far, Slots
    <3>3. QED
      BY <1>1, <3>1, <3>2, SplitValues DEF Middle, Far
  <2>2. ASSUME NEW e \in End PROVE hint[e].idx # Far(e) /\ hint[e].idx # Entry(e)
    <3>1. CASE e = LEFT
      BY <2>1, <3>1
    <3>2. CASE e # LEFT
      BY <2>1, <3>2
    <3>3. QED
      BY <3>1, <3>2
  <2>3. QED
    BY <1>1, <2>1, <2>2 DEF InvHints
<1>11. Stored = {}
  <2>1. Chain = {b}
    BY <1>1, <1>9, <1>10, ChainAttached
  <2>2. Inner \subseteq Slots
    BY DEF Inner, Slots
  <2>3. QED
    BY <1>8, <2>1, <2>2 DEF Stored, NodeAt
<1>12. InvFinite
  BY <1>3, <1>11, FS_EmptySet DEF InvFinite
<1>13. SizeExact
  <2>1. \A o \in Op : {t \in Threads : op[t] = o /\ pc[t] \in {"moveHint", "resize"}} = {}
    BY <1>1
  <2>2. Owing(PUSH) = 0 /\ Owing(POP) = 0
    BY <2>1, FS_EmptySet DEF Owing, Op
  <2>3. QED
    BY <1>1, <1>11, <2>2, FS_EmptySet, WordKept, ULONGAssumption DEF SizeExact, Word
<1>14. QED
  BY <1>4, <1>5, <1>9, <1>10, <1>12, <1>13 DEF ChainInv

LEMMA InitRenews == StagedInit => Renewed
<1> SUFFICES ASSUME StagedInit PROVE Renewed
  OBVIOUS
<1>1. MemInv /\ Root \in Buffers
  BY InitMemInv, RootAssumption DEF StagedInit
<1>2. \A t \in Threads : ~Attaching(t)
  BY DEF StagedInit, Init, Attaching
<1>3. Fresh(Root)
  BY <1>2 DEF Fresh, Attached, Public, AllIdle, StagedInit, Init
<1>4. QED
  BY <1>1, <1>3 DEF Renewed

LEMMA InitChain == StagedInit => ChainInv
BY InitMemInv, InitRenews, FreshChain DEF StagedInit

\* clear_deque lets go of every buffer of the deque but the one it keeps.
LEMMA ClearRenews ==
  ASSUME MemInv, ChainInv, Clear, stage' = "fill"
  PROVE  Renewed'
<1> DEFINE kept == hint[LEFT].buf
           freed == IF {} \in {Beyond(kept, e) : e \in End} THEN {} ELSE Beyond(kept, LEFT)
           rest == UNION {Beyond(kept, e) : e \in End}
<1>1. /\ \A t \in Threads : pc[t] = "idle"
      /\ mem'  = [b \in Buffers |-> Split] /\ heap' = heap \ freed
      /\ lost' = lost \cup (rest \ freed) /\ hint' = Middle(kept) /\ size' = 0
      /\ UNCHANGED pc
  BY DEF Clear
<1>2. Chain = Attached /\ Attached \subseteq Buffers /\ kept \in Attached
  BY ChainAttached, AttachedFacts DEF ChainInv, InvHints, End
<1>3. \A t \in Threads : ~Attaching(t) /\ ~Attaching(t)'
  BY <1>1 DEF Attaching
<1>4. Public = heap /\ Public' = heap' /\ lost \subseteq heap
  BY <1>3 DEF Public, ChainInv, InvLinks
<1>5. rest = Attached \ {kept} /\ freed \subseteq rest
  BY <1>2 DEF Chain, Beyond, End
<1>6. Attached' = {kept} /\ lost' \subseteq Public'
  BY <1>1, <1>2, <1>4, <1>5 DEF Attached
<1>7. AllIdle'
  BY <1>1 DEF AllIdle
<1>8. PICK b \in Buffers : b = kept
  BY <1>2
<1>9. QED
  BY <1>1, <1>6, <1>7, <1>8 DEF Fresh, Renewed

LEMMA ClearChain ==
  ASSUME MemInv, MemInv', ChainInv, Clear, stage' = "fill"
  PROVE  ChainInv'
<1>1. (MemInv /\ Renewed => ChainInv)'
  BY FreshChain, PTL
<1>2. QED
  BY <1>1, ClearRenews

-----------------------------------------------------------------------------
(* The theorems *)

LEMMA StutterChain ==
  ASSUME MemInv, MemInv', ChainInv, UNCHANGED svars
  PROVE  ChainInv'
<1>1. /\ UNCHANGED <<mem, heap, hint, size, lost, stage>>
      /\ \A u \in Threads :
           /\ pc'[u] = pc[u] /\ end'[u] = end[u] /\ op'[u] = op[u] /\ elt'[u] = elt[u]
           /\ k'[u] = k[u] /\ at'[u] = at[u] /\ saved'[u] = saved[u] /\ side'[u] = side[u]
           /\ inner'[u] = inner[u] /\ outer'[u] = outer[u] /\ peek'[u] = peek[u]
  BY DEF svars, vars, shared, store, request, found, extra
<1>2. Public' = Public /\ Attached' = Attached
  <2>1. \A u \in Threads : (Attaching(u)' <=> Attaching(u)) /\ side'[u] = side[u]
    BY <1>1 DEF Attaching, Attaches, Extends, AtEdge
  <2>2. Public' = Public
    BY <1>1, <2>1 DEF Public
  <2>3. QED
    BY <1>1, <2>2 DEF Attached
<1>3. Busy' = Busy /\ InvStage'
  <2>1. Busy' = Busy
    BY <1>1 DEF Busy
  <2>2. \A u \in Busy : op'[u] = op[u]
    BY <1>1 DEF Busy
  <2>3. QED
    BY <1>1, <2>1, <2>2 DEF ChainInv, InvStage
<1>4. InvLinks' /\ InvHints'
  <2>1. InvLinks'
    BY <1>1, <1>2, LinksSame DEF ChainInv, InvLinks
  <2>2. QED
    BY <1>1, <1>2, <2>1 DEF ChainInv, InvHints
<1>5. InvThreads'
  BY <1>1, <1>2, StillHolds DEF ChainInv, InvThreads
<1>6. NoCrash'
  BY <1>1 DEF ChainInv, NoCrash, Running
<1>7. Stored' = Stored
  <2>1. Chain = Attached /\ Chain' = Attached'
    BY <1>4, ChainAttached, ChainLater DEF ChainInv
  <2>2. QED
    BY <1>1, <1>2, <2>1 DEF Stored, NodeAt
<1>8. Owing(PUSH)' = Owing(PUSH) /\ Owing(POP)' = Owing(POP)
  BY <1>1 DEF Owing
<1>9. InvFinite' /\ SizeExact'
  BY <1>1, <1>3, <1>7, <1>8 DEF ChainInv, InvFinite, SizeExact
<1>10. QED
  BY <1>3, <1>4, <1>5, <1>6, <1>9 DEF ChainInv

LEMMA StagedRefines ==
  /\ StagedInit => Init
  /\ [StagedNext]_svars => [Next]_vars
BY DEF StagedInit, StagedNext, Next, svars

\* In the stages, too, what UnboundedDequeProofs shows for any workload.
LEMMA StagedMem == StagedSpec => []MemInv
<1>1. MemInv /\ [Next]_vars => MemInv'
  BY CallMem, OracleMem, BodyMem, ClearMem, StutterMem
     DEF Next, Step, LeftOracle, RightOracle, LeftPush, LeftPop, RightPush, RightPop
<1>2. QED
  BY <1>1, InitMemInv, StagedRefines, PTL DEF StagedSpec

\* Filled and drained in stages, or used by one thread at a time, the chain
\* of buffers stays what the operations take it for: linked, ordered, and with
\* every hint, every place of a thread and every node it has read in step
\* with it.
THEOREM ChainInvariance == StagedSpec => []ChainInv
<1>1. StagedInit => ChainInv
  BY InitChain
<1>2. MemInv /\ MemInv' /\ ChainInv /\ [StagedNext]_svars => ChainInv'
  <2> SUFFICES ASSUME MemInv, MemInv', ChainInv, [StagedNext]_svars PROVE ChainInv'
    OBVIOUS
  <2>1. CASE Clear /\ stage' = "fill"
    BY <2>1, ClearChain
  <2>2. ASSUME NEW t \in Threads, Call(t), Admit(t) PROVE ChainInv'
    BY <2>2, CallChain
  <2>3. ASSUME NEW t \in Threads, Step(t), UNCHANGED stage PROVE ChainInv'
    BY <2>3, OracleChain, BodyChain
       DEF Step, LeftOracle, RightOracle, LeftPush, LeftPop, RightPush, RightPop
  <2>4. CASE UNCHANGED svars
    BY <2>4, StutterChain
  <2>5. QED
    BY <2>1, <2>2, <2>3, <2>4 DEF StagedNext
<1>3. QED
  BY <1>1, <1>2, StagedMem, PTL DEF StagedSpec

\* Whatever buffers are being attached or straddled, the chain is doubly
\* linked, has two ends, and reads left nulls, elements, right nulls.
THEOREM ChainShape == StagedSpec => []Shape
<1>1. MemInv /\ ChainInv => Shape
  <2> SUFFICES ASSUME MemInv, ChainInv PROVE Shape
    OBVIOUS
  <2>1. Chain = Attached /\ InvLinks
    BY ChainAttached DEF ChainInv
  <2>2. QED
    BY <2>1 DEF Shape, InvLinks
<1>2. QED
  BY <1>1, StagedMem, ChainInvariance, PTL

\* Hints and the places that threads work on lie in the chain, which is
\* allocated memory that clear_deque has not lost.
THEOREM ChainNoDangling == StagedSpec => []NoDangling
<1>1. MemInv /\ ChainInv => NoDangling
  <2> SUFFICES ASSUME MemInv, ChainInv PROVE NoDangling
    OBVIOUS
  <2>1. Chain = Attached /\ Attached \subseteq heap \ lost /\ lost \subseteq heap
    BY ChainAttached, AttachedFacts DEF ChainInv
  <2>2. hint[RIGHT].buf \in Chain
    BY <2>1 DEF ChainInv, InvHints, End
  <2>3. ASSUME NEW t \in Threads
        PROVE  /\ {k[t].buf, at[t].buf, saved[t].buf} \subseteq Chain \cup {NULL}
               /\ pc[t] \in {"cas1", "cas2"} /\ Straddles(t) => side[t] \in Chain
    <3>1. AttachedPlace(k[t]) /\ AttachedPlace(at[t]) /\ AttachedPlace(saved[t]) /\ Nowhere.buf = NULL
      BY Learned DEF Aimed, Nowhere
    <3>2. QED
      BY <2>1, <3>1, PlacesAttached DEF AttachedPlace, ChainInv
  <2>4. QED
    BY <2>1, <2>2, <2>3 DEF NoDangling
<1>2. QED
  BY <1>1, StagedMem, ChainInvariance, PTL

\* A buffer that is allocated is in the chain, or one thread has it in hand
\* and will attach or free it, or clear_deque has lost it.
THEOREM ChainNoLeak == StagedSpec => []NoLeak
<1>1. MemInv /\ ChainInv => NoLeak
  <2> SUFFICES ASSUME MemInv, ChainInv, NEW b \in heap \ (Chain \cup lost)
               PROVE  Cardinality({t \in Threads : side[t] = b /\ pc[t] \in {"cas1", "cas2"}}) = 1
    BY DEF NoLeak
  <2>1. b \notin Public /\ b \in Buffers
    BY ChainAttached DEF ChainInv, Attached, MemInv, TypeOK
  <2>2. PICK t \in Threads : Attaching(t) /\ side[t] = b
    BY <2>1 DEF Public
  <2>3. ASSUME NEW u \in Threads, side[u] = b PROVE u = t
    <3>1. CASE Attaching(u)
      BY <2>2, <2>3, <3>1 DEF MemInv, InvOwn
    <3>2. CASE ~Attaching(u)
      BY <2>1, <2>3, <3>2 DEF MemInv, InvPublic, KnowsPublic
    <3>3. QED
      BY <3>1, <3>2
  <2>4. {u \in Threads : side[u] = b /\ pc[u] \in {"cas1", "cas2"}} = {t}
    BY <2>2, <2>3 DEF Attaching
  <2>5. QED
    BY <2>4, FS_Singleton
<1>2. QED
  BY <1>1, StagedMem, ChainInvariance, PTL

\* No thread takes a null or an element for the pointer to a buffer.
THEOREM ChainNoCrash == StagedSpec => []NoCrash
<1>1. ChainInv => NoCrash
  BY DEF ChainInv
<1>2. QED
  BY <1>1, ChainInvariance, PTL

\* size is the number of elements in the chain, but for the updates that
\* operations under way still owe.
THEOREM ChainSizeExact == StagedSpec => []SizeExact
<1>1. ChainInv => SizeExact
  BY DEF ChainInv
<1>2. QED
  BY <1>1, ChainInvariance, PTL

\* The second exchange of a pop takes an element out of the deque, never a
\* null and never the link to another buffer.
THEOREM ChainPopsElements == StagedSpec => PopsElements
<1> DEFINE Pops == \A t \in Threads :
                     op[t] = POP /\ pc[t] = "cas2" /\ pc'[t] = "moveHint" => inner[t].value \in Elts
<1>1. MemInv /\ ChainInv /\ [StagedNext]_svars => [Pops]_vars
  <2> SUFFICES ASSUME MemInv, ChainInv, StagedNext, NEW t \in Threads,
                      op[t] = POP, pc[t] = "cas2", pc'[t] = "moveHint"
               PROVE  inner[t].value \in Elts
    BY DEF svars
  <2>1. TypeOK
    BY DEF MemInv
  <2>2. CASE Clear
    BY <2>2 DEF Clear
  <2>3. ASSUME NEW u \in Threads, Call(u) PROVE FALSE
    BY <2>1, <2>3 DEF Call, Goto, TypeOK
  <2>4. ASSUME NEW u \in Threads, Oracle(u) PROVE FALSE
    <3>1. u # t
      BY <2>4 DEF Oracle, OracleHint, OracleOuter, OracleInner, OraclePeek, Climb, ScanOuter,
                  ScanInner, ScanNext
    <3>2. QED
      BY <2>1, <2>4, <3>1, OracleSteady DEF Steady
  <2>5. ASSUME NEW u \in Threads, Body(u) PROVE inner[t].value \in Elts
    <3>1. u = t
      BY <2>1, <2>5, BodySteady DEF Steady
    <3>2. Cas2(t)
      BY <2>5, <3>1 DEF Body, SaveHint, LoadInner, LoadOuter, Recheck, Attach, Reload, Peek,
                        Cas1, MoveHint, Resize
    <3>3. Unchanged(In(end[t], k[t]), inner[t])
      BY <2>1, <3>2 DEF Cas2, Exchange, Retry, Goto, TypeOK
    <3>4. QED
      BY <3>3, PopTakes
  <2>6. QED
    BY <2>2, <2>3, <2>4, <2>5
       DEF StagedNext, Step, LeftOracle, RightOracle, LeftPush, LeftPop, RightPush, RightPop
<1>2. QED
  BY <1>1, StagedMem, ChainInvariance, PTL DEF StagedSpec, PopsElements
=============================================================================
