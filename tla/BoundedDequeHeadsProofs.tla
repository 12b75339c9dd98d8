------------------------ MODULE BoundedDequeHeadsProofs ------------------------
(***************************************************************************)
(* The array of the bounded deque always has two heads; two threads never  *)
(* exchange a node outside it, and keep exact hints and an exact size.     *)
(***************************************************************************)
EXTENDS BoundedDequeHeads, BoundedDequeProofs, FiniteSetTheorems

USE NAssumption, ULONGAssumption, EltsAssumption, ForeignAssumption,
    WorkloadAssumption, BoundsAssumption

-----------------------------------------------------------------------------
(* Heads of an array *)

\* The heads are where HeadSlot finds them.
LEMMA HeadOf ==
  ASSUME NEW nd, NEW l \in Slots, NEW r \in Slots, HeadsIn(nd, l, r)
  PROVE  /\ l = CHOOSE i \in Slots : /\ nd[i].value = Own(LEFT)
                                     /\ nd[Inward(LEFT, i)].value # Own(LEFT)
         /\ r = CHOOSE i \in Slots : /\ nd[i].value = Own(RIGHT)
                                     /\ nd[Inward(RIGHT, i)].value # Own(RIGHT)
<1> DEFINE Left(i)  == nd[i].value = Own(LEFT) /\ nd[Inward(LEFT, i)].value # Own(LEFT)
           Right(i) == nd[i].value = Own(RIGHT) /\ nd[Inward(RIGHT, i)].value # Own(RIGHT)
<1>1. \A i \in Slots : Left(i) <=> i = l
  BY DEF HeadsIn, Own, Inward, Inc, Slots
<1>2. \A i \in Slots : Right(i) <=> i = r
  BY DEF HeadsIn, Own, Inward, Dec, Slots, LEFT, RIGHT
<1> HIDE DEF Left, Right
<1>3. l = CHOOSE i \in Slots : Left(i)
  BY <1>1
<1>4. r = CHOOSE i \in Slots : Right(i)
  BY <1>2
<1>5. QED
  BY <1>3, <1>4 DEF Left, Right

LEMMA BlankHeads ==
  /\ N \div 2 - 1 \in Slots /\ N \div 2 \in Slots
  /\ HeadsIn(BlankNodes, N \div 2 - 1, N \div 2)
BY DEF HeadsIn, BlankNodes, Slots, LNULL, RNULL

LEMMA SameHeads ==
  ASSUME NEW nd, NEW md, NEW l, NEW r, HeadsIn(nd, l, r),
         \A i \in Slots : md[i].value = nd[i].value
  PROVE  HeadsIn(md, l, r)
BY DEF HeadsIn

\* An element over the null of a head, or a null over the element next to it,
\* moves that head by one.
LEMMA Shifted ==
  ASSUME NEW nd, NEW md, NEW l \in Slots, NEW r \in Slots, HeadsIn(nd, l, r),
         NEW j \in Slots, NEW v,
         \A i \in Slots : md[i].value = IF i = j THEN v ELSE nd[i].value
  PROVE  /\ j = l /\ l > 0 /\ v \in Elts => HeadsIn(md, l - 1, r)
         /\ j = r /\ r < N - 1 /\ v \in Elts => HeadsIn(md, l, r + 1)
         /\ j = l + 1 /\ v = LNULL /\ nd[j].value \in Elts => HeadsIn(md, l + 1, r)
         /\ j = r - 1 /\ v = RNULL /\ nd[j].value \in Elts => HeadsIn(md, l, r - 1)
<1>1. ASSUME j = l, l > 0, v \in Elts
      PROVE  HeadsIn(md, l - 1, r)
  BY <1>1 DEF HeadsIn, Slots
<1>2. ASSUME j = r, r < N - 1, v \in Elts
      PROVE  HeadsIn(md, l, r + 1)
  BY <1>2 DEF HeadsIn, Slots
<1>3. ASSUME j = l + 1, v = LNULL, nd[j].value \in Elts
      PROVE  HeadsIn(md, l + 1, r)
  BY <1>3 DEF HeadsIn, Slots, LNULL, RNULL
<1>4. ASSUME j = r - 1, v = RNULL, nd[j].value \in Elts
      PROVE  HeadsIn(md, l, r - 1)
  BY <1>4 DEF HeadsIn, Slots, LNULL, RNULL
<1>5. QED
  BY <1>1, <1>2, <1>3, <1>4

\* What a second exchange that hits does: it is made at the head of its end.
Struck(t, l, r) ==
  LET e == end[t]
      j == IF op[t] = PUSH THEN k[t] ELSE Near(t)
      v == IF op[t] = PUSH THEN elt[t] ELSE Own(e)
  IN
  /\ j \in Slots
  /\ \A i \in Slots : nodes'[i].value = IF i = j THEN v ELSE nodes[i].value
  /\ k[t] = (IF e = LEFT THEN l ELSE r)
  /\ Near(t) = (IF e = LEFT THEN l + 1 ELSE r - 1)
  /\ op[t] = PUSH => elt[t] \in Elts /\ ~AtBound(e, k[t])
  /\ op[t] # PUSH => nodes[j].value \in Elts /\ inner[t] = nodes[j]

LEMMA Strike ==
  ASSUME Inv, NEW t \in Threads, Cas2(t), pc'[t] = "moveHint", k[t] \in Slots,
         NEW l \in Slots, NEW r \in Slots, HeadsIn(nodes, l, r)
  PROVE  Struck(t, l, r) /\ UNCHANGED <<hint, size>>
<1>1. /\ TypeOK /\ Shape /\ end[t] \in End /\ k[t] \in Word
      /\ inner[t] \in Node /\ outer[t] \in Node
  BY DEF Inv, TypeOK
<1>2. pc[t] = "cas2" /\ Near(t) \in Slots
  BY DEF Inv, InvGuard, Aimed, Cas2
<1>3. IF op[t] = PUSH
      THEN Cas(k[t], outer[t], SetNode(elt[t], outer[t]), TRUE)
      ELSE Cas(Near(t), inner[t], SetNode(Own(end[t]), inner[t]), TRUE)
  BY <1>1 DEF Cas2, Near, Retry, Goto, TypeOK
<1>4. /\ UNCHANGED <<hint, size>>
      /\ IF op[t] = PUSH
         THEN /\ nodes[k[t]] = outer[t]
              /\ nodes' = [nodes EXCEPT ![k[t]] = SetNode(elt[t], outer[t])]
         ELSE /\ nodes[Near(t)] = inner[t]
              /\ nodes' = [nodes EXCEPT ![Near(t)] = SetNode(Own(end[t]), inner[t])]
  BY <1>2, <1>3 DEF Cas
<1>5. /\ nodes[k[t]].value = Own(end[t])
      /\ op[t] = PUSH => /\ nodes[Near(t)].value # Own(end[t])
                         /\ ~AtBound(end[t], k[t])
                         /\ elt[t] \in Elts
      /\ op[t] # PUSH => nodes[Near(t)].value \in Elts
  BY <1>2, <1>4, AtHead
<1>6. Own(end[t]) \notin Elts
  BY DEF Own
<1>7. Near(t) = IF end[t] = LEFT THEN k[t] + 1 ELSE k[t] - 1
  BY <1>1, <1>2, InwardInArray DEF Near
<1>8. k[t] = IF end[t] = LEFT THEN l ELSE r
  BY <1>1, <1>2, <1>5, <1>6, <1>7 DEF HeadsIn, Own, End, Slots, LEFT, RIGHT
<1>9. ASSUME NEW i \in Slots
      PROVE  nodes'[i].value =
               IF i = (IF op[t] = PUSH THEN k[t] ELSE Near(t))
               THEN IF op[t] = PUSH THEN elt[t] ELSE Own(end[t])
               ELSE nodes[i].value
  BY <1>1, <1>2, <1>4 DEF TypeOK, SetNode
<1>10. QED
  BY <1>2, <1>4, <1>5, <1>7, <1>8, <1>9 DEF Struck

\* The heads after a second exchange.
HeadAfter(t, e, i) ==
  IF end[t] # e THEN i
  ELSE IF (e = LEFT) <=> (op[t] = PUSH) THEN i - 1 ELSE i + 1

LEMMA StruckHeads ==
  ASSUME TypeOK, NEW t \in Threads, NEW l \in Slots, NEW r \in Slots,
         HeadsIn(nodes, l, r), Struck(t, l, r)
  PROVE  /\ HeadAfter(t, LEFT, l) \in Slots /\ HeadAfter(t, RIGHT, r) \in Slots
         /\ HeadsIn(nodes', HeadAfter(t, LEFT, l), HeadAfter(t, RIGHT, r))
<1>1. end[t] \in End /\ op[t] \in Op
  BY DEF TypeOK
<1>2. LEFT # RIGHT /\ PUSH # POP
  BY DEF LEFT, RIGHT, PUSH, POP
<1>3. CASE end[t] = LEFT /\ op[t] = PUSH
  <2>1. l > 0
    BY <1>3 DEF Struck, AtBound, Slots
  <2>2. HeadsIn(nodes', l - 1, r)
    BY <1>3, <2>1, Shifted DEF Struck
  <2>3. QED
    BY <1>2, <1>3, <2>1, <2>2 DEF HeadAfter, Slots
<1>4. CASE end[t] = RIGHT /\ op[t] = PUSH
  <2>1. r < N - 1
    BY <1>2, <1>4 DEF Struck, AtBound, Slots
  <2>2. HeadsIn(nodes', l, r + 1)
    BY <1>2, <1>4, <2>1, Shifted DEF Struck
  <2>3. QED
    BY <1>2, <1>4, <2>1, <2>2 DEF HeadAfter, Slots
<1>5. CASE end[t] = LEFT /\ op[t] = POP
  <2>1. l + 1 \in Slots /\ HeadsIn(nodes', l + 1, r)
    BY <1>2, <1>5, Shifted DEF Struck, Own
  <2>2. QED
    BY <1>2, <1>5, <2>1 DEF HeadAfter
<1>6. CASE end[t] = RIGHT /\ op[t] = POP
  <2>1. r - 1 \in Slots /\ HeadsIn(nodes', l, r - 1)
    BY <1>2, <1>6, Shifted DEF Struck, Own
  <2>2. QED
    BY <1>2, <1>6, <2>1 DEF HeadAfter
<1>7. QED
  BY <1>1, <1>3, <1>4, <1>5, <1>6 DEF End, Op


\* A second exchange by a thread whose index is outside changes no node.
LEMMA Outside ==
  ASSUME Inv, NEW t \in Threads, Cas2(t), pc'[t] = "moveHint", k[t] \notin Slots
  PROVE  nodes' = nodes
<1>1. Near(t) \notin Slots
  BY DEF Inv, InvGuard, Aimed, Cas2
<1>2. QED
  BY <1>1 DEF Cas2, Cas, Near

\* One that misses changes nothing that is shared.
LEMMA Cas2Miss ==
  ASSUME TypeOK, NEW t \in Threads, Cas2(t), pc'[t] # "moveHint"
  PROVE  UNCHANGED shared /\ Retry(t)
BY DEF Cas2, Cas, Goto, TypeOK, shared

\* Steps that leave all nodes alone.
LEMMA NodesSame ==
  ASSUME NEW t \in Threads, Call(t) \/ Step(t), ~Cas1(t), ~Cas2(t)
  PROVE  nodes' = nodes
BY DEF Call, Step, LeftOracle, RightOracle, LeftPush, LeftPop, RightPush, RightPop,
       Oracle, Body, LoadInner, LoadOuter, Recheck, MoveHint, Resize, shared

LEMMA HeadsInit == Init => Heads
BY BlankHeads DEF Init, Heads

\* The array keeps two heads.
LEMMA HeadsNext == Inv /\ Heads /\ [Next]_vars => Heads'
<1> SUFFICES ASSUME Inv, Heads, [Next]_vars PROVE Heads'
  OBVIOUS
<1>1. PICK l \in Slots, r \in Slots : HeadsIn(nodes, l, r)
  BY DEF Heads
<1>2. CASE Clear
  BY <1>2, BlankHeads DEF Clear, Heads
<1>3. CASE nodes' = nodes
  BY <1>1, <1>3 DEF Heads
<1>4. ASSUME NEW t \in Threads, Call(t) \/ Step(t)
      PROVE  Heads'
  <2>1. CASE Cas1(t)
    BY <1>1, <2>1, SameHeads, Cas1SameValues DEF Heads
  <2>2. CASE Cas2(t)
    <3>1. CASE pc'[t] = "moveHint" /\ k[t] \in Slots
      <4>1. Struck(t, l, r)
        BY <1>1, <2>2, <3>1, Strike
      <4>2. QED
        BY <1>1, <4>1, StruckHeads DEF Heads, Inv
    <3>2. CASE pc'[t] = "moveHint" /\ k[t] \notin Slots
      BY <1>3, <2>2, <3>2, Outside
    <3>3. CASE pc'[t] # "moveHint"
      BY <1>3, <2>2, <3>3, Cas2Miss DEF Inv, shared
    <3>4. QED
      BY <3>1, <3>2, <3>3
  <2>3. QED
    BY <1>3, <1>4, <2>1, <2>2, NodesSame
<1>5. QED
  BY <1>2, <1>3, <1>4 DEF Next, vars, shared

-----------------------------------------------------------------------------
(* Two threads *)

\* Within reach, one of the two nodes is in the array; a step inwards from an
\* index that the scan goes on from stays within reach.
LEMMA ReachFacts ==
  ASSUME NEW e \in End, NEW i \in Reach(e)
  PROVE  /\ i \in Word
         /\ i \in Slots \/ Inward(e, i) \in Slots
         /\ 0 \in Reach(e)
         /\ ScanOn(e, i) => Inward(e, i) \in Reach(e)
BY DEF Reach, Slots, Word, Inward, Inc, Dec, ScanOn, End, LEFT, RIGHT

LEMMA HintReach ==
  ASSUME NEW p, NEW q, HintsOf(p, q), NEW e \in End
  PROVE  hint[e] \in Reach(e)
BY DEF HintsOf, Reach, Slots, End, LEFT, RIGHT

LEMMA ReachGrounds ==
  ASSUME TypeOK, Indices
  PROVE  Grounded
BY ReachFacts DEF TypeOK, Indices, Grounded, Near

\* The step of one thread changes the debt of no other.
LEMMA OwedFrame ==
  ASSUME NEW t, Frame(t), NEW u, u # t
  PROVE  \A e \in End : Owed(u, e)' = Owed(u, e)
BY DEF Owed, Frame

\* Indices of t after a step that keeps or resets them.
LEMMA IndicesStep ==
  ASSUME Indices, TypeOK, NEW t \in Threads, Frame(t), end'[t] \in End,
         k'[t] \in Reach(end'[t]),
         pc'[t] = "idle" => k'[t] = 0,
         pc'[t] \in {"scanOuter", "scanInner"} => ScanOn(end'[t], k'[t])
  PROVE  Indices'
BY DEF Indices, Frame, Reach

LEMMA OwedType == \A t, e : Owed(t, e) \in {-1, 0, 1}
BY DEF Owed

\* It does not matter which thread comes first.
LEMMA PairSym ==
  ASSUME NEW p, NEW q, HintsOf(p, q)
  PROVE  HintsOf(q, p)
<1>1. PICK l \in Slots, r \in Slots :
        LET x == l + Owed(p, LEFT) + Owed(q, LEFT)
            y == r - Owed(p, RIGHT) - Owed(q, RIGHT)
        IN
        /\ HeadsIn(nodes, l, r)
        /\ x \in -1 .. N - 1 /\ hint[LEFT] = IF x < 0 THEN ULONG - 1 ELSE x
        /\ y \in 0 .. N /\ hint[RIGHT] = y
  BY DEF HintsOf
<1>2. /\ l + Owed(p, LEFT) + Owed(q, LEFT) = l + Owed(q, LEFT) + Owed(p, LEFT)
      /\ r - Owed(p, RIGHT) - Owed(q, RIGHT) = r - Owed(q, RIGHT) - Owed(p, RIGHT)
  BY OwedType DEF Slots
<1>3. QED
  BY <1>1, <1>2 DEF HintsOf

LEMMA PairSymNext ==
  ASSUME NEW p, NEW q, HintsOf(p, q)'
  PROVE  HintsOf(q, p)'
<1>1. PICK l \in Slots, r \in Slots :
        LET x == l + Owed(p, LEFT)' + Owed(q, LEFT)'
            y == r - Owed(p, RIGHT)' - Owed(q, RIGHT)'
        IN
        /\ HeadsIn(nodes', l, r)
        /\ x \in -1 .. N - 1 /\ hint'[LEFT] = IF x < 0 THEN ULONG - 1 ELSE x
        /\ y \in 0 .. N /\ hint'[RIGHT] = y
  BY DEF HintsOf
<1>2. \A t, e : Owed(t, e)' \in {-1, 0, 1}
  BY DEF Owed
<1>3. /\ l + Owed(p, LEFT)' + Owed(q, LEFT)' = l + Owed(q, LEFT)' + Owed(p, LEFT)'
      /\ r - Owed(p, RIGHT)' - Owed(q, RIGHT)' = r - Owed(q, RIGHT)' - Owed(p, RIGHT)'
  BY <1>2 DEF Slots
<1>4. QED
  BY <1>1, <1>3 DEF HintsOf

\* A step that leaves the hints, the values and the debts alone.
LEMMA HintsSame ==
  ASSUME NEW t \in Threads, NEW u, u # t, HintsOf(t, u), Frame(t), UNCHANGED hint,
         \A i \in Slots : nodes'[i].value = nodes[i].value,
         pc[t] # "moveHint", pc'[t] # "moveHint"
  PROVE  HintsOf(t, u)'
<1>1. \A e \in End : Owed(t, e)' = Owed(t, e) /\ Owed(u, e)' = Owed(u, e)
  BY OwedFrame DEF Owed
<1>2. LEFT \in End /\ RIGHT \in End
  BY DEF End
<1>3. PICK l \in Slots, r \in Slots :
        LET x == l + Owed(t, LEFT) + Owed(u, LEFT)
            y == r - Owed(t, RIGHT) - Owed(u, RIGHT)
        IN
        /\ HeadsIn(nodes, l, r)
        /\ x \in -1 .. N - 1 /\ hint[LEFT] = IF x < 0 THEN ULONG - 1 ELSE x
        /\ y \in 0 .. N /\ hint[RIGHT] = y
  BY DEF HintsOf
<1>4. HeadsIn(nodes', l, r)
  BY <1>3, SameHeads
<1>5. QED
  BY <1>1, <1>2, <1>3, <1>4 DEF HintsOf

\* A second exchange moves the head and runs up the debt that makes up for it.
LEMMA HintsStruck ==
  ASSUME TypeOK, NEW t \in Threads, NEW u, u # t, HintsOf(t, u), Frame(t),
         pc[t] = "cas2", pc'[t] = "moveHint", UNCHANGED <<hint, request>>,
         \A l, r \in Slots : HeadsIn(nodes, l, r) => Struck(t, l, r)
  PROVE  HintsOf(t, u)'
<1>1. LEFT \in End /\ RIGHT \in End /\ LEFT # RIGHT /\ end[t] \in End
  BY DEF End, LEFT, RIGHT, TypeOK
<1>2. \A e \in End : Owed(u, e)' = Owed(u, e) /\ Owed(t, e) = 0
  BY OwedFrame DEF Owed
<1>3. \A e \in End : Owed(t, e)' = IF end[t] # e THEN 0
                                   ELSE IF op[t] = PUSH THEN 1 ELSE -1
  BY DEF Owed, request
<1>4. PICK l \in Slots, r \in Slots :
        LET x == l + Owed(t, LEFT) + Owed(u, LEFT)
            y == r - Owed(t, RIGHT) - Owed(u, RIGHT)
        IN
        /\ HeadsIn(nodes, l, r)
        /\ x \in -1 .. N - 1 /\ hint[LEFT] = IF x < 0 THEN ULONG - 1 ELSE x
        /\ y \in 0 .. N /\ hint[RIGHT] = y
  BY DEF HintsOf
<1> DEFINE l2 == HeadAfter(t, LEFT, l)
           r2 == HeadAfter(t, RIGHT, r)
<1>5. l2 \in Slots /\ r2 \in Slots /\ HeadsIn(nodes', l2, r2)
  BY <1>4, StruckHeads
<1>6. /\ l2 + Owed(t, LEFT)' = l + Owed(t, LEFT)
      /\ r2 - Owed(t, RIGHT)' = r - Owed(t, RIGHT)
  BY <1>1, <1>2, <1>3 DEF HeadAfter, Slots
<1>7. HintsOf(t, u)'
  <2> HIDE DEF l2, r2
  <2>1. /\ l2 + Owed(t, LEFT)' + Owed(u, LEFT)' = l + Owed(t, LEFT) + Owed(u, LEFT)
        /\ r2 - Owed(t, RIGHT)' - Owed(u, RIGHT)' = r - Owed(t, RIGHT) - Owed(u, RIGHT)
    BY <1>1, <1>2, <1>6
  <2>2. hint'[LEFT] = hint[LEFT] /\ hint'[RIGHT] = hint[RIGHT]
    OBVIOUS
  <2>3. QED
    BY <1>4, <1>5, <2>1, <2>2 DEF HintsOf
<1>8. QED
  BY <1>7

\* left_hint--, right_hint++ and their like pay the debt off.
LEMMA HintsMoved ==
  ASSUME TypeOK, NEW t \in Threads, NEW u, u # t, HintsOf(t, u), Frame(t),
         UNCHANGED <<nodes, request>>, MoveHint(t)
  PROVE  HintsOf(t, u)'
<1>1. LEFT \in End /\ RIGHT \in End /\ LEFT # RIGHT /\ end[t] \in {LEFT, RIGHT}
  BY DEF End, LEFT, RIGHT, TypeOK
<1>2. pc[t] = "moveHint" /\ pc'[t] # "moveHint" /\ op[t] \in {PUSH, POP} /\ PUSH # POP
  BY DEF MoveHint, Goto, TypeOK, Op, PUSH, POP
<1>3. \A e \in End : Owed(u, e)' = Owed(u, e) /\ Owed(t, e)' = 0
  BY <1>2, OwedFrame DEF Owed
<1>4. \A e \in End : Owed(t, e) = IF end[t] # e THEN 0
                                  ELSE IF op[t] = PUSH THEN 1 ELSE -1
  BY <1>2 DEF Owed
<1>5. PICK l \in Slots, r \in Slots :
        LET x == l + Owed(t, LEFT) + Owed(u, LEFT)
            y == r - Owed(t, RIGHT) - Owed(u, RIGHT)
        IN
        /\ HeadsIn(nodes, l, r)
        /\ x \in -1 .. N - 1 /\ hint[LEFT] = IF x < 0 THEN ULONG - 1 ELSE x
        /\ y \in 0 .. N /\ hint[RIGHT] = y
  BY DEF HintsOf
<1>6. \A e \in End : hint'[e] = IF e # end[t] THEN hint[e]
                                ELSE IF op[t] = PUSH THEN Outward(e, hint[e])
                                     ELSE Inward(e, hint[e])
  BY DEF MoveHint, TypeOK
<1>7. l < r
  BY <1>5 DEF HeadsIn
<1> DEFINE x2 == l + Owed(u, LEFT)
           y2 == r - Owed(u, RIGHT)
<1>8. x2 \in -1 .. N - 1 /\ y2 \in 0 .. N
  BY <1>7, OwedType DEF Slots
<1>9. hint'[LEFT] = IF x2 < 0 THEN ULONG - 1 ELSE x2
  <2>1. CASE end[t] # LEFT
    BY <1>1, <1>4, <1>5, <1>6, <1>8, <2>1, OwedType DEF Slots
  <2>2. CASE end[t] = LEFT /\ op[t] = PUSH
    <3>1. x2 = (l + Owed(t, LEFT) + Owed(u, LEFT)) - 1
      BY <1>1, <1>4, <2>2, OwedType DEF Slots
    <3>2. hint'[LEFT] = Dec(hint[LEFT])
      BY <1>1, <1>6, <2>2 DEF Outward
    <3>3. QED
      BY <1>5, <1>8, <3>1, <3>2 DEF Dec
  <2>3. CASE end[t] = LEFT /\ op[t] = POP
    <3>1. x2 = (l + Owed(t, LEFT) + Owed(u, LEFT)) + 1
      BY <1>1, <1>2, <1>4, <2>3, OwedType DEF Slots
    <3>2. hint'[LEFT] = Inc(hint[LEFT])
      BY <1>1, <1>2, <1>6, <2>3 DEF Inward
    <3>3. QED
      BY <1>5, <1>8, <3>1, <3>2 DEF Inc
  <2>4. QED
    BY <1>1, <1>2, <2>1, <2>2, <2>3
<1>10. hint'[RIGHT] = y2
  <2>1. CASE end[t] # RIGHT
    BY <1>1, <1>4, <1>5, <1>6, <1>8, <2>1, OwedType DEF Slots
  <2>2. CASE end[t] = RIGHT /\ op[t] = PUSH
    <3>1. y2 = (r - Owed(t, RIGHT) - Owed(u, RIGHT)) + 1
      BY <1>1, <1>4, <2>2, OwedType DEF Slots
    <3>2. hint'[RIGHT] = Inc(hint[RIGHT])
      BY <1>1, <1>6, <2>2 DEF Outward
    <3>3. QED
      BY <1>5, <1>8, <3>1, <3>2 DEF Inc
  <2>3. CASE end[t] = RIGHT /\ op[t] = POP
    <3>1. y2 = (r - Owed(t, RIGHT) - Owed(u, RIGHT)) - 1
      BY <1>1, <1>2, <1>4, <2>3, OwedType DEF Slots
    <3>2. hint'[RIGHT] = Dec(hint[RIGHT])
      BY <1>1, <1>2, <1>6, <2>3 DEF Inward
    <3>3. QED
      BY <1>5, <1>8, <3>1, <3>2 DEF Dec
  <2>4. QED
    BY <1>1, <1>2, <2>1, <2>2, <2>3
<1>11. /\ l + Owed(t, LEFT)' + Owed(u, LEFT)' = x2
       /\ r - Owed(t, RIGHT)' - Owed(u, RIGHT)' = y2
  BY <1>1, <1>3, OwedType DEF Slots
<1> HIDE DEF x2, y2
<1>12. QED
  BY <1>5, <1>8, <1>9, <1>10, <1>11 DEF HintsOf

LEMMA DueType == \A t : Due(t) \in {-1, 0, 1}
BY DEF Due

LEMMA DueFrame ==
  ASSUME NEW t, Frame(t), NEW u, u # t
  PROVE  Due(u)' = Due(u)
BY DEF Due, Frame

LEMMA SizeSym ==
  ASSUME NEW p, NEW q
  PROVE  (SizeOf(p, q) => SizeOf(q, p)) /\ (SizeOf(p, q)' => SizeOf(q, p)')
<1>1. \A t : Due(t)' \in {-1, 0, 1}
  BY DEF Due
<1>2. \A l, r \in Slots :
        /\ (r - l - 1) - Due(p) - Due(q) = (r - l - 1) - Due(q) - Due(p)
        /\ (r - l - 1) - Due(p)' - Due(q)' = (r - l - 1) - Due(q)' - Due(p)'
  BY <1>1, DueType DEF Slots
<1>3. SizeOf(p, q) => SizeOf(q, p)
  BY <1>2 DEF SizeOf
<1>4. SizeOf(p, q)' => SizeOf(q, p)'
  BY <1>2 DEF SizeOf
<1>5. QED
  BY <1>3, <1>4

\* A step that leaves size, the values and the debts alone.
LEMMA SizeSame ==
  ASSUME NEW t \in Threads, NEW u, u # t, SizeOf(t, u), Frame(t), UNCHANGED size,
         \A i \in Slots : nodes'[i].value = nodes[i].value, Due(t)' = Due(t)
  PROVE  SizeOf(t, u)'
<1>1. Due(u)' = Due(u)
  BY DueFrame
<1>2. PICK l \in Slots, r \in Slots :
        LET z == (r - l - 1) - Due(t) - Due(u)
        IN  HeadsIn(nodes, l, r) /\ size = IF z < 0 THEN ULONG + z ELSE z
  BY DEF SizeOf
<1>3. HeadsIn(nodes', l, r)
  BY <1>2, SameHeads
<1>4. QED
  BY <1>1, <1>2, <1>3 DEF SizeOf

\* The second exchange adds an element or takes one and owes as much.
LEMMA SizeStruck ==
  ASSUME TypeOK, NEW t \in Threads, NEW u, u # t, SizeOf(t, u), Frame(t),
         pc[t] = "cas2", pc'[t] = "moveHint", UNCHANGED <<size, request>>,
         \A l, r \in Slots : HeadsIn(nodes, l, r) => Struck(t, l, r)
  PROVE  SizeOf(t, u)'
<1>1. Due(u)' = Due(u) /\ Due(t) = 0 /\ Due(t)' = IF op[t] = PUSH THEN 1 ELSE -1
  BY DueFrame DEF Due, request
<1>2. LEFT # RIGHT /\ PUSH # POP /\ end[t] \in {LEFT, RIGHT} /\ op[t] \in {PUSH, POP}
  BY DEF TypeOK, End, Op, LEFT, RIGHT, PUSH, POP
<1>3. PICK l \in Slots, r \in Slots :
        LET z == (r - l - 1) - Due(t) - Due(u)
        IN  HeadsIn(nodes, l, r) /\ size = IF z < 0 THEN ULONG + z ELSE z
  BY DEF SizeOf
<1> DEFINE l2 == HeadAfter(t, LEFT, l)
           r2 == HeadAfter(t, RIGHT, r)
<1>4. l2 \in Slots /\ r2 \in Slots /\ HeadsIn(nodes', l2, r2)
  BY <1>3, StruckHeads
<1>5. r2 - l2 - 1 = (r - l - 1) + Due(t)'
  BY <1>1, <1>2 DEF HeadAfter, Slots
<1> HIDE DEF l2, r2
<1>6. (r2 - l2 - 1) - Due(t)' - Due(u)' = (r - l - 1) - Due(t) - Due(u)
  BY <1>1, <1>5, DueType DEF Slots
<1>7. QED
  BY <1>3, <1>4, <1>6 DEF SizeOf

\* size++ and size-- pay it back.
LEMMA SizeMoved ==
  ASSUME TypeOK, NEW t \in Threads, NEW u, u # t, SizeOf(t, u), Frame(t),
         UNCHANGED request, Resize(t)
  PROVE  SizeOf(t, u)'
<1>1. /\ Due(u)' = Due(u) /\ Due(t) = (IF op[t] = PUSH THEN 1 ELSE -1) /\ Due(t)' = 0
      /\ nodes' = nodes
  BY DueFrame DEF Due, Resize, Return, Goto, TypeOK
<1>2. size' = IF op[t] = PUSH THEN Inc(size) ELSE Dec(size)
  BY DEF Resize, Resized
<1>3. PICK l \in Slots, r \in Slots :
        LET z == (r - l - 1) - Due(t) - Due(u)
        IN  HeadsIn(nodes, l, r) /\ size = IF z < 0 THEN ULONG + z ELSE z
  BY DEF SizeOf
<1> DEFINE z == (r - l - 1) - Due(t) - Due(u)
           z2 == (r - l - 1) - Due(t)' - Due(u)'
<1>4. z \in -2 .. N /\ z2 = IF op[t] = PUSH THEN z + 1 ELSE z - 1
  BY <1>1, <1>3, DueType DEF HeadsIn, Slots
<1>5. z2 \in -1 .. N - 1
  BY <1>1, <1>3, DueType DEF HeadsIn, Slots
<1>6. size = IF z < 0 THEN ULONG + z ELSE z
  BY <1>3
<1> HIDE DEF z, z2
<1>7. size' = IF z2 < 0 THEN ULONG + z2 ELSE z2
  BY <1>2, <1>4, <1>5, <1>6 DEF Inc, Dec
<1>8. QED
  BY <1>1, <1>3, <1>7 DEF SizeOf, z2

\* An exchange is made in the array, and the second one at the head.
LEMMA Exchanged ==
  ASSUME Inv, NEW t \in Threads, NEW u, u # t, HintsOf(t, u), SizeOf(t, u), Grounded, Frame(t),
         UNCHANGED request, Cas1(t) \/ Cas2(t)
  PROVE  HintsOf(t, u)' /\ SizeOf(t, u)'
<1>1. k[t] \in Slots /\ Near(t) \in Slots /\ Near(t) = Inward(end[t], k[t])
  BY DEF Inv, InvGuard, Grounded, Aimed, Cas1, Cas2, Near
<1>2. TypeOK /\ pc[t] \in {"cas1", "cas2"}
  BY DEF Inv, Cas1, Cas2
<1>3. UNCHANGED <<hint, size>>
  BY <1>1 DEF Cas1, Cas2, Cas
<1>4. CASE pc'[t] = "moveHint"
  <2>1. Cas2(t) /\ pc[t] = "cas2"
    BY <1>2, <1>4 DEF Cas1, Cas2, Retry, Goto, TypeOK
  <2>2. \A l, r \in Slots : HeadsIn(nodes, l, r) => Struck(t, l, r)
    BY <1>1, <1>4, <2>1, Strike
  <2>3. QED
    BY <1>2, <1>3, <1>4, <2>1, <2>2, HintsStruck, SizeStruck
<1>5. CASE pc'[t] # "moveHint"
  <2>1. \A i \in Slots : nodes'[i].value = nodes[i].value
    <3>1. CASE Cas1(t)
      BY <3>1, Cas1SameValues
    <3>2. CASE Cas2(t)
      BY <1>2, <1>5, <3>2, Cas2Miss DEF shared
    <3>3. QED
      BY <3>1, <3>2
  <2>2. Due(t)' = Due(t)
    BY <1>2, <1>5 DEF Due, Cas1, Cas2, Retry, Goto, TypeOK
  <2>3. QED
    BY <1>2, <1>3, <1>5, <2>1, <2>2, HintsSame, SizeSame
<1>6. QED
  BY <1>4, <1>5


\* Calls and the oracle leave the hints and the array alone, and their indices
\* are within reach.
LEMMA OraclePair ==
  ASSUME Inv, NEW t \in Threads, NEW u, u # t, HintsOf(t, u), SizeOf(t, u),
         Indices,
         Call(t) \/ Oracle(t)
  PROVE  HintsOf(t, u)' /\ SizeOf(t, u)' /\ Indices'
<1>1. /\ TypeOK /\ pc \in [Threads -> PC] /\ k \in [Threads -> Word]
      /\ end[t] \in End
  BY DEF Inv, TypeOK
<1>2. k[t] \in Reach(end[t]) /\ (pc[t] = "idle" => k[t] = 0)
  BY DEF Indices
<1>3. CASE Call(t)
  <2>1. Frame(t) /\ pc[t] = "idle" /\ pc'[t] = "oracleHint" /\ UNCHANGED shared
        /\ k'[t] = 0
    BY <1>1, <1>2, <1>3 DEF Call, Frame, Goto, TypeOK, locals
  <2>2. end'[t] \in End
    BY <1>1, <1>3 DEF Call, TypeOK
  <2>3. Indices'
    BY <1>1, <2>1, <2>2, IndicesStep DEF Reach, Slots
  <2>4. QED
    BY <2>1, <2>3, HintsSame, SizeSame DEF shared, Due
<1>4. CASE Oracle(t)
  <2>1. Frame(t) /\ UNCHANGED shared /\ UNCHANGED request /\ end'[t] = end[t]
    BY <1>1, <1>4, OracleFrame DEF Oracle, request
  <2>2. /\ pc[t] # "moveHint"
        /\ pc'[t] \notin {"moveHint", "idle"} /\ Due(t)' = Due(t)
    BY <1>1, <1>4 DEF Oracle, OracleHint, OracleOuter, OracleInner, ScanOuter,
                      ScanInner, Rehint, Found, Goto, Due
  <2>3. hint[end[t]] \in Reach(end[t])
    BY <1>1, HintReach
  <2>4. /\ k'[t] \in Reach(end[t])
        /\ pc'[t] \in {"scanOuter", "scanInner"} => ScanOn(end[t], k'[t])
    <3>1. CASE OracleHint(t) \/ Rehint(t)
      BY <1>1, <2>3, <3>1 DEF OracleHint, Rehint, Found, Goto
    <3>2. CASE OracleOuter(t)
      BY <1>1, <1>2, <3>2 DEF OracleOuter, Goto
    <3>3. CASE OracleInner(t)
      BY <1>1, <1>2, <3>3 DEF OracleInner, Found, Goto
    <3>4. CASE ScanOuter(t)
      BY <1>1, <1>2, <3>4 DEF ScanOuter, Goto, Indices
    <3>5. CASE ScanInner(t)
      <4>1. ScanOn(end[t], k[t])
        BY <3>5 DEF ScanInner, Indices
      <4>2. Inward(end[t], k[t]) \in Reach(end[t])
        BY <1>1, <1>2, <4>1, ReachFacts
      <4>3. \/ k'[t] = k[t] /\ pc'[t] = "loadInner"
            \/ k'[t] = Inward(end[t], k[t]) /\ pc'[t] = "rehint"
            \/ /\ k'[t] = Inward(end[t], k[t]) /\ pc'[t] = "scanOuter"
               /\ ScanOn(end[t], Inward(end[t], k[t]))
        BY <1>1, <3>5 DEF ScanInner, Found, Goto
      <4>4. QED
        BY <1>2, <4>2, <4>3
    <3>6. QED
      BY <1>4, <3>1, <3>2, <3>3, <3>4, <3>5 DEF Oracle
  <2>5. Indices'
    BY <1>1, <2>1, <2>2, <2>4, IndicesStep
  <2>6. QED
    BY <2>1, <2>2, <2>5, HintsSame, SizeSame DEF shared
<1>5. QED
  BY <1>3, <1>4

\* The body of an operation keeps its index or starts over.
LEMMA BodyIndices ==
  ASSUME Inv, NEW t \in Threads, Indices, Body(t)
  PROVE  Indices'
<1>1. TypeOK /\ pc \in [Threads -> PC] /\ k \in [Threads -> Word] /\ end[t] \in End
  BY DEF Inv, TypeOK
<1>2. Frame(t) /\ end'[t] = end[t]
  BY <1>1, BodyFrame DEF Body, request
<1>3. /\ k'[t] \in {0, k[t]}
      /\ pc'[t] = "idle" => k'[t] = 0
      /\ pc'[t] \notin {"scanOuter", "scanInner"}
  BY <1>1 DEF Body, LoadInner, LoadOuter, Recheck, Cas1, Cas2, MoveHint, Resize,
              Retry, Return, Forget, Goto, locals
<1>4. k[t] \in Reach(end[t]) /\ 0 \in Reach(end[t])
  BY <1>1, ReachFacts DEF Indices
<1>5. QED
  BY <1>1, <1>2, <1>3, <1>4, IndicesStep

LEMMA BodyPair ==
  ASSUME Inv, NEW t \in Threads, NEW u, u # t, HintsOf(t, u), SizeOf(t, u), Indices,
         Body(t)
  PROVE  HintsOf(t, u)' /\ SizeOf(t, u)'
<1>1. TypeOK /\ pc \in [Threads -> PC]
  BY DEF Inv, TypeOK
<1>2. Frame(t) /\ UNCHANGED request
  BY <1>1, BodyFrame DEF Body
<1>3. CASE LoadInner(t) \/ LoadOuter(t) \/ Recheck(t)
  <2>1. /\ UNCHANGED <<nodes, hint, size>>
        /\ pc[t] \notin {"moveHint", "resize"} /\ pc'[t] \notin {"moveHint", "resize"}
    BY <1>1, <1>3 DEF LoadInner, LoadOuter, Recheck, Retry, Return, Goto, shared
  <2>2. QED
    BY <1>2, <2>1, HintsSame, SizeSame DEF Due
<1>4. CASE Cas1(t) \/ Cas2(t)
  BY <1>1, <1>2, <1>4, ReachGrounds, Exchanged
<1>5. CASE MoveHint(t)
  <2>1. HintsOf(t, u)'
    BY <1>1, <1>2, <1>5, HintsMoved DEF MoveHint
  <2>2. UNCHANGED <<nodes, size>> /\ Due(t)' = Due(t)
    BY <1>1, <1>2, <1>5 DEF MoveHint, Goto, Due, request
  <2>3. QED
    BY <1>2, <2>1, <2>2, SizeSame
<1>6. CASE Resize(t)
  <2>1. /\ UNCHANGED <<nodes, hint>>
        /\ pc[t] # "moveHint" /\ pc'[t] # "moveHint"
    BY <1>1, <1>6 DEF Resize, Return, Goto
  <2>2. QED
    BY <1>1, <1>2, <1>6, <2>1, HintsSame, SizeMoved
<1>7. QED
  BY <1>3, <1>4, <1>5, <1>6 DEF Body

\* A clear deque with nobody in it owes nothing.
LEMMA BlankHints ==
  ASSUME nodes = BlankNodes, hint = MiddleHints, \A t \in Threads : pc[t] = "idle",
         NEW p, NEW q
  PROVE  HintsOf(p, q) /\ (size = 0 => SizeOf(p, q))
<1>1. \A t : Due(t) = 0 /\ (\A e : Owed(t, e) = 0)
  BY DEF Owed, Due
<1>2. hint[LEFT] = N \div 2 - 1 /\ hint[RIGHT] = N \div 2
  BY DEF MiddleHints, End, LEFT, RIGHT
<1>3. QED
  BY <1>1, <1>2, BlankHeads DEF HintsOf, SizeOf, Slots

LEMMA PairInit ==
  ASSUME NEW p, NEW q, Init
  PROVE  PairInv(p, q)
<1>1. HintsOf(p, q) /\ SizeOf(p, q)
  BY BlankHints DEF Init
<1>2. Indices
  BY DEF Init, Indices, Reach, Slots
<1>3. QED
  BY <1>1, <1>2, InitInv DEF PairInv

LEMMA PairNext ==
  ASSUME NEW p, NEW q, p # q, Threads \subseteq {p, q},
         PairInv(p, q), [Next]_vars
  PROVE  PairInv(p, q)'
<1>1. Inv /\ HintsOf(p, q) /\ SizeOf(p, q) /\ Indices
  BY DEF PairInv
<1>2. CASE Clear
  <2>1. HintsOf(p, q)' /\ SizeOf(p, q)'
    <3>1. /\ nodes' = BlankNodes /\ hint' = MiddleHints /\ size' = 0
          /\ \A t \in Threads : pc'[t] = "idle"
      BY <1>2 DEF Clear
    <3>2. \A t : Due(t)' = 0 /\ (\A e : Owed(t, e)' = 0)
      BY <3>1 DEF Owed, Due
    <3>3. hint'[LEFT] = N \div 2 - 1 /\ hint'[RIGHT] = N \div 2
      BY <3>1 DEF MiddleHints, End, LEFT, RIGHT
    <3>4. QED
      BY <3>1, <3>2, <3>3, BlankHeads DEF HintsOf, SizeOf, Slots
  <2>2. Indices'
    BY <1>1, <1>2 DEF Clear, Indices, request, locals, Reach
  <2>3. QED
    BY <1>1, <1>2, <2>1, <2>2, ClearInv DEF PairInv
<1>3. ASSUME NEW t \in Threads, Call(t) \/ Step(t)
      PROVE  PairInv(p, q)'
  <2>1. Inv'
    BY <1>1, <1>3, StepInv
  <2>2. PICK u \in {p, q} : u # t /\ {p, q} = {t, u}
    OBVIOUS
  <2>3. HintsOf(t, u) /\ SizeOf(t, u)
    BY <1>1, <2>2, PairSym, SizeSym
  <2>4. HintsOf(t, u)' /\ SizeOf(t, u)' /\ Indices'
    <3>1. CASE Call(t) \/ Oracle(t)
      BY <1>1, <2>2, <2>3, <3>1, OraclePair
    <3>2. CASE Body(t)
      BY <1>1, <2>2, <2>3, <3>2, BodyPair, BodyIndices
    <3>3. QED
      BY <1>3, <3>1, <3>2
      DEF Step, LeftOracle, RightOracle, LeftPush, LeftPop, RightPush, RightPop
  <2>5. HintsOf(p, q)' /\ SizeOf(p, q)'
    BY <2>2, <2>4, PairSymNext, SizeSym
  <2>6. QED
    BY <2>1, <2>4, <2>5 DEF PairInv
<1>4. CASE UNCHANGED vars
  BY <1>1, <1>4, StutterInv
  DEF PairInv, HintsOf, SizeOf, Due, Owed, Indices, vars, shared, request, locals, HeadsIn, Reach
<1>5. QED
  BY <1>2, <1>3, <1>4 DEF Next

\* With two threads, no operation decides anything by what memory holds beyond
\* the array: of the two nodes it reads and exchanges, one lies inside.
THEOREM TwoThreadsGrounded ==
  ASSUME NEW p, NEW q, p # q, Threads \subseteq {p, q}
  PROVE  Spec => []Grounded
<1>1. Init => PairInv(p, q)
  BY PairInit
<1>2. PairInv(p, q) /\ [Next]_vars => PairInv(p, q)'
  BY PairNext
<1>3. PairInv(p, q) => Grounded
  BY ReachGrounds DEF PairInv, Inv
<1>4. QED
  BY <1>1, <1>2, <1>3, PTL DEF Spec

LEMMA GroundedInRange ==
  ASSUME Inv, Grounded
  PROVE  CasInRange
BY DEF Inv, InvGuard, Grounded, CasInRange, Aimed, Near

\* Two threads exchange nodes of the array only, although the oracle hands
\* them indices outside it.
THEOREM TwoThreadsInRange ==
  ASSUME NEW p, NEW q, p # q, Threads \subseteq {p, q}
  PROVE  Spec => []CasInRange
BY TwoThreadsGrounded, Invariance, GroundedInRange, PTL

-----------------------------------------------------------------------------
(* Exact hints and an exact size *)

LEMMA CardPair ==
  ASSUME NEW p, NEW q, p # q, NEW S, S \subseteq {p, q}
  PROVE  Cardinality(S) = (IF p \in S THEN 1 ELSE 0) + (IF q \in S THEN 1 ELSE 0)
<1>1. CASE S = {}
  BY <1>1, FS_EmptySet
<1>2. CASE S = {p}
  BY <1>2, FS_Singleton
<1>3. CASE S = {q}
  BY <1>3, FS_Singleton
<1>4. CASE S = {p, q}
  <2>1. IsFiniteSet({p}) /\ Cardinality({p}) = 1
    BY FS_Singleton
  <2>2. S = {p} \cup {q} /\ q \notin {p}
    BY <1>4
  <2>3. Cardinality(S) = Cardinality({p}) + 1
    BY <2>1, <2>2, FS_AddElement
  <2>4. QED
    BY <1>4, <2>1, <2>3
<1>5. QED
  BY <1>1, <1>2, <1>3, <1>4

\* One for a thread that stands at one of the labels in operation o at end e.
Bit(t, e, o, labels) ==
  IF t \in Threads /\ end[t] = e /\ op[t] = o /\ pc[t] \in labels THEN 1 ELSE 0

LEMMA PendingPair ==
  ASSUME NEW p, NEW q, p # q, Threads \subseteq {p, q}, NEW e, NEW o, NEW labels
  PROVE  Pending(e, o, labels) = Bit(p, e, o, labels) + Bit(q, e, o, labels)
<1> DEFINE S == {t \in Threads : end[t] = e /\ op[t] = o /\ pc[t] \in labels}
<1>1. S \subseteq {p, q}
  OBVIOUS
<1>2. (p \in S <=> Bit(p, e, o, labels) = 1) /\ (q \in S <=> Bit(q, e, o, labels) = 1)
  BY DEF Bit
<1>3. Bit(p, e, o, labels) \in {0, 1} /\ Bit(q, e, o, labels) \in {0, 1}
  BY DEF Bit
<1>4. Pending(e, o, labels) = Cardinality(S)
  BY DEF Pending
<1> HIDE DEF S
<1>5. QED
  BY <1>1, <1>2, <1>3, <1>4, CardPair

LEMMA SurplusPair ==
  ASSUME TypeOK, NEW p, NEW q, p # q, Threads \subseteq {p, q}
  PROVE  /\ \A e \in End : Surplus(e, {"moveHint"}) = Owed(p, e) + Owed(q, e)
         /\ Surplus(LEFT, {"moveHint", "resize"}) + Surplus(RIGHT, {"moveHint", "resize"})
              = Due(p) + Due(q)
         /\ \A e \in End : Surplus(e, {"moveHint", "resize"}) \in Int
<1>1. ASSUME NEW e, NEW labels
      PROVE  Surplus(e, labels) =
               (Bit(p, e, PUSH, labels) - Bit(p, e, POP, labels))
                 + (Bit(q, e, PUSH, labels) - Bit(q, e, POP, labels))
  <2>1. \A t, o : Bit(t, e, o, labels) \in {0, 1}
    BY DEF Bit
  <2>2. QED
    BY <2>1, PendingPair DEF Surplus
<1>2. PUSH # POP /\ LEFT # RIGHT /\ LEFT \in End /\ RIGHT \in End
      /\ (\A t \in Threads : op[t] \in {PUSH, POP} /\ end[t] \in {LEFT, RIGHT})
  BY DEF TypeOK, Op, End, PUSH, POP, LEFT, RIGHT
<1>3. \A t, e : Bit(t, e, PUSH, {"moveHint"}) - Bit(t, e, POP, {"moveHint"}) = Owed(t, e)
  BY <1>2 DEF Bit, Owed
<1> DEFINE L == {"moveHint", "resize"}
<1>4. \A t : (Bit(t, LEFT, PUSH, L) - Bit(t, LEFT, POP, L))
               + (Bit(t, RIGHT, PUSH, L) - Bit(t, RIGHT, POP, L)) = Due(t)
  BY <1>2 DEF Bit, Due
<1>5. \A t, e, o : Bit(t, e, o, L) \in {0, 1}
  BY DEF Bit
<1>6. \A e : Surplus(e, {"moveHint"}) = Owed(p, e) + Owed(q, e)
  BY <1>1, <1>3
<1> HIDE DEF L
<1>7. /\ Surplus(LEFT, L) = (Bit(p, LEFT, PUSH, L) - Bit(p, LEFT, POP, L))
                              + (Bit(q, LEFT, PUSH, L) - Bit(q, LEFT, POP, L))
      /\ Surplus(RIGHT, L) = (Bit(p, RIGHT, PUSH, L) - Bit(p, RIGHT, POP, L))
                              + (Bit(q, RIGHT, PUSH, L) - Bit(q, RIGHT, POP, L))
  BY <1>1
<1>8. Surplus(LEFT, L) + Surplus(RIGHT, L) = Due(p) + Due(q)
  BY <1>4, <1>5, <1>7, DueType
<1>9. \A e \in End : Surplus(e, L) \in Int
  BY <1>1, <1>5
<1>10. QED
  BY <1>6, <1>8, <1>9 DEF L

LEMMA ModWord ==
  ASSUME NEW z \in Int, -2 <= z, z < ULONG
  PROVE  z % ULONG = IF z < 0 THEN ULONG + z ELSE z
<1>1. z >= 0 => z % ULONG = z
  OBVIOUS
<1>2. z = -1 => z % ULONG = ULONG - 1
  OBVIOUS
<1>3. z = -2 => z % ULONG = ULONG - 2
  OBVIOUS
<1>4. z = -2 \/ z = -1 \/ z >= 0
  OBVIOUS
<1>5. QED
  BY <1>1, <1>2, <1>3, <1>4

LEMMA PairExact ==
  ASSUME NEW p, NEW q, p # q, Threads \subseteq {p, q}, PairInv(p, q)
  PROVE  HintExact /\ SizeExact
<1>1. TypeOK /\ HintsOf(p, q) /\ SizeOf(p, q) /\ LEFT \in End /\ RIGHT \in End
  BY DEF PairInv, Inv, End
<1>2. \A l, r \in Slots : HeadsIn(nodes, l, r) => HeadSlot(LEFT) = l /\ HeadSlot(RIGHT) = r
  BY HeadOf DEF HeadSlot
<1>3. HintExact
  <2>1. PICK l \in Slots, r \in Slots :
          LET x == l + Owed(p, LEFT) + Owed(q, LEFT)
              y == r - Owed(p, RIGHT) - Owed(q, RIGHT)
          IN
          /\ HeadsIn(nodes, l, r)
          /\ x \in -1 .. N - 1 /\ hint[LEFT] = IF x < 0 THEN ULONG - 1 ELSE x
          /\ y \in 0 .. N /\ hint[RIGHT] = y
    BY <1>1 DEF HintsOf
  <2> DEFINE x == l + Owed(p, LEFT) + Owed(q, LEFT)
             y == r - Owed(p, RIGHT) - Owed(q, RIGHT)
  <2>2. /\ x = HeadSlot(LEFT) + Surplus(LEFT, {"moveHint"})
        /\ y = HeadSlot(RIGHT) - Surplus(RIGHT, {"moveHint"})
    <3>1. HeadSlot(LEFT) = l /\ HeadSlot(RIGHT) = r
      BY <1>2, <2>1
    <3>2. /\ Surplus(LEFT, {"moveHint"}) = Owed(p, LEFT) + Owed(q, LEFT)
          /\ Surplus(RIGHT, {"moveHint"}) = Owed(p, RIGHT) + Owed(q, RIGHT)
      BY <1>1, SurplusPair
    <3>3. QED
      BY <3>1, <3>2, OwedType DEF Slots
  <2>3. x \in -1 .. N - 1 /\ y \in 0 .. N
    BY <2>1
  <2>4. hint[LEFT] = (IF x < 0 THEN ULONG - 1 ELSE x) /\ hint[RIGHT] = y
    BY <2>1
  <2> HIDE DEF x, y
  <2>5. hint[LEFT] = x % ULONG /\ hint[RIGHT] = y % ULONG
    <3>1. x % ULONG = (IF x < 0 THEN ULONG + x ELSE x) /\ y % ULONG = y
      BY <2>3, ModWord
    <3>2. QED
      BY <2>3, <2>4, <3>1
  <2>6. QED
    BY <2>2, <2>5 DEF HintExact
<1>4. SizeExact
  <2>1. PICK l \in Slots, r \in Slots :
          LET z == (r - l - 1) - Due(p) - Due(q)
          IN  HeadsIn(nodes, l, r) /\ size = IF z < 0 THEN ULONG + z ELSE z
    BY <1>1 DEF SizeOf
  <2> DEFINE z == (r - l - 1) - Due(p) - Due(q)
             L == {"moveHint", "resize"}
  <2>2. z \in -2 .. N
    BY <2>1, DueType DEF HeadsIn, Slots
  <2>3. z = HeadSlot(RIGHT) - HeadSlot(LEFT) - 1 - Surplus(LEFT, L) - Surplus(RIGHT, L)
    <3>1. HeadSlot(LEFT) = l /\ HeadSlot(RIGHT) = r
      BY <1>2, <2>1
    <3>2. /\ Surplus(LEFT, L) + Surplus(RIGHT, L) = Due(p) + Due(q)
          /\ Surplus(LEFT, L) \in Int /\ Surplus(RIGHT, L) \in Int
      BY <1>1, SurplusPair
    <3> HIDE DEF L
    <3>3. QED
      BY <3>1, <3>2, DueType DEF Slots
  <2>4. size = IF z < 0 THEN ULONG + z ELSE z
    BY <2>1
  <2> HIDE DEF z
  <2>5. size = z % ULONG
    BY <2>2, <2>4, ModWord
  <2>6. QED
    BY <2>3, <2>5 DEF SizeExact
<1>5. QED
  BY <1>3, <1>4

\* With two threads, a hint differs from its head by exactly the moves that
\* operations still owe, the wrap of the unsigned index included.
THEOREM TwoThreadsHints ==
  ASSUME NEW p, NEW q, p # q, Threads \subseteq {p, q}
  PROVE  Spec => []HintExact
<1>1. Init => PairInv(p, q)
  BY PairInit
<1>2. PairInv(p, q) /\ [Next]_vars => PairInv(p, q)'
  BY PairNext
<1>3. PairInv(p, q) => HintExact
  BY PairExact
<1>4. QED
  BY <1>1, <1>2, <1>3, PTL DEF Spec

\* With two threads, size counts the elements of the array, short of the
\* changes that operations still owe.
THEOREM TwoThreadsSize ==
  ASSUME NEW p, NEW q, p # q, Threads \subseteq {p, q}
  PROVE  Spec => []SizeExact
<1>1. Init => PairInv(p, q)
  BY PairInit
<1>2. PairInv(p, q) /\ [Next]_vars => PairInv(p, q)'
  BY PairNext
<1>3. PairInv(p, q) => SizeExact
  BY PairExact
<1>4. QED
  BY <1>1, <1>2, <1>3, PTL DEF Spec
=============================================================================
