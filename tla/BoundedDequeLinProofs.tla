------------------------- MODULE BoundedDequeLinProofs -------------------------
(***************************************************************************)
(* The bounded deque implements the atomic one: whatever the workload,     *)
(* save for what it answers when it is empty, and in full as long as pops  *)
(* keep to one end.                                                        *)
(***************************************************************************)
EXTENDS BoundedDequeLin, BoundedDequeHeadsProofs, SequenceTheorems

USE NAssumption, ULONGAssumption, EltsAssumption, ForeignAssumption,
    WorkloadAssumption, BoundsAssumption

-----------------------------------------------------------------------------
(* Rows of elements *)

\* The elements between heads l and r.
Row(nd, l, r) == [i \in 1 .. r - l - 1 |-> nd[l + i].value]

LEMMA RowType ==
  ASSUME NEW nd \in [Slots -> Node], NEW l \in Slots, NEW r \in Slots, HeadsIn(nd, l, r)
  PROVE  /\ Row(nd, l, r) \in Seq(Elts)
         /\ Len(Row(nd, l, r)) = r - l - 1
         /\ \A i \in 1 .. r - l - 1 : Row(nd, l, r)[i] = nd[l + i].value
<1>1. r - l - 1 \in Nat
  BY DEF HeadsIn, Slots
<1>2. ASSUME NEW i \in 1 .. r - l - 1
      PROVE  nd[l + i].value \in Elts
  <2>1. l + i \in Slots /\ ~(l + i <= l) /\ ~(l + i >= r)
    BY DEF Slots
  <2>2. nd[l + i].value \in Value
    BY <2>1 DEF Node
  <2>3. QED
    BY <2>1, <2>2 DEF HeadsIn, Value
<1>3. Row(nd, l, r) \in [1 .. r - l - 1 -> Elts]
  BY <1>2 DEF Row
<1>4. QED
  BY <1>1, <1>3 DEF Row

LEMMA RowEmpty ==
  ASSUME NEW nd \in [Slots -> Node], NEW l \in Slots, NEW r \in Slots, HeadsIn(nd, l, r)
  PROVE  Row(nd, l, r) = <<>> <=> r = l + 1
<1>1. /\ Row(nd, l, r) \in Seq(Elts) /\ Len(Row(nd, l, r)) = r - l - 1
  BY RowType
<1>2. QED
  BY <1>1, EmptySeq DEF Slots

-----------------------------------------------------------------------------
(* The abstract state *)

Rooms(l, r) == [e \in End |-> IF e = LEFT THEN l ELSE N - 1 - r]

\* A head's move is a place lost or gained at its end.
LEMMA RoomsMove ==
  ASSUME NEW l \in Int, NEW r \in Int, NEW n \in Int, NEW l2, NEW r2,
         room = Rooms(l, r), room' = Rooms(l2, r2)
  PROVE  /\ l2 = l + n /\ r2 = r => room' = [room EXCEPT ![LEFT] = room[LEFT] + n]
         /\ l2 = l /\ r2 = r - n => room' = [room EXCEPT ![RIGHT] = room[RIGHT] + n]
         /\ room[LEFT] = l /\ room[RIGHT] = N - 1 - r
<1>1. LEFT # RIGHT /\ End = {LEFT, RIGHT}
  BY DEF LEFT, RIGHT, End
<1> DEFINE y == N - 1 - r
           y2 == N - 1 - r2
<1>2. room = [e \in End |-> IF e = LEFT THEN l ELSE y]
      /\ room' = [e \in End |-> IF e = LEFT THEN l2 ELSE y2]
  BY DEF Rooms
<1>3. r2 = r - n => y2 = y + n
  OBVIOUS
<1>4. r2 = r => y2 = y
  OBVIOUS
<1> HIDE DEF y, y2
<1>5. room[LEFT] = l /\ room[RIGHT] = y
  BY <1>1, <1>2
<1>6. ASSUME l2 = l + n, r2 = r
      PROVE  room' = [room EXCEPT ![LEFT] = room[LEFT] + n]
  BY <1>1, <1>2, <1>4, <1>5, <1>6
<1>7. ASSUME l2 = l, r2 = r - n
      PROVE  room' = [room EXCEPT ![RIGHT] = room[RIGHT] + n]
  <2>1. \A e \in End : [room EXCEPT ![RIGHT] = y + n][e]
                         = IF e = RIGHT THEN y + n ELSE room[e]
    BY <1>1, <1>2
  <2>2. \A e \in End : (IF e = RIGHT THEN y + n ELSE room[e]) = room'[e]
    BY <1>1, <1>2, <1>3, <1>5, <1>7
  <2>3. QED
    BY <1>1, <1>2, <1>5, <2>1, <2>2
<1>8. QED
  BY <1>5, <1>6, <1>7 DEF y

LEMMA View ==
  ASSUME NEW l \in Slots, NEW r \in Slots, HeadsIn(nodes, l, r)
  PROVE  items = Row(nodes, l, r) /\ room = Rooms(l, r)
<1>1. HeadSlot(LEFT) = l /\ HeadSlot(RIGHT) = r
  BY HeadOf DEF HeadSlot
<1>2. QED
  BY <1>1 DEF items, room, Row, Rooms

LEMMA ViewNext ==
  ASSUME NEW l \in Slots, NEW r \in Slots, HeadsIn(nodes', l, r)
  PROVE  items' = Row(nodes', l, r) /\ room' = Rooms(l, r)
<1>1. HeadSlot(LEFT)' = l /\ HeadSlot(RIGHT)' = r
  BY HeadOf DEF HeadSlot
<1>2. QED
  BY <1>1 DEF items, room, Row, Rooms

\* An element joins or leaves the row at either end.
LEMMA RowChange ==
  ASSUME nodes \in [Slots -> Node], nodes' \in [Slots -> Node],
         NEW l \in Slots, NEW r \in Slots, HeadsIn(nodes, l, r),
         NEW l2 \in Slots, NEW r2 \in Slots, HeadsIn(nodes', l2, r2),
         items = Row(nodes, l, r), items' = Row(nodes', l2, r2),
         \A i \in Slots : i > l /\ i > l2 /\ i < r /\ i < r2 => nodes'[i].value = nodes[i].value
  PROVE  /\ l2 = l /\ r2 = r => items' = items
         /\ l2 = l - 1 /\ r2 = r => items' = <<nodes'[l].value>> \o items
         /\ l2 = l /\ r2 = r + 1 => items' = Append(items, nodes'[r].value)
         /\ l2 = l + 1 /\ r2 = r =>
              items # <<>> /\ items' = Tail(items) /\ items[1] = nodes[l + 1].value
         /\ l2 = l /\ r2 = r - 1 =>
              /\ items # <<>> /\ items' = SubSeq(items, 1, Len(items) - 1)
              /\ items[Len(items)] = nodes[r - 1].value
<1>1. /\ items \in Seq(Elts) /\ Len(items) = r - l - 1
      /\ \A i \in 1 .. r - l - 1 : items[i] = nodes[l + i].value
  BY RowType
<1>2. /\ items' \in Seq(Elts) /\ Len(items') = r2 - l2 - 1
      /\ \A i \in 1 .. r2 - l2 - 1 : items'[i] = nodes'[l2 + i].value
  BY RowType
<1>3. l < r /\ l2 < r2 /\ l \in Int /\ r \in Int /\ l2 \in Int /\ r2 \in Int
  BY DEF HeadsIn, Slots
<1>4. \A i \in Int : i > l /\ i > l2 /\ i < r /\ i < r2 =>
                      nodes'[i].value = nodes[i].value
  BY DEF Slots
<1>5. ASSUME l2 = l, r2 = r
      PROVE  items' = items
  <2>1. ASSUME NEW i \in 1 .. Len(items')
        PROVE  items'[i] = items[i]
    <3>1. l2 + i = l + i /\ l + i > l /\ l + i < r /\ l + i < r2
          /\ i \in 1 .. r - l - 1 /\ i \in 1 .. r2 - l2 - 1
      BY <1>1, <1>2, <1>3, <1>5
    <3>2. items'[i] = nodes'[l + i].value /\ items[i] = nodes[l + i].value
      BY <1>1, <1>2, <3>1
    <3>3. QED
      BY <1>3, <1>4, <1>5, <3>1, <3>2
  <2>2. QED
    BY <1>1, <1>2, <1>5, <2>1, SeqEqual
<1>6. ASSUME l2 = l - 1, r2 = r, NEW v, nodes'[l].value = v
      PROVE  items' = <<v>> \o items
  <2>1. Len(items') = 1 + Len(items) /\ 1 \in 1 .. Len(items') /\ items'[1] = v
    BY <1>1, <1>2, <1>3, <1>6
  <2>2. v \in Elts
    BY <1>2, <2>1, ElementOfSeq
  <2>3. <<v>> \in Seq(Elts) /\ Len(<<v>>) = 1 /\ <<v>>[1] = v
    BY <2>2
  <2>4. /\ <<v>> \o items \in Seq(Elts) /\ Len(<<v>> \o items) = 1 + Len(items)
        /\ \A i \in 1 .. 1 + Len(items) : (<<v>> \o items)[i] = IF i <= 1 THEN v ELSE items[i - 1]
    BY <1>1, <2>3, ConcatProperties
  <2>5. ASSUME NEW i \in 1 .. Len(items'), i > 1
        PROVE  items'[i] = items[i - 1]
    <3>1. i \in 1 .. r2 - l2 - 1 /\ i \in Int
      BY <1>2
    <3>2. l2 + i = l + (i - 1) /\ l + (i - 1) > l /\ l + (i - 1) < r
          /\ i - 1 \in 1 .. r - l - 1
      BY <1>3, <1>6, <2>5, <3>1
    <3>3. items'[i] = nodes'[l2 + i].value /\ items[i - 1] = nodes[l + (i - 1)].value
      BY <1>1, <1>2, <3>1, <3>2
    <3>4. QED
      BY <1>3, <1>4, <1>6, <3>1, <3>2, <3>3
  <2>6. \A i \in 1 .. Len(items') : items'[i] = (<<v>> \o items)[i]
    BY <1>1, <2>1, <2>4, <2>5
  <2>7. QED
    BY <1>2, <2>1, <2>4, <2>6, SeqEqual
<1>7. ASSUME l2 = l, r2 = r + 1, NEW v, nodes'[r].value = v
      PROVE  items' = Append(items, v)
  <2>1. Len(items') = Len(items) + 1 /\ Len(items') \in 1 .. Len(items') /\ items'[Len(items')] = v
    BY <1>1, <1>2, <1>3, <1>7
  <2>2. v \in Elts
    BY <1>2, <2>1, ElementOfSeq
  <2>3. /\ Append(items, v) \in Seq(Elts) /\ Len(Append(items, v)) = Len(items) + 1
        /\ \A i \in 1 .. Len(items) : Append(items, v)[i] = items[i]
        /\ Append(items, v)[Len(items) + 1] = v
    BY <1>1, <2>2, AppendProperties
  <2>4. ASSUME NEW i \in 1 .. Len(items)
        PROVE  items'[i] = items[i]
    <3>1. l2 + i = l + i /\ l + i > l /\ l + i < r /\ l + i < r2
          /\ i \in 1 .. r - l - 1 /\ i \in 1 .. r2 - l2 - 1
      BY <1>1, <1>2, <1>3, <1>7
    <3>2. items'[i] = nodes'[l + i].value /\ items[i] = nodes[l + i].value
      BY <1>1, <1>2, <3>1
    <3>3. QED
      BY <1>3, <1>4, <1>7, <3>1, <3>2
  <2>5. \A i \in 1 .. Len(items') : items'[i] = Append(items, v)[i]
    BY <1>1, <2>1, <2>3, <2>4
  <2>6. QED
    BY <1>2, <2>1, <2>3, <2>5, SeqEqual
<1>8. ASSUME l2 = l + 1, r2 = r
      PROVE  items # <<>> /\ items' = Tail(items) /\ items[1] = nodes[l + 1].value
  <2>1. Len(items) = Len(items') + 1 /\ Len(items') \in Nat /\ 1 \in 1 .. Len(items)
    BY <1>1, <1>2, <1>3, <1>8
  <2>2. items # <<>>
    BY <2>1, EmptySeq
  <2>3. /\ Tail(items) \in Seq(Elts) /\ Len(Tail(items)) = Len(items')
        /\ \A i \in 1 .. Len(items') : Tail(items)[i] = items[i + 1]
    BY <1>1, <2>1, <2>2, HeadTailProperties
  <2>4. ASSUME NEW i \in 1 .. Len(items')
        PROVE  items'[i] = items[i + 1]
    <3>1. i \in 1 .. r2 - l2 - 1 /\ i \in Int
      BY <1>2
    <3>2. l2 + i = l + (i + 1) /\ l2 + i > l2 /\ l2 + i < r
          /\ i + 1 \in 1 .. r - l - 1
      BY <3>1, <1>3, <1>8
    <3>3. items'[i] = nodes'[l2 + i].value /\ items[i + 1] = nodes[l + (i + 1)].value
      BY <1>1, <1>2, <3>1, <3>2
    <3>4. QED
      BY <1>3, <1>4, <1>8, <3>1, <3>2, <3>3
  <2>5. items' = Tail(items)
    BY <1>2, <2>3, <2>4, SeqEqual
  <2>6. QED
    BY <1>1, <2>1, <2>2, <2>5
<1>9. ASSUME l2 = l, r2 = r - 1
      PROVE  /\ items # <<>> /\ items' = SubSeq(items, 1, Len(items) - 1)
             /\ items[Len(items)] = nodes[r - 1].value
  <2>1. Len(items) = Len(items') + 1 /\ Len(items') \in Nat /\ Len(items) \in 1 .. Len(items)
    BY <1>1, <1>2, <1>3, <1>9
  <2>2. items # <<>>
    BY <2>1, EmptySeq
  <2>3. \A i \in 1 .. Len(items') : items[i] \in Elts
    BY <1>1, <2>1, ElementOfSeq
  <2>4. /\ SubSeq(items, 1, Len(items')) \in Seq(Elts)
        /\ Len(SubSeq(items, 1, Len(items'))) = Len(items')
        /\ \A i \in 1 .. Len(items') : SubSeq(items, 1, Len(items'))[i] = items[i]
    <3>1. /\ SubSeq(items, 1, Len(items')) \in Seq(Elts)
          /\ Len(SubSeq(items, 1, Len(items'))) = IF 1 <= Len(items') THEN Len(items') - 1 + 1 ELSE 0
          /\ \A i \in 1 .. Len(items') - 1 + 1 : SubSeq(items, 1, Len(items'))[i] = items[1 + i - 1]
      BY <2>1, <2>3, SubSeqProperties
    <3>2. QED
      BY <2>1, <3>1
  <2>5. ASSUME NEW i \in 1 .. Len(items')
        PROVE  items'[i] = items[i]
    <3>1. l2 + i = l + i /\ l + i > l /\ l + i < r /\ l + i < r2
          /\ i \in 1 .. r - l - 1 /\ i \in 1 .. r2 - l2 - 1
      BY <1>1, <1>2, <1>3, <1>9
    <3>2. items'[i] = nodes'[l + i].value /\ items[i] = nodes[l + i].value
      BY <1>1, <1>2, <3>1
    <3>3. QED
      BY <1>3, <1>4, <1>9, <3>1, <3>2
  <2>6. items' = SubSeq(items, 1, Len(items'))
    BY <1>2, <2>4, <2>5, SeqEqual
  <2>7. Len(items') = Len(items) - 1
    BY <2>1
  <2>8. items[Len(items)] = nodes[r - 1].value
    BY <1>1, <1>3, <2>1
  <2>9. QED
    BY <2>2, <2>6, <2>7, <2>8
<1>10. QED
  BY <1>5, <1>6, <1>7, <1>8, <1>9

\* Nodes of the same values hold the same elements.
LEMMA SameView ==
  ASSUME TypeOK, TypeOK', Heads, \A i \in Slots : nodes'[i].value = nodes[i].value
  PROVE  UNCHANGED <<items, room>>
<1>1. PICK l \in Slots, r \in Slots : HeadsIn(nodes, l, r)
  BY DEF Heads
<1>2. HeadsIn(nodes', l, r)
  BY <1>1, SameHeads
<1>3. Row(nodes', l, r) = Row(nodes, l, r)
  <2>1. \A i \in 1 .. r - l - 1 : nodes'[l + i].value = nodes[l + i].value
    BY DEF Slots
  <2>2. QED
    BY <2>1 DEF Row
<1>4. QED
  BY <1>1, <1>2, <1>3, View, ViewNext

\* A step of one thread changes the phase and the answer of no other.
LEMMA ViewFrame ==
  ASSUME TypeOK, NEW t \in Threads, Frame(t), \A u \in Threads \ {t} : ret'[u] = ret[u]
  PROVE  /\ phase' = [phase EXCEPT ![t] = phase'[t]]
         /\ answer' = [answer EXCEPT ![t] = answer'[t]]
<1>1. \A u \in Threads \ {t} : phase'[u] = phase[u] /\ answer'[u] = answer[u]
  BY DEF phase, answer, Effective, Frame
<1>2. /\ phase = [u \in Threads |-> phase[u]] /\ phase' = [u \in Threads |-> phase'[u]]
      /\ answer = [u \in Threads |-> answer[u]]
      /\ answer' = [u \in Threads |-> answer'[u]]
  BY DEF phase, answer
<1> HIDE DEF phase, answer
<1>3. QED
  BY <1>1, <1>2

\* What the history variable seen records.
SeenInv ==
  /\ seen \in [Threads -> BOOLEAN]
  /\ \A t \in Threads :
       /\ seen[t] => phase[t] = "waiting"
       /\ phase[t] = "waiting" /\ Lenient!Refused(t) => seen[t]

LEMMA SeenNext ==
  ASSUME Lenient!Witness
  PROVE  SeenInv'
BY DEF Lenient!Witness, Lenient!Refused, SeenInv, phase

\* The answers that are not taken on trust: FULL has been true, and only a pop
\* loads its inner node again.
Answering ==
  \A t \in Threads :
    /\ /\ pc[t] = "loadOuter" /\ op[t] = PUSH
       /\ AtBound(end[t], k[t]) /\ inner[t].value # Own(end[t])
       => seen[t]
    /\ pc[t] = "recheck" => op[t] = POP

\* When no abstract variable but seen can change, seen does not.
LEMMA SeenSame ==
  ASSUME SeenInv, Lenient!Witness, UNCHANGED <<items, room, phase, end, op>>
  PROVE  seen' = seen
<1>1. \A t \in Threads : Lenient!Refused(t)' = Lenient!Refused(t)
  BY DEF Lenient!Refused
<1>2. \A t \in Threads : seen'[t] = seen[t]
  BY <1>1 DEF SeenInv, Lenient!Witness
<1>3. QED
  BY <1>2 DEF SeenInv, Lenient!Witness

Refines == [Lenient!Next]_(Lenient!avars)

\* A step inside an operation is no step of the atomic deque.
LEMMA InsideRefines ==
  ASSUME TypeOK, TypeOK', Heads, SeenInv, Lenient!Witness, NEW t \in Threads,
         Frame(t), \A i \in Slots : nodes'[i].value = nodes[i].value,
         UNCHANGED <<request, ret>>,
         phase'[t] = phase[t], answer'[t] = answer[t]
  PROVE  Refines
<1>1. UNCHANGED <<items, room>>
  BY SameView
<1>2. UNCHANGED <<phase, answer>>
  <2>1. phase \in [Threads -> {"idle", "waiting", "done"}]
    BY DEF phase
  <2>2. answer = [u \in Threads |-> answer[u]]
    BY DEF answer
  <2>3. phase' = [phase EXCEPT ![t] = phase[t]] /\ answer' = [answer EXCEPT ![t] = answer[t]]
    BY ViewFrame
  <2>4. QED
    BY <2>1, <2>2, <2>3
<1>3. UNCHANGED <<end, op, elt>>
  BY DEF request
<1>4. seen' = seen
  BY <1>1, <1>2, <1>3, SeenSame
<1>5. QED
  BY <1>1, <1>2, <1>3, <1>4 DEF Refines, Lenient!avars

LEMMA CallRefines ==
  ASSUME TypeOK, TypeOK', Heads, Lenient!Witness, NEW t \in Threads, Call(t)
  PROVE  Refines
<1>1. /\ Frame(t) /\ pc[t] = "idle" /\ pc'[t] = "oracleHint" /\ nodes' = nodes
      /\ ret' = [ret EXCEPT ![t] = [stat |-> NONE, val |-> NULL]]
  BY DEF Call, Frame, Goto, TypeOK, shared, locals
<1>2. phase[t] = "idle" /\ phase'[t] = "waiting"
      /\ answer'[t] = [stat |-> NONE, val |-> NULL]
  BY <1>1 DEF phase, answer, Effective, TypeOK
<1>3. /\ phase' = [phase EXCEPT ![t] = "waiting"]
      /\ answer' = [answer EXCEPT ![t] = [stat |-> NONE, val |-> NULL]]
  BY <1>1, <1>2, ViewFrame DEF TypeOK
<1>4. UNCHANGED <<items, room>>
  BY <1>1, SameView
<1>5. \E w \in Workload, v \in Elts \cup {NULL} :
        /\ w[2] = PUSH <=> v # NULL
        /\ end' = [end EXCEPT ![t] = w[1]]
        /\ op'  = [op EXCEPT ![t] = w[2]]
        /\ elt' = [elt EXCEPT ![t] = v]
  <2>1. PICK w \in Workload, v \in Elts \cup {NULL} :
          /\ v \in IF w[2] = PUSH THEN Elts ELSE {NULL}
          /\ end' = [end EXCEPT ![t] = w[1]]
          /\ op'  = [op EXCEPT ![t] = w[2]]
          /\ elt' = [elt EXCEPT ![t] = v]
    BY DEF Call
  <2>2. w[2] = PUSH <=> v # NULL
    BY <2>1
  <2>3. QED
    BY <2>1, <2>2
<1>6. Lenient!Call(t)
  BY <1>2, <1>3, <1>4, <1>5
  DEF Lenient!Call, Lenient!Answer, Lenient!PUSH, Lenient!NULL, Lenient!NONE, PUSH, NULL, NONE
<1>7. QED
  BY <1>6 DEF Refines, Lenient!Next, Lenient!Served

\* An operation that answers FULL or EMPTY.
LEMMA RefuseRefines ==
  ASSUME TypeOK, TypeOK', Heads, Lenient!Witness, NEW t \in Threads, Frame(t),
         nodes' = nodes, UNCHANGED request, pc[t] \in {"loadOuter", "recheck"},
         op[t] = PUSH => seen[t],
         Return(t, IF op[t] = PUSH THEN FULL ELSE EMPTY, NULL)
  PROVE  Refines
<1> DEFINE stat == IF op[t] = PUSH THEN FULL ELSE EMPTY
<1>1. /\ pc'[t] = "idle"
      /\ ret' = [ret EXCEPT ![t] = [stat |-> stat, val |-> NULL]]
  BY DEF Return, Goto, TypeOK
<1>2. phase[t] = "waiting" /\ phase'[t] = "idle"
      /\ answer'[t] = [stat |-> stat, val |-> NULL]
  BY <1>1 DEF phase, answer, Effective, TypeOK
<1>3. /\ phase' = [phase EXCEPT ![t] = "idle"]
      /\ answer' = [answer EXCEPT ![t] = [stat |-> stat, val |-> NULL]]
  BY <1>1, <1>2, ViewFrame DEF TypeOK
<1>4. UNCHANGED <<items, room>>
  BY SameView
<1>5. Lenient!Refuse(t)
  BY <1>2, <1>3, <1>4
  DEF Lenient!Refuse, Lenient!Answer, Lenient!PUSH, Lenient!NULL, Lenient!FULL,
      Lenient!EMPTY, PUSH, NULL, FULL, EMPTY, request
<1>6. seen[t] \/ op[t] = POP
  BY DEF TypeOK, Op
<1>7. QED
  BY <1>5, <1>6 DEF Refines, Lenient!Next, Lenient!POP, POP

LEMMA ResizeRefines ==
  ASSUME TypeOK, TypeOK', Heads, Lenient!Witness, NEW t \in Threads, Frame(t),
         UNCHANGED request, Resize(t)
  PROVE  Refines
<1>1. /\ pc[t] = "resize" /\ pc'[t] = "idle" /\ nodes' = nodes
      /\ ret' = [ret EXCEPT ![t] = answer[t]]
  BY DEF Resize, Return, Goto, TypeOK, answer, Effective
<1>2. phase[t] = "done" /\ phase'[t] = "idle" /\ answer'[t] = answer[t]
  BY <1>1 DEF phase, answer, Effective, TypeOK
<1>3. phase' = [phase EXCEPT ![t] = "idle"] /\ answer' = answer
  <2>1. /\ phase' = [phase EXCEPT ![t] = "idle"]
        /\ answer' = [answer EXCEPT ![t] = answer[t]]
    BY <1>1, <1>2, ViewFrame DEF TypeOK
  <2>2. answer = [u \in Threads |-> answer[u]]
    BY DEF answer
  <2>3. QED
    BY <2>1, <2>2
<1>4. UNCHANGED <<items, room>>
  BY <1>1, SameView
<1>5. Lenient!Return(t)
  BY <1>2, <1>3, <1>4 DEF Lenient!Return, request
<1>6. QED
  BY <1>5 DEF Refines, Lenient!Next, Lenient!Served

\* A second exchange that hits is where the operation takes effect.
LEMMA StrikeRefines ==
  ASSUME TypeOK, TypeOK', Lenient!Witness, NEW t \in Threads, Frame(t),
         pc[t] = "cas2", pc'[t] = "moveHint", UNCHANGED <<request, locals, ret>>,
         NEW l \in Slots, NEW r \in Slots, HeadsIn(nodes, l, r), Struck(t, l, r)
  PROVE  Refines
<1> DEFINE l2 == HeadAfter(t, LEFT, l)
           r2 == HeadAfter(t, RIGHT, r)
           s == Row(nodes, l, r)
           s2 == Row(nodes', l2, r2)
           val == IF op[t] = PUSH THEN NULL ELSE inner[t].value
<1>1. l2 \in Slots /\ r2 \in Slots /\ HeadsIn(nodes', l2, r2)
  BY StruckHeads
<1>2. items = s /\ room = Rooms(l, r) /\ items' = s2 /\ room' = Rooms(l2, r2)
  BY <1>1, View, ViewNext
<1>3. phase[t] = "waiting" /\ phase'[t] = "done"
      /\ answer'[t] = [stat |-> OK, val |-> val]
  BY DEF phase, answer, Effective, TypeOK, request, locals
<1>4. /\ phase' = [phase EXCEPT ![t] = "done"]
      /\ answer' = [answer EXCEPT ![t] = [stat |-> OK, val |-> val]]
  BY <1>3, ViewFrame DEF TypeOK
<1>5. Lenient!TakeEffect(t)
  BY <1>3, <1>4 DEF Lenient!TakeEffect, request
<1>6. LEFT # RIGHT /\ PUSH # POP /\ end[t] \in {LEFT, RIGHT} /\ op[t] \in {PUSH, POP}
  BY DEF LEFT, RIGHT, PUSH, POP, TypeOK, End, Op
<1>7. nodes \in [Slots -> Node] /\ nodes' \in [Slots -> Node] /\ l < r
      /\ l \in 0 .. N - 1 /\ r \in 0 .. N - 1
  BY DEF TypeOK, HeadsIn, Slots
<1> HIDE DEF l2, r2
<1>8. ASSUME \A i \in Slots : i > l /\ i > l2 /\ i < r /\ i < r2 =>
                                nodes'[i].value = nodes[i].value
      PROVE  /\ l2 = l - 1 /\ r2 = r => s2 = <<nodes'[l].value>> \o s
             /\ l2 = l /\ r2 = r + 1 => s2 = Append(s, nodes'[r].value)
             /\ l2 = l + 1 /\ r2 = r =>
                  s # <<>> /\ s2 = Tail(s) /\ s[1] = nodes[l + 1].value
             /\ l2 = l /\ r2 = r - 1 =>
                  /\ s # <<>> /\ s2 = SubSeq(s, 1, Len(s) - 1)
                  /\ s[Len(s)] = nodes[r - 1].value
  <2>1. /\ l \in Slots /\ r \in Slots /\ HeadsIn(nodes, l, r)
        /\ items = Row(nodes, l, r) /\ items' = Row(nodes', l2, r2)
    BY <1>2
  <2>2. /\ l2 = l - 1 /\ r2 = r => items' = <<nodes'[l].value>> \o items
        /\ l2 = l /\ r2 = r + 1 => items' = Append(items, nodes'[r].value)
        /\ l2 = l + 1 /\ r2 = r =>
             items # <<>> /\ items' = Tail(items) /\ items[1] = nodes[l + 1].value
        /\ l2 = l /\ r2 = r - 1 =>
             /\ items # <<>> /\ items' = SubSeq(items, 1, Len(items) - 1)
             /\ items[Len(items)] = nodes[r - 1].value
    BY ONLY <1>1, <1>7, <1>8, <2>1, RowChange
  <2> HIDE DEF s, s2
  <2>3. QED
    BY <1>2, <2>2
<1> HIDE DEF s, s2
<1>9. ASSUME NEW n \in {-1, 1}
      PROVE  /\ l2 = l + n /\ r2 = r => room' = [room EXCEPT ![LEFT] = @ + n]
             /\ l2 = l /\ r2 = r - n => room' = [room EXCEPT ![RIGHT] = @ + n]
             /\ room[LEFT] = l /\ room[RIGHT] = N - 1 - r
  <2>1. n \in Int /\ l \in Int /\ r \in Int
    BY <1>7
  <2>2. room = Rooms(l, r) /\ room' = Rooms(l2, r2)
    BY <1>2
  <2>3. /\ l2 = l + n /\ r2 = r => room' = [room EXCEPT ![LEFT] = room[LEFT] + n]
        /\ l2 = l /\ r2 = r - n => room' = [room EXCEPT ![RIGHT] = room[RIGHT] + n]
        /\ room[LEFT] = l /\ room[RIGHT] = N - 1 - r
    BY ONLY <2>1, <2>2, RoomsMove
  <2>4. QED
    BY <2>3
<1>10. CASE end[t] = LEFT /\ op[t] = PUSH
  <2>1. l2 = l - 1 /\ r2 = r
    BY <1>6, <1>10 DEF HeadAfter, l2, r2
  <2>2. /\ \A i \in Slots : nodes'[i].value = IF i = l THEN elt[t] ELSE nodes[i].value
        /\ l > 0
    BY <1>6, <1>7, <1>10 DEF Struck, AtBound
  <2>3. s2 = <<elt[t]>> \o s
    <3>1. \A i \in Slots : i > l /\ i > l2 /\ i < r /\ i < r2 =>
                             nodes'[i].value = nodes[i].value
      BY <2>2, <1>7
    <3>2. nodes'[l].value = elt[t]
      BY <2>2
    <3>3. QED
      BY <1>1, <1>7, <2>1, <3>1, <3>2, <1>8
  <2>4. room' = [room EXCEPT ![LEFT] = @ + -1] /\ room[LEFT] > 0
    <3>1. l2 = l + (-1) /\ l > 0
      BY <1>7, <2>1, <2>2
    <3>2. QED
      BY <1>9, <2>1, <3>1
  <2>5. Lenient!Push(t)
    BY <1>2, <1>4, <1>5, <1>10, <2>3, <2>4
    DEF Lenient!Push, Lenient!Widen, Lenient!Answer, Lenient!PUSH, Lenient!LEFT,
        Lenient!OK, Lenient!NULL, PUSH, LEFT, OK, NULL
  <2>6. QED
    BY <2>5 DEF Refines, Lenient!Next, Lenient!Served
<1>11. CASE end[t] = RIGHT /\ op[t] = PUSH
  <2>1. l2 = l /\ r2 = r + 1
    BY <1>6, <1>11 DEF HeadAfter, l2, r2
  <2>2. /\ \A i \in Slots : nodes'[i].value = IF i = r THEN elt[t] ELSE nodes[i].value
        /\ r < N - 1
    BY <1>6, <1>7, <1>11 DEF Struck, AtBound
  <2>3. s2 = Append(s, elt[t])
    <3>1. \A i \in Slots : i > l /\ i > l2 /\ i < r /\ i < r2 =>
                             nodes'[i].value = nodes[i].value
      BY <2>2, <1>7
    <3>2. nodes'[r].value = elt[t]
      BY <2>2
    <3>3. QED
      BY <1>1, <1>7, <2>1, <3>1, <3>2, <1>8
  <2>4. room' = [room EXCEPT ![RIGHT] = @ + -1] /\ room[RIGHT] > 0
    <3>1. r2 = r - (-1) /\ N - 1 - r > 0
      BY <1>7, <2>1, <2>2
    <3>2. QED
      BY <1>9, <2>1, <3>1
  <2>5. Lenient!Push(t)
    BY <1>2, <1>4, <1>5, <1>6, <1>11, <2>3, <2>4
    DEF Lenient!Push, Lenient!Widen, Lenient!Answer, Lenient!PUSH, Lenient!LEFT,
        Lenient!OK, Lenient!NULL, PUSH, LEFT, OK, NULL
  <2>6. QED
    BY <2>5 DEF Refines, Lenient!Next, Lenient!Served
<1>12. CASE end[t] = LEFT /\ op[t] = POP
  <2>1. l2 = l + 1 /\ r2 = r
    BY <1>6, <1>12 DEF HeadAfter, l2, r2
  <2>2. /\ \A i \in Slots : i # l + 1 => nodes'[i].value = nodes[i].value
        /\ nodes[l + 1].value = inner[t].value
    BY <1>6, <1>7, <1>12 DEF Struck
  <2>3. s # <<>> /\ s2 = Tail(s) /\ s[1] = inner[t].value
    <3>1. \A i \in Slots : i > l /\ i > l2 /\ i < r /\ i < r2 =>
                             nodes'[i].value = nodes[i].value
      BY <2>1, <2>2, <1>7
    <3>2. QED
      BY <1>1, <1>7, <2>1, <2>2, <3>1, <1>8
  <2>4. room' = [room EXCEPT ![LEFT] = @ + 1]
    <3>1. QED
      BY <1>9, <2>1, <1>7
  <2>5. Lenient!Pop(t)
    BY <1>2, <1>4, <1>5, <1>6, <1>12, <2>3, <2>4
    DEF Lenient!Pop, Lenient!Widen, Lenient!Answer, Lenient!POP, Lenient!LEFT,
        Lenient!OK, POP, LEFT, OK
  <2>6. QED
    BY <2>5 DEF Refines, Lenient!Next, Lenient!Served
<1>13. CASE end[t] = RIGHT /\ op[t] = POP
  <2>1. l2 = l /\ r2 = r - 1
    BY <1>6, <1>13 DEF HeadAfter, l2, r2
  <2>2. /\ \A i \in Slots : i # r - 1 => nodes'[i].value = nodes[i].value
        /\ nodes[r - 1].value = inner[t].value
    BY <1>6, <1>7, <1>13 DEF Struck
  <2>3. /\ s # <<>> /\ s2 = SubSeq(s, 1, Len(s) - 1)
        /\ s[Len(s)] = inner[t].value
    <3>1. \A i \in Slots : i > l /\ i > l2 /\ i < r /\ i < r2 =>
                             nodes'[i].value = nodes[i].value
      BY <2>1, <2>2, <1>7
    <3>2. QED
      BY <1>1, <1>7, <2>1, <2>2, <3>1, <1>8
  <2>4. room' = [room EXCEPT ![RIGHT] = @ + 1]
    <3>1. QED
      BY <1>9, <2>1, <1>7
  <2>5. Lenient!Pop(t)
    BY <1>2, <1>4, <1>5, <1>6, <1>13, <2>3, <2>4
    DEF Lenient!Pop, Lenient!Widen, Lenient!Answer, Lenient!POP, Lenient!LEFT,
        Lenient!OK, POP, LEFT, OK
  <2>6. QED
    BY <2>5 DEF Refines, Lenient!Next, Lenient!Served
<1>14. QED
  BY <1>6, <1>10, <1>11, <1>12, <1>13

LEMMA BlankView ==
  ASSUME nodes = BlankNodes, TypeOK
  PROVE  items = <<>> /\ room = Rooms(N \div 2 - 1, N \div 2)
<1>1. /\ N \div 2 - 1 \in Slots /\ N \div 2 \in Slots
      /\ HeadsIn(nodes, N \div 2 - 1, N \div 2)
  BY BlankHeads
<1>2. N \div 2 = (N \div 2 - 1) + 1
  BY DEF Slots
<1>3. Row(nodes, N \div 2 - 1, N \div 2) = <<>>
  BY <1>1, <1>2, RowEmpty DEF TypeOK
<1>4. QED
  BY <1>1, <1>3, View

LEMMA ClearRefines ==
  ASSUME TypeOK, TypeOK', Heads, Lenient!Witness, Clear
  PROVE  Refines
<1> DEFINE m == N \div 2
<1>1. PICK l \in Slots, r \in Slots : HeadsIn(nodes, l, r)
  BY DEF Heads
<1>2. items = Row(nodes, l, r) /\ room = Rooms(l, r) /\ Len(items) = r - l - 1
  <2>1. items = Row(nodes, l, r) /\ room = Rooms(l, r)
    BY <1>1, View
  <2>2. Len(Row(nodes, l, r)) = r - l - 1
    BY <1>1, RowType DEF TypeOK
  <2>3. QED
    BY <2>1, <2>2
<1>3. /\ m - 1 \in Slots /\ m \in Slots /\ m \in Int /\ HeadsIn(nodes', m - 1, m)
      /\ m = (m - 1) + 1
  BY BlankHeads DEF Clear, Slots
<1> HIDE DEF m
<1>4. items' = <<>> /\ room' = Rooms(m - 1, m)
  BY <1>3, RowEmpty, ViewNext DEF TypeOK
<1>5. /\ room' \in [{LEFT, RIGHT} -> Nat]
      /\ room'[LEFT] + room'[RIGHT] = room[LEFT] + room[RIGHT] + Len(items)
  <2>1. LEFT # RIGHT /\ End = {LEFT, RIGHT}
    BY DEF LEFT, RIGHT, End
  <2>2. /\ room'[LEFT] = m - 1 /\ room'[RIGHT] = N - 1 - m
        /\ room[LEFT] = l /\ room[RIGHT] = N - 1 - r
    BY <1>2, <1>4, <2>1 DEF Rooms
  <2>3. m - 1 \in Nat /\ N - 1 - m \in Nat
    BY <1>3 DEF Slots
  <2>4. room' \in [{LEFT, RIGHT} -> Nat]
    BY <1>4, <2>1, <2>3 DEF Rooms
  <2>5. QED
    BY <1>2, <1>3, <2>2, <2>4 DEF Slots
<1>6. /\ \A t \in Threads : phase[t] = "idle"
      /\ UNCHANGED <<phase, end, op, elt, answer>>
  BY DEF Clear, phase, answer, Effective, request, locals
<1>7. Lenient!Clear
  BY <1>4, <1>5, <1>6 DEF Lenient!Clear, Lenient!LEFT, Lenient!RIGHT, LEFT, RIGHT
<1>8. QED
  BY <1>7 DEF Refines, Lenient!Next

-----------------------------------------------------------------------------
(* Every step *)

\* A call that has been refused at some instant remains so.
LEMMA AnsweringFrame ==
  ASSUME Answering, SeenInv, Lenient!Witness, NEW t \in Threads, Frame(t),
         NEW u \in Threads \ {t}
  PROVE  /\ /\ pc'[u] = "loadOuter" /\ op'[u] = PUSH
            /\ AtBound(end'[u], k'[u]) /\ inner'[u].value # Own(end'[u])
            => seen'[u]
         /\ pc'[u] = "recheck" => op'[u] = POP
<1>1. /\ pc'[u] = pc[u] /\ end'[u] = end[u] /\ op'[u] = op[u] /\ k'[u] = k[u]
      /\ inner'[u] = inner[u]
  BY DEF Frame
<1>2. pc[u] = "loadOuter" /\ seen[u] => seen'[u]
  BY <1>1 DEF Lenient!Witness, phase, Effective
<1>3. QED
  BY <1>1, <1>2 DEF Answering

\* A push that has read no null next to the first node, or the last, at its
\* end has seen the deque full.
LEMMA FullSeen ==
  ASSUME Inv, TypeOK', Grounded, Heads, Lenient!Witness, NEW t \in Threads,
         LoadInner(t), UNCHANGED request, op[t] = PUSH, AtBound(end[t], k[t]),
         inner'[t].value # Own(end[t])
  PROVE  seen'[t]
<1>1. /\ pc[t] = "loadInner" /\ pc'[t] = "loadOuter" /\ nodes' = nodes /\ TypeOK
      /\ k[t] \in Word /\ end[t] \in End /\ inner'[t] \in Loads(Near(t))
  BY DEF Inv, TypeOK, LoadInner, Goto, shared, Near
<1>2. PICK l \in Slots, r \in Slots : HeadsIn(nodes, l, r)
  BY DEF Heads
<1>3. Near(t) \in Slots => inner'[t] = nodes[Near(t)]
  BY <1>1 DEF Loads
<1>4. k[t] \in Slots
  <2>1. CASE Near(t) \in Slots /\ k[t] \notin Slots
    BY <1>1, <1>3, <2>1, Edges DEF Inv, Near
  <2>2. QED
    BY <1>1, <2>1 DEF Grounded
<1>5. IF end[t] = LEFT THEN k[t] = 0 /\ Near(t) = 1 ELSE k[t] = N - 1 /\ Near(t) = N - 2
  BY <1>1, <1>4 DEF AtBound, Slots, Near, Inward, Inc, Dec
<1>6. IF end[t] = LEFT THEN l = 0 ELSE r = N - 1
  <2>1. Near(t) \in Slots /\ inner'[t] = nodes[Near(t)]
    BY <1>3, <1>5 DEF Slots
  <2>2. CASE end[t] = LEFT
    BY <1>2, <1>5, <2>1, <2>2 DEF HeadsIn, Own, Slots
  <2>3. CASE end[t] # LEFT
    BY <1>2, <1>5, <2>1, <2>3 DEF HeadsIn, Own, Slots
  <2>4. QED
    BY <2>2, <2>3
<1>7. room'[end[t]] = 0
  BY <1>1, <1>2, <1>6, ViewNext DEF Rooms, Slots
<1>8. Lenient!Refused(t)'
  BY <1>7 DEF Lenient!Refused, Lenient!PUSH, PUSH, request
<1>9. phase'[t] = "waiting"
  BY <1>1 DEF phase, Effective
<1>10. QED
  BY <1>8, <1>9 DEF Lenient!Witness

LEMMA AnsweringStep ==
  ASSUME Inv, TypeOK', Grounded, Heads, Answering, SeenInv, Lenient!Witness,
         NEW t \in Threads, Call(t) \/ Oracle(t) \/ Body(t), Frame(t)
  PROVE  Answering'
<1>1. TypeOK /\ pc \in [Threads -> PC]
  BY DEF Inv, TypeOK
<1>2. CASE Call(t) \/ Oracle(t)
  <2>1. pc'[t] \notin {"loadOuter", "recheck"}
    BY <1>1, <1>2 DEF Call, Oracle, OracleHint, OracleOuter, OracleInner,
                      ScanOuter, ScanInner, Rehint, Found, Goto
  <2>2. QED
    BY <2>1, AnsweringFrame DEF Answering
<1>3. CASE Body(t)
  <2>1. UNCHANGED request
    BY <1>3 DEF Body
  <2>2. CASE LoadInner(t)
    <3>1. pc'[t] = "loadOuter" /\ k' = k
      BY <1>1, <2>2 DEF LoadInner, Goto
    <3>2. /\ op'[t] = PUSH /\ AtBound(end'[t], k'[t]) /\ inner'[t].value # Own(end'[t])
          => seen'[t]
      BY <2>1, <2>2, <3>1, FullSeen DEF request
    <3>3. QED
      BY <3>1, <3>2, AnsweringFrame DEF Answering
  <2>3. CASE ~LoadInner(t)
    <3>1. pc'[t] # "loadOuter" /\ (pc'[t] = "recheck" => op[t] = POP)
      BY <1>1, <1>3, <2>3
      DEF Body, LoadOuter, Recheck, Cas1, Cas2, MoveHint, Resize, Retry, Return, Goto
    <3>2. QED
      BY <2>1, <3>1, AnsweringFrame DEF Answering, request
  <2>4. QED
    BY <2>2, <2>3
<1>4. QED
  BY <1>2, <1>3

LEMMA AnsweringNext ==
  ASSUME Inv, TypeOK', Grounded, Heads, Answering, SeenInv, [LinNext]_lvars
  PROVE  Answering'
<1>1. CASE LinNext /\ Clear
  BY <1>1 DEF Clear, Answering
<1>2. ASSUME NEW t \in Threads, Call(t) \/ Step(t), LinNext
      PROVE  Answering'
  <2>1. Lenient!Witness
    BY <1>2 DEF LinNext, Atomic!Witness, Lenient!Witness, Atomic!Refused, Lenient!Refused,
                Atomic!PUSH, Lenient!PUSH
  <2>2. Call(t) \/ Oracle(t) \/ Body(t)
    BY <1>2 DEF Step, LeftOracle, RightOracle, LeftPush, LeftPop, RightPush, RightPop
  <2>3. TypeOK
    BY DEF Inv
  <2>4. Frame(t)
    BY <2>2, <2>3, OracleFrame, BodyFrame DEF Call, Frame, Goto, TypeOK, locals
  <2>5. QED
    BY <2>1, <2>2, <2>4, AnsweringStep
<1>3. CASE UNCHANGED lvars
  BY <1>3 DEF lvars, vars, request, locals, Answering
<1>4. QED
  BY <1>1, <1>2, <1>3 DEF LinNext, Next

\* A step of an operation is its effect, its answer or nothing.
LEMMA BodyRefines ==
  ASSUME Inv, TypeOK', Heads, Grounded, SeenInv, Answering, Lenient!Witness,
         NEW t \in Threads, Body(t)
  PROVE  Refines
<1>1. /\ TypeOK /\ pc \in [Threads -> PC] /\ Frame(t) /\ UNCHANGED request
      /\ op'[t] = op[t]
  BY BodyFrame DEF Inv, TypeOK, Body, request
<1>2. ASSUME pc[t] \notin {"idle", "moveHint", "resize"},
             pc'[t] \notin {"idle", "moveHint", "resize"}, ret' = ret,
             \A i \in Slots : nodes'[i].value = nodes[i].value
      PROVE  Refines
  <2>1. phase'[t] = phase[t] /\ answer'[t] = answer[t]
    BY <1>2 DEF phase, answer, Effective
  <2>2. QED
    BY <1>1, <1>2, <2>1, InsideRefines
<1>3. CASE LoadInner(t)
  <2>1. pc[t] = "loadInner" /\ pc'[t] = "loadOuter" /\ ret' = ret /\ nodes' = nodes
    BY <1>1, <1>3 DEF LoadInner, Goto, shared
  <2>2. QED
    BY <1>2, <2>1
<1>4. CASE LoadOuter(t)
  <2>1. pc[t] = "loadOuter" /\ nodes' = nodes
    BY <1>4 DEF LoadOuter, shared
  <2>2. \/ pc'[t] \in {"oracleHint", "recheck", "cas1"} /\ ret' = ret
        \/ /\ op[t] = PUSH /\ AtBound(end[t], k[t]) /\ inner[t].value # Own(end[t])
           /\ Return(t, FULL, NULL)
    BY <1>1, <1>4 DEF LoadOuter, Retry, Goto, IsHead
  <2>3. CASE pc'[t] \in {"oracleHint", "recheck", "cas1"} /\ ret' = ret
    BY <1>2, <2>1, <2>3
  <2>4. CASE /\ op[t] = PUSH /\ AtBound(end[t], k[t]) /\ inner[t].value # Own(end[t])
             /\ Return(t, FULL, NULL)
    <3>1. seen[t]
      BY <2>1, <2>4 DEF Answering
    <3>2. QED
      BY <1>1, <2>1, <2>4, <3>1, RefuseRefines
  <2>5. QED
    BY <2>2, <2>3, <2>4
<1>5. CASE Recheck(t)
  <2>1. pc[t] = "recheck" /\ nodes' = nodes /\ op[t] # PUSH
    BY <1>5 DEF Recheck, shared, Answering, PUSH, POP
  <2>2. \/ pc'[t] = "cas1" /\ ret' = ret
        \/ Return(t, EMPTY, NULL)
    BY <1>1, <1>5 DEF Recheck, Goto
  <2>3. CASE pc'[t] = "cas1" /\ ret' = ret
    BY <1>2, <2>1, <2>3
  <2>4. CASE Return(t, EMPTY, NULL)
    BY <1>1, <2>1, <2>4, RefuseRefines
  <2>5. QED
    BY <2>2, <2>3, <2>4
<1>6. CASE Cas1(t)
  <2>1. pc[t] = "cas1" /\ pc'[t] \in {"cas2", "oracleHint"} /\ ret' = ret
    BY <1>1, <1>6 DEF Cas1, Retry, Goto
  <2>2. QED
    BY <1>2, <1>6, <2>1, Cas1SameValues
<1>7. CASE Cas2(t)
  <2>1. pc[t] = "cas2" /\ ret' = ret /\ pc'[t] \in {"moveHint", "oracleHint"}
    BY <1>1, <1>7 DEF Cas2, Retry, Goto
  <2>2. CASE pc'[t] = "moveHint"
    <3>1. k[t] \in Slots
      BY <2>1 DEF Inv, InvGuard, Grounded, Aimed
    <3>2. PICK l \in Slots, r \in Slots : HeadsIn(nodes, l, r)
      BY DEF Heads
    <3>3. Struck(t, l, r)
      BY <1>7, <2>2, <3>1, <3>2, Strike
    <3>4. UNCHANGED locals
      BY <1>1, <1>7, <2>2 DEF Cas2, Retry, Goto
    <3>5. QED
      BY <1>1, <2>1, <2>2, <3>2, <3>3, <3>4, StrikeRefines
  <2>3. CASE pc'[t] # "moveHint"
    BY <1>1, <1>2, <1>7, <2>1, <2>3, Cas2Miss DEF shared
  <2>4. QED
    BY <2>2, <2>3
<1>8. CASE MoveHint(t)
  <2>1. /\ pc[t] = "moveHint" /\ pc'[t] = "resize" /\ ret' = ret /\ nodes' = nodes
        /\ inner' = inner
    BY <1>1, <1>8 DEF MoveHint, Goto, locals
  <2>2. phase'[t] = phase[t] /\ answer'[t] = answer[t]
    BY <1>1, <2>1 DEF phase, answer, Effective
  <2>3. QED
    BY <1>1, <2>1, <2>2, InsideRefines
<1>9. CASE Resize(t)
  BY <1>1, <1>9, ResizeRefines
<1>10. QED
  BY <1>3, <1>4, <1>5, <1>6, <1>7, <1>8, <1>9 DEF Body

LEMMA OracleRefines ==
  ASSUME Inv, TypeOK', Heads, SeenInv, Lenient!Witness, NEW t \in Threads, Oracle(t)
  PROVE  Refines
<1>1. /\ TypeOK /\ pc \in [Threads -> PC] /\ Frame(t) /\ UNCHANGED <<request, ret>>
      /\ nodes' = nodes
  BY OracleFrame DEF Inv, TypeOK, Oracle, shared
<1>2. /\ pc[t] \notin {"idle", "moveHint", "resize"}
      /\ pc'[t] \notin {"idle", "moveHint", "resize"}
  BY <1>1 DEF Oracle, OracleHint, OracleOuter, OracleInner, ScanOuter, ScanInner,
              Rehint, Found, Goto
<1>3. phase'[t] = phase[t] /\ answer'[t] = answer[t]
  BY <1>1, <1>2 DEF phase, answer, Effective
<1>4. QED
  BY <1>1, <1>3, InsideRefines

LEMMA LinRefines ==
  ASSUME Inv, Heads, Grounded, SeenInv, Answering, [LinNext]_lvars
  PROVE  Refines
<1>1. TypeOK /\ TypeOK'
  BY StepInv, ClearInv, StutterInv DEF Inv, LinNext, Next, lvars
<1>2. CASE LinNext
  <2>1. Lenient!Witness
    BY <1>2 DEF LinNext, Atomic!Witness, Lenient!Witness, Atomic!Refused, Lenient!Refused,
                Atomic!PUSH, Lenient!PUSH
  <2>2. CASE Clear
    BY <1>1, <2>1, <2>2, ClearRefines
  <2>3. ASSUME NEW t \in Threads, Call(t) \/ Step(t)
        PROVE  Refines
    <3>1. Call(t) \/ Oracle(t) \/ Body(t)
      BY <2>3 DEF Step, LeftOracle, RightOracle, LeftPush, LeftPop, RightPush, RightPop
    <3>2. QED
      BY <1>1, <2>1, <3>1, CallRefines, OracleRefines, BodyRefines
  <2>4. QED
    BY <1>2, <2>2, <2>3 DEF LinNext, Next
<1>3. CASE UNCHANGED lvars
  <2>1. /\ UNCHANGED <<nodes, pc, end, op, elt, inner, ret, seen>>
    BY <1>3 DEF lvars, vars, shared, request, locals
  <2>2. UNCHANGED <<items, room>>
    BY <1>1, <2>1, SameView
  <2>3. UNCHANGED <<phase, answer>>
    BY <2>1 DEF phase, answer, Effective
  <2>4. QED
    BY <2>1, <2>2, <2>3 DEF Refines, Lenient!avars
<1>4. QED
  BY <1>2, <1>3

LEMMA SeenKept ==
  ASSUME Inv, Heads, SeenInv, [LinNext]_lvars
  PROVE  SeenInv'
<1>1. TypeOK /\ TypeOK'
  BY StepInv, ClearInv, StutterInv DEF Inv, LinNext, Next, lvars
<1>2. CASE LinNext
  <2>1. Lenient!Witness
    BY <1>2 DEF LinNext, Atomic!Witness, Lenient!Witness, Atomic!Refused, Lenient!Refused,
                Atomic!PUSH, Lenient!PUSH
  <2>2. QED
    BY <2>1, SeenNext
<1>3. CASE UNCHANGED lvars
  <2>1. UNCHANGED <<nodes, pc, end, op, seen>>
    BY <1>3 DEF lvars, vars, shared, request
  <2>2. UNCHANGED <<items, room>>
    BY <1>1, <2>1, SameView
  <2>3. UNCHANGED phase
    BY <2>1 DEF phase, Effective
  <2>4. QED
    BY <2>1, <2>2, <2>3 DEF SeenInv, Lenient!Refused
<1>4. QED
  BY <1>2, <1>3

LEMMA LinInitially ==
  ASSUME LinInit
  PROVE  Lenient!Init /\ SeenInv /\ Answering
<1>1. Init /\ seen = [t \in Threads |-> FALSE] /\ TypeOK
  BY InitTypeOK DEF LinInit
<1>2. /\ items = <<>> /\ room = Rooms(N \div 2 - 1, N \div 2)
      /\ N \div 2 - 1 \in Slots /\ N \div 2 \in Slots
  BY <1>1, BlankView, BlankHeads DEF Init
<1>3. room \in [{LEFT, RIGHT} -> Nat]
  <2>1. LEFT # RIGHT /\ End = {LEFT, RIGHT}
    BY DEF LEFT, RIGHT, End
  <2>2. N \div 2 - 1 \in Nat /\ N - 1 - N \div 2 \in Nat
    BY <1>2 DEF Slots
  <2>3. QED
    BY <1>2, <2>1, <2>2 DEF Rooms
<1>4. /\ phase = [t \in Threads |-> "idle"]
      /\ answer = [t \in Threads |-> [stat |-> NONE, val |-> NULL]]
  BY <1>1 DEF Init, phase, answer, Effective
<1>5. end \in [Threads -> {LEFT, RIGHT}] /\ op \in [Threads -> {PUSH, POP}]
      /\ elt \in [Threads -> Elts \cup {NULL}]
  BY <1>1 DEF TypeOK, End, Op
<1>6. Lenient!Init
  BY <1>1, <1>2, <1>3, <1>4, <1>5
  DEF Lenient!Init, Lenient!LEFT, Lenient!RIGHT, Lenient!PUSH, Lenient!POP,
      Lenient!NULL, Lenient!NONE, LEFT, RIGHT, PUSH, POP, NULL, NONE
<1>7. SeenInv
  BY <1>1, <1>4 DEF SeenInv
<1>8. Answering
  BY <1>1 DEF Init, Answering
<1>9. QED
  BY <1>6, <1>7, <1>8

\* As long as no operation decides anything by what memory holds beyond the
\* array, each one takes effect at one instant, elements leave in the order of
\* the ends they were pushed to, and FULL was true during the call: for any
\* threads, length, elements and workload.
THEOREM GroundedRefinement ==
  LinSpec /\ []Grounded => LinearizableButEmpty
<1>1. LinInit => Inv /\ Heads /\ SeenInv /\ Answering /\ Lenient!Init
  BY InitInv, HeadsInit, LinInitially DEF LinInit
<1>2. Inv /\ Heads /\ SeenInv /\ Answering /\ Grounded /\ [LinNext]_lvars =>
        (Inv /\ Heads /\ SeenInv /\ Answering)'
  <2> SUFFICES ASSUME Inv, Heads, SeenInv, Answering, Grounded, [LinNext]_lvars
               PROVE  (Inv /\ Heads /\ SeenInv /\ Answering)'
    OBVIOUS
  <2>1. [Next]_vars
    BY DEF LinNext, lvars
  <2>2. Inv'
    BY <2>1, StepInv, ClearInv, StutterInv DEF Next
  <2>3. Heads'
    BY <2>1, HeadsNext
  <2>4. Answering'
    BY <2>2, AnsweringNext DEF Inv
  <2>5. QED
    BY <2>2, <2>3, <2>4, SeenKept
<1>3. Inv /\ Heads /\ SeenInv /\ Answering /\ Grounded /\ [LinNext]_lvars =>
        [Lenient!Next]_(Lenient!avars)
  BY LinRefines DEF Refines
<1>4. QED
  BY <1>1, <1>2, <1>3, PTL DEF LinSpec, LinearizableButEmpty, Lenient!Spec

\* The deque of two threads is linearizable, EMPTY aside.
THEOREM TwoThreadsLinearizable ==
  ASSUME NEW p, NEW q, p # q, Threads \subseteq {p, q}
  PROVE  LinSpec => LinearizableButEmpty
<1>1. LinInit => Init
  BY DEF LinInit
<1>2. [LinNext]_lvars => [Next]_vars
  BY DEF LinNext, lvars
<1>3. LinSpec => Spec
  BY <1>1, <1>2, PTL DEF LinSpec, Spec
<1>4. QED
  BY <1>3, TwoThreadsGrounded, GroundedRefinement, PTL

-----------------------------------------------------------------------------
(* EMPTY while pops keep to one end *)

\* A pop that has read the other end's null was right about it, or sees at its
\* second look that the null is gone: only a pop at the other end puts one back.
EmptyInv ==
  /\ Popping \subseteq popped /\ popped \subseteq End
  /\ \A t \in Threads : pc[t] = "recheck" =>
       /\ inner[t].value = Other(end[t])
       /\ popped # End => seen[t] \/ nodes[Near(t)].value # Other(end[t])

\* The null of an end is put by pops at that end alone.
LEMMA NullsPut ==
  ASSUME Inv, Heads, NEW t \in Threads, Call(t) \/ Step(t),
         NEW e \in End, e \notin Popping,
         NEW x \in Slots, nodes[x].value # Own(e)
  PROVE  nodes'[x].value # Own(e)
<1>1. TypeOK /\ end[t] \in End /\ op[t] \in {PUSH, POP}
  BY DEF Inv, TypeOK, Op
<1>2. CASE Cas1(t)
  BY <1>2, Cas1SameValues
<1>3. CASE Cas2(t) /\ pc'[t] = "moveHint" /\ k[t] \in Slots
  <2>1. PICK l \in Slots, r \in Slots : HeadsIn(nodes, l, r)
    BY DEF Heads
  <2>2. Struck(t, l, r)
    BY <1>3, <2>1, Strike
  <2>3. CASE op[t] = PUSH
    <3>1. nodes'[x].value \in {elt[t], nodes[x].value} /\ elt[t] \in Elts
      BY <2>2, <2>3 DEF Struck
    <3>2. Own(e) \notin Elts
      BY DEF Own
    <3>3. QED
      BY <3>1, <3>2
  <2>4. CASE op[t] = POP
    <3>1. op[t] # PUSH /\ pc[t] # "idle"
      BY <1>3, <2>4 DEF PUSH, POP, Cas2
    <3>2. nodes'[x].value \in {Own(end[t]), nodes[x].value}
      BY <2>2, <3>1 DEF Struck
    <3>3. end[t] # e
      BY <2>4, <3>1 DEF Popping
    <3>4. Own(end[t]) # Own(e)
      BY <1>1, <3>3 DEF Own, End, LNULL, RNULL, LEFT, RIGHT
    <3>5. QED
      BY <3>2, <3>4
  <2>5. QED
    BY <1>1, <2>3, <2>4
<1>4. CASE Cas2(t) /\ ~(pc'[t] = "moveHint" /\ k[t] \in Slots)
  BY <1>1, <1>4, Cas2Miss, Outside DEF shared
<1>5. CASE ~Cas1(t) /\ ~Cas2(t)
  BY <1>5, NodesSame
<1>6. QED
  BY <1>2, <1>3, <1>4, <1>5

\* A pop whose second load follows that of the other end's null: if that null
\* is still there, the deque is empty now.
LEMMA EmptyRead ==
  ASSUME Inv, Inv', Heads, Grounded, SeenInv', NEW t \in Threads, LoadOuter(t),
         UNCHANGED request, pc'[t] = "recheck"
  PROVE  /\ inner'[t].value = Other(end'[t])
         /\ seen'[t] \/ nodes'[Near(t)'].value # Other(end'[t])
<1>1. /\ TypeOK /\ pc[t] = "loadOuter" /\ nodes' = nodes /\ end' = end /\ op' = op
      /\ end[t] \in End /\ k[t] \in Word
  BY DEF Inv, TypeOK, LoadOuter, shared, request
<1>2. PICK n \in Loads(k[t]) :
        /\ ~Retry(t) /\ IsHead(end[t], inner[t], n)
        /\ outer' = [outer EXCEPT ![t] = n] /\ k' = k /\ inner' = inner
        /\ op[t] = POP /\ inner[t].value = Other(end[t])
  BY <1>1 DEF LoadOuter, Retry, Return, Goto, TypeOK
<1>3. k[t] \in Slots /\ Near(t) \in Slots
  <2>1. Near(t)' = Near(t) /\ k'[t] = k[t]
    BY <1>1, <1>2 DEF Near
  <2>2. Near(t)' \in Slots <=> k'[t] \in Slots
    BY DEF Inv, InvGuard, Aimed
  <2>3. QED
    BY <1>1, <2>1, <2>2 DEF Grounded
<1>4. n = nodes[k[t]]
  BY <1>3 DEF Loads
<1>5. PICK l \in Slots, r \in Slots : HeadsIn(nodes, l, r)
  BY DEF Heads
<1>6. ASSUME nodes[Near(t)].value = Other(end[t])
      PROVE  seen'[t]
  <2>1. Near(t) = IF end[t] = LEFT THEN k[t] + 1 ELSE k[t] - 1
    BY <1>1, <1>3, InwardInArray DEF Near
  <2>2. nodes[k[t]].value = Own(end[t])
    BY <1>2, <1>4 DEF IsHead
  <2>3. r = l + 1
    <3>1. CASE end[t] = LEFT
      BY <1>3, <1>5, <1>6, <2>1, <2>2, <3>1 DEF HeadsIn, Own, Other, Slots
    <3>2. CASE end[t] # LEFT
      BY <1>3, <1>5, <1>6, <2>1, <2>2, <3>2 DEF HeadsIn, Own, Other, Slots
    <3>3. QED
      BY <3>1, <3>2
  <2>4. Row(nodes, l, r) = <<>>
    BY <1>1, <1>5, <2>3, RowEmpty DEF TypeOK
  <2>5. items' = <<>>
    BY <1>1, <1>5, <2>4, ViewNext
  <2>6. phase'[t] = "waiting"
    BY DEF phase, Effective
  <2>7. Lenient!Refused(t)'
    BY <1>1, <1>2, <2>5 DEF Lenient!Refused, Lenient!PUSH, PUSH, POP
  <2>8. QED
    BY <2>6, <2>7 DEF SeenInv
<1>7. QED
  BY <1>1, <1>2, <1>6 DEF Near

\* The steps after which a thread may look again at its inner node.
LEMMA Rechecking ==
  ASSUME TypeOK, NEW t \in Threads, Call(t) \/ Step(t), pc'[t] = "recheck"
  PROVE  LoadOuter(t) /\ UNCHANGED request
<1>1. Call(t) \/ Oracle(t) \/ Body(t)
  BY DEF Step, LeftOracle, RightOracle, LeftPush, LeftPop, RightPush, RightPop
<1>2. pc \in [Threads -> PC]
  BY DEF TypeOK
<1>3. ~Call(t) /\ ~Oracle(t)
  BY <1>2 DEF Call, Oracle, OracleHint, OracleOuter, OracleInner, ScanOuter,
              ScanInner, Rehint, Found, Goto
<1>4. QED
  BY <1>1, <1>2, <1>3 DEF Body, LoadInner, LoadOuter, Recheck, Cas1, Cas2, MoveHint,
                          Resize, Retry, Return, Goto

LEMMA EmptyStep ==
  ASSUME Inv, Inv', Heads, Grounded, SeenInv', Lenient!Witness,
         Answering, EmptyInv, popped' = popped \cup Popping',
         NEW t \in Threads, Call(t) \/ Step(t), Frame(t)
  PROVE  EmptyInv'
<1>1. TypeOK /\ pc \in [Threads -> PC]
  BY DEF Inv, TypeOK
<1>2. popped \subseteq popped' /\ (Popping \subseteq popped /\ popped \subseteq End)'
  <2>1. Popping' \subseteq End
    BY DEF Inv, TypeOK, Popping
  <2>2. QED
    BY <2>1 DEF EmptyInv
<1>3. ASSUME NEW u \in Threads, pc'[u] = "recheck"
      PROVE  /\ inner'[u].value = Other(end'[u])
             /\ popped' # End => seen'[u] \/ nodes'[Near(u)'].value # Other(end'[u])
  <2>1. CASE u = t
    BY <1>1, <1>3, <2>1, Rechecking, EmptyRead
  <2>2. CASE u # t
    <3>1. /\ pc[u] = "recheck" /\ end'[u] = end[u] /\ op'[u] = op[u] /\ k'[u] = k[u]
          /\ inner'[u] = inner[u] /\ Near(u)' = Near(u) /\ end[u] \in End
      BY <1>1, <1>3, <2>2 DEF Frame, Near, TypeOK
    <3>2. inner'[u].value = Other(end'[u])
      BY <3>1 DEF EmptyInv
    <3>3. ASSUME popped' # End
          PROVE  seen'[u] \/ nodes'[Near(u)].value # Other(end[u])
      <4>1. popped # End
        BY <1>2, <3>3 DEF EmptyInv
      <4>2. CASE seen[u]
        <5>1. phase[u] = "waiting" /\ phase'[u] = "waiting"
          BY <1>3, <3>1 DEF phase, Effective
        <5>2. QED
          BY <4>2, <5>1 DEF Lenient!Witness
      <4>3. CASE nodes[Near(u)].value # Other(end[u])
        <5>1. Near(u) \in Slots
          BY <3>1 DEF Inv, InvGuard, Grounded, Aimed
        <5>2. PICK e \in End : e # end[u] /\ Other(end[u]) = Own(e)
          BY <3>1 DEF Own, Other, End, LEFT, RIGHT
        <5>3. e \notin Popping
          <6>1. op[u] = POP
            BY <3>1 DEF Answering
          <6>2. end[u] \in Popping
            BY <3>1, <6>1 DEF Popping
          <6>3. ASSUME e \in Popping PROVE FALSE
            BY <3>1, <3>3, <4>1, <5>2, <6>2, <6>3 DEF EmptyInv, Popping, End
          <6>4. QED
            BY <6>3
        <5>4. QED
          BY <4>3, <5>1, <5>2, <5>3, NullsPut
      <4>4. QED
        BY <3>1, <4>1, <4>2, <4>3 DEF EmptyInv
    <3>4. QED
      BY <3>1, <3>2, <3>3
  <2>3. QED
    BY <2>1, <2>2
<1>4. QED
  BY <1>2, <1>3 DEF EmptyInv

LEMMA EmptyNext ==
  ASSUME Inv, Heads, Grounded, SeenInv, Answering, EmptyInv, [LinNext]_lvars
  PROVE  EmptyInv'
<1>1. Inv'
  BY StepInv, ClearInv, StutterInv DEF LinNext, Next, lvars
<1>2. SeenInv'
  BY SeenKept
<1>3. CASE LinNext /\ Clear
  <2>1. popped' = {} /\ \A t \in Threads : pc'[t] = "idle"
    BY <1>3 DEF LinNext, Clear
  <2>2. Popping' = {}
    BY <2>1 DEF Popping
  <2>3. QED
    BY <2>1, <2>2 DEF EmptyInv
<1>4. ASSUME LinNext, ~Clear
      PROVE  EmptyInv'
  <2>1. Lenient!Witness /\ popped' = popped \cup Popping'
    BY <1>4 DEF LinNext, Atomic!Witness, Lenient!Witness, Atomic!Refused, Lenient!Refused,
                Atomic!PUSH, Lenient!PUSH
  <2>2. PICK t \in Threads : Call(t) \/ Step(t)
    BY <1>4 DEF LinNext, Next
  <2>3. TypeOK
    BY DEF Inv
  <2>4. Frame(t)
    BY <2>2, <2>3, OracleFrame, BodyFrame
    DEF Call, Frame, Goto, TypeOK, locals, Step, LeftOracle, RightOracle, LeftPush, LeftPop,
        RightPush, RightPop
  <2>5. QED
    BY <1>1, <1>2, <2>1, <2>2, <2>4, EmptyStep
<1>5. CASE UNCHANGED lvars
  <2>1. UNCHANGED <<nodes, pc, end, op, k, inner, seen, popped>>
    BY <1>5 DEF lvars, vars, shared, request, locals
  <2>2. Popping' = Popping /\ \A t \in Threads : Near(t)' = Near(t)
    BY <2>1 DEF Popping, Near
  <2>3. QED
    BY <2>1, <2>2 DEF EmptyInv
<1>6. QED
  BY <1>3, <1>4, <1>5

\* A pop that answers EMPTY while no pop has been called at the other end has
\* seen the deque empty.
LEMMA EmptySeen ==
  ASSUME Inv, Grounded, Answering, EmptyInv, popped # End, LinNext,
         NEW t \in Threads, op[t] = POP, phase[t] = "waiting", phase'[t] = "idle"
  PROVE  seen[t]
<1>1. /\ TypeOK /\ pc \in [Threads -> PC] /\ pc[t] \notin {"idle", "moveHint", "resize"}
      /\ pc'[t] = "idle"
  BY DEF Inv, TypeOK, phase, Effective
<1>2. Call(t) \/ Oracle(t) \/ Body(t)
  <2>1. PICK u \in Threads : Call(u) \/ Oracle(u) \/ Body(u)
    BY <1>1 DEF LinNext, Next, Clear, Step, LeftOracle, RightOracle, LeftPush, LeftPop,
                RightPush, RightPop
  <2>2. Frame(u)
    BY <1>1, <2>1, OracleFrame, BodyFrame DEF Call, Frame, Goto, TypeOK, locals
  <2>3. u = t
    BY <1>1, <2>2 DEF Frame
  <2>4. QED
    BY <2>1, <2>3
<1>3. ~Call(t) /\ ~Oracle(t)
  BY <1>1 DEF Call, Oracle, OracleHint, OracleOuter, OracleInner, ScanOuter, ScanInner,
              Rehint, Found, Goto
<1>4. pc[t] = "recheck" /\ \E n \in Loads(Near(t)) : n.value = inner[t].value
  <2>1. ~LoadInner(t) /\ ~Cas1(t) /\ ~Cas2(t) /\ ~MoveHint(t) /\ ~Resize(t)
    BY <1>1 DEF LoadInner, Cas1, Cas2, MoveHint, Resize, Retry, Goto
  <2>2. ~LoadOuter(t)
    BY <1>1 DEF LoadOuter, Retry, Goto, PUSH, POP
  <2>3. Recheck(t)
    BY <1>2, <1>3, <2>1, <2>2 DEF Body
  <2>4. QED
    BY <1>1, <2>3 DEF Recheck, Goto, Near
<1>5. Near(t) \in Slots
  BY <1>4 DEF Inv, InvGuard, Grounded, Aimed
<1>6. nodes[Near(t)].value = Other(end[t])
  BY <1>4, <1>5 DEF Loads, EmptyInv
<1>7. QED
  BY <1>4, <1>6 DEF EmptyInv

LEMMA ServedAlike ==
  ASSUME NEW t \in Threads, Lenient!Served(t)
  PROVE  Atomic!Served(t)
<1>1. Lenient!Call(t) => Atomic!Call(t)
  BY DEF Lenient!Call, Atomic!Call, Lenient!Answer, Atomic!Answer, Lenient!PUSH, Atomic!PUSH,
         Lenient!NULL, Atomic!NULL, Lenient!NONE, Atomic!NONE
<1>2. Lenient!Push(t) => Atomic!Push(t)
  BY DEF Lenient!Push, Atomic!Push, Lenient!TakeEffect, Atomic!TakeEffect, Lenient!Answer,
         Atomic!Answer, Lenient!Widen, Atomic!Widen, Lenient!PUSH, Atomic!PUSH, Lenient!NULL,
         Atomic!NULL, Lenient!OK, Atomic!OK, Lenient!LEFT, Atomic!LEFT
<1>3. Lenient!Pop(t) => Atomic!Pop(t)
  BY DEF Lenient!Pop, Atomic!Pop, Lenient!TakeEffect, Atomic!TakeEffect, Lenient!Answer,
         Atomic!Answer, Lenient!Widen, Atomic!Widen, Lenient!POP, Atomic!POP, Lenient!OK,
         Atomic!OK, Lenient!LEFT, Atomic!LEFT
<1>4. Lenient!Return(t) => Atomic!Return(t)
  BY DEF Lenient!Return, Atomic!Return
<1>5. QED
  BY <1>1, <1>2, <1>3, <1>4 DEF Lenient!Served, Atomic!Served

LEMMA AtomicRefines ==
  ASSUME Inv, Heads, Grounded, SeenInv, Answering, EmptyInv, [LinNext]_lvars
  PROVE  [Atomic!Next]_(Atomic!avars)
<1>1. Refines
  BY LinRefines
<1>2. CASE UNCHANGED Lenient!avars
  BY <1>2 DEF Lenient!avars, Atomic!avars
<1>3. ASSUME Lenient!Next, LinNext
      PROVE  Atomic!Next
  <2>1. Atomic!Witness
    BY <1>3 DEF LinNext
  <2>2. CASE Lenient!Clear
    BY <2>1, <2>2 DEF Atomic!Next, Atomic!Clear, Lenient!Clear, Atomic!LEFT, Lenient!LEFT,
                      Atomic!RIGHT, Lenient!RIGHT
  <2>3. ASSUME NEW t \in Threads, Lenient!Served(t)
        PROVE  Atomic!Next
    BY <2>1, <2>3, ServedAlike DEF Atomic!Next
  <2>4. ASSUME NEW t \in Threads, seen[t] \/ op[t] = Lenient!POP, Lenient!Refuse(t)
        PROVE  Atomic!Next
    <3>1. phase[t] = "waiting" /\ phase'[t] = "idle"
      BY <2>4 DEF Lenient!Refuse, phase
    <3>2. seen[t] \/ (popped = End /\ op[t] = Atomic!POP)
      BY <1>3, <2>4, <3>1, EmptySeen DEF Lenient!POP, Atomic!POP, POP
    <3>3. Atomic!Refuse(t)
      BY <2>4 DEF Lenient!Refuse, Atomic!Refuse, Lenient!Answer, Atomic!Answer,
                  Lenient!PUSH, Atomic!PUSH, Lenient!FULL, Atomic!FULL, Lenient!EMPTY,
                  Atomic!EMPTY, Lenient!NULL, Atomic!NULL
    <3>4. QED
      BY <2>1, <3>2, <3>3 DEF Atomic!Next
  <2>5. QED
    BY <1>3, <2>2, <2>3, <2>4 DEF Lenient!Next
<1>4. CASE UNCHANGED lvars
  <2>1. UNCHANGED <<nodes, pc, end, op, elt, inner, ret, seen>>
    BY <1>4 DEF lvars, vars, shared, request, locals
  <2>2. TypeOK /\ TypeOK'
    BY StutterInv, <1>4 DEF lvars, Inv
  <2>3. UNCHANGED <<items, room>>
    BY <2>1, <2>2, SameView
  <2>4. UNCHANGED <<phase, answer>>
    BY <2>1 DEF phase, answer, Effective
  <2>5. QED
    BY <2>1, <2>3, <2>4 DEF Atomic!avars
<1>5. QED
  BY <1>1, <1>2, <1>3, <1>4 DEF Refines

\* As long as no operation decides anything by foreign memory, EMPTY, too, was
\* true during the call, until pops have been called at both ends: for any
\* threads, length, elements and workload.
THEOREM GroundedLinearizable ==
  LinSpec /\ []Grounded => Linearizable
<1> DEFINE I == Inv /\ Heads /\ SeenInv /\ Answering /\ EmptyInv
<1>1. LinInit => I /\ Atomic!Init
  <2> SUFFICES ASSUME LinInit PROVE I /\ Atomic!Init
    OBVIOUS
  <2>1. Inv /\ Heads /\ SeenInv /\ Answering /\ Lenient!Init
    BY InitInv, HeadsInit, LinInitially DEF LinInit
  <2>2. EmptyInv
    BY DEF LinInit, Init, EmptyInv, Popping
  <2>3. Atomic!Init
    BY <2>1 DEF Atomic!Init, Lenient!Init, Atomic!LEFT, Lenient!LEFT, Atomic!RIGHT,
                Lenient!RIGHT, Atomic!PUSH, Lenient!PUSH, Atomic!POP, Lenient!POP,
                Atomic!NULL, Lenient!NULL, Atomic!NONE, Lenient!NONE
  <2>4. QED
    BY <2>1, <2>2, <2>3
<1>2. I /\ Grounded /\ [LinNext]_lvars => I'
  <2> SUFFICES ASSUME I, Grounded, [LinNext]_lvars PROVE I'
    OBVIOUS
  <2>1. [Next]_vars
    BY DEF LinNext, lvars
  <2>2. Inv'
    BY <2>1, StepInv, ClearInv, StutterInv DEF Next
  <2>3. Heads'
    BY <2>1, HeadsNext
  <2>4. Answering'
    BY <2>2, AnsweringNext DEF Inv
  <2>5. QED
    BY <2>2, <2>3, <2>4, SeenKept, EmptyNext
<1>3. I /\ Grounded /\ [LinNext]_lvars => [Atomic!Next]_(Atomic!avars)
  BY AtomicRefines
<1> HIDE DEF I
<1>4. QED
  BY <1>1, <1>2, <1>3, PTL DEF LinSpec, Linearizable, Atomic!Spec

\* The deque of two threads is linearizable, and EMPTY is true until pops have
\* been called at both ends.
THEOREM TwoThreadsAtomic ==
  ASSUME NEW p, NEW q, p # q, Threads \subseteq {p, q}
  PROVE  LinSpec => Linearizable
<1>1. LinInit => Init
  BY DEF LinInit
<1>2. [LinNext]_lvars => [Next]_vars
  BY DEF LinNext, lvars
<1>3. LinSpec => Spec
  BY <1>1, <1>2, PTL DEF LinSpec, Spec
<1>4. QED
  BY <1>3, TwoThreadsGrounded, GroundedLinearizable, PTL
=============================================================================
