---------------------------- MODULE UnboundedDeque ----------------------------
(***************************************************************************)
(* The unbounded deque of unbounded/src/deque.cc: a doubly linked chain of *)
(* buffers, each a bounded array whose first and last node hold a null or  *)
(* the pointer to the neighbouring buffer.  A push that meets the edge of  *)
(* the last buffer attaches a new one; pushes and pops also straddle the   *)
(* edge between two buffers.  The two hints are <<buffer, index>> pairs    *)
(* that are exchanged after an operation has taken effect.                 *)
(*                                                                         *)
(* As in BoundedDeque, every atomic access is one step of its thread, and  *)
(* a step takes its direction from end[t].  Indices are kept modulo        *)
(* DEF_BOUNDS: the code uses them in no other way (mod(k.index, ...)).     *)
(***************************************************************************)
EXTENDS Integers, FiniteSets

CONSTANTS
  Threads,    \* the threads that share the deque
  Elts,       \* the pointers that are pushed
  Buffers,    \* the addresses that malloc may return
  Root,       \* the buffer that init_deque allocates
  D,          \* DEF_BOUNDS, the number of nodes of a buffer
  ULONG,      \* 2^w: size is an unsigned long of w bits and wraps
  Workload,   \* the <<end, op>> pairs that the clients of this deque call
  MaxCalls,   \* bound: calls made in a behaviour
  MaxCount    \* bound: no version counter exceeds it

LEFT  == "LEFT"
RIGHT == "RIGHT"
PUSH  == "push"
POP   == "pop"
LNULL == "LNULL"
RNULL == "RNULL"
NULL  == "NULL"
OK    == "OK"
EMPTY == "EMPTY"
NONE  == "NONE"

End   == {LEFT, RIGHT}
Op    == {PUSH, POP}
Slots == 0 .. D - 1
Word  == 0 .. ULONG - 1
Value == Elts \cup Buffers \cup {LNULL, RNULL}
Node  == [value : Value, count : Nat]
Place == [buf : Buffers, idx : Slots]

Nowhere == [buf |-> NULL, idx |-> 0]   \* a place that is not in use

ASSUME DAssumption        == D \in Nat /\ D >= 4
ASSUME ULONGAssumption    == ULONG \in Nat \ {0}
ASSUME RootAssumption     == Root \in Buffers
ASSUME ValueAssumption    == /\ {LNULL, RNULL, NULL} \cap (Elts \cup Buffers) = {}
                             /\ Elts \cap Buffers = {}
ASSUME WorkloadAssumption == Workload \subseteq End \X Op
ASSUME BoundsAssumption   == MaxCalls \in Nat /\ MaxCount \in Nat

VARIABLES
  mem,        \* mem[b][i]: node i of the buffer at address b
  heap,       \* the addresses that are allocated
  hint,       \* left_hint and right_hint
  size,       \* the size field
  pc,         \* the atomic access that a thread performs next
  end, op, elt,
  k,          \* the place that the oracle returned, or the hint it loaded
  at,         \* where the oracle's search is
  inner,      \* the node loaded next to k (or to at): previous / current
  outer,      \* the node loaded at k (or at at): current / next
  saved,      \* saved_hint
  side,       \* the neighbouring buffer, or the one about to be attached
  peek,       \* the node loaded from the neighbouring buffer
  ret,        \* stat and the returned pointer of its last call
  calls,      \* calls made so far
  lost        \* history: buffers that clear_deque has neither kept nor freed

store   == <<mem, heap>>
shared  == <<store, hint, size>>
request == <<end, op, elt>>
found   == <<k, inner, outer>>
extra   == <<saved, side, peek>>
vars    == <<shared, pc, request, found, at, extra, ret, calls, lost>>

-----------------------------------------------------------------------------
(* Places, nodes and buffers *)

Own(e)   == IF e = LEFT THEN LNULL ELSE RNULL
Other(e) == IF e = LEFT THEN RNULL ELSE LNULL

\* The index one further in or out, mod DEF_BOUNDS.
Inward(e, i)  == IF e = LEFT THEN (i + 1) % D ELSE (i - 1) % D
Outward(e, i) == IF e = LEFT THEN (i - 1) % D ELSE (i + 1) % D

\* The edge node of a buffer on side e, the opposite edge, and the element
\* node nearest to the opposite edge: kpeek of the neighbour on side e.
Rim(e)   == IF e = LEFT THEN 0 ELSE D - 1
Far(e)   == IF e = LEFT THEN D - 1 ELSE 0
Entry(e) == Outward(e, Far(e))

In(e, p)  == [p EXCEPT !.idx = Inward(e, @)]
Out(e, p) == [p EXCEPT !.idx = Outward(e, @)]

NodeAt(p) == mem[p.buf][p.idx]

SetNodeOver(v, n) == [value |-> v, count |-> n.count]   \* mutant of SetNode
SetNode(v, n) == [value |-> v, count |-> n.count + 1]
CopyNode(n)   == SetNode(n.value, n)

\* compare_exchange_strong compares the value and the version.
SameValue(p, old) == NodeAt(p).value = old.value   \* mutant of Unchanged
Unchanged(p, old) == NodeAt(p) = old

\* init_buffer: SPLIT, or LBUF / RBUF for a buffer attached on side e.
Blank(v) == [value |-> v, count |-> 0]
Split    == [i \in Slots |-> Blank(IF i < D \div 2 THEN LNULL ELSE RNULL)]

\* Mutant of NewBuffer: the pointer back to buffer b is not stored.
NewBufferUnlinked(e, b, v) ==
  [i \in Slots |-> CASE i = Far(e)   -> Blank(Other(e))
                     [] i = Entry(e) -> SetNode(v, Blank(Own(e)))
                     [] OTHER        -> Blank(Own(e))]

\* The buffer that a push at end e attaches to buffer b with element v.
NewBuffer(e, b, v) ==
  [i \in Slots |-> CASE i = Far(e)   -> SetNode(b, Blank(Other(e)))
                     [] i = Entry(e) -> SetNode(v, Blank(Own(e)))
                     [] OTHER        -> Blank(Own(e))]

Junk == Blank(LNULL)

-----------------------------------------------------------------------------
(* Moving a thread along *)

Goto(t, label) == pc' = [pc EXCEPT ![t] = label]

\* The locals are dead once a thread starts over or returns.
Forget(t) ==
  /\ k'     = [k EXCEPT ![t] = Nowhere]
  /\ at'    = [at EXCEPT ![t] = Nowhere]
  /\ inner' = [inner EXCEPT ![t] = Junk]
  /\ outer' = [outer EXCEPT ![t] = Junk]
  /\ saved' = [saved EXCEPT ![t] = Nowhere]
  /\ side'  = [side EXCEPT ![t] = NULL]
  /\ peek'  = [peek EXCEPT ![t] = Junk]

Retry(t) == Goto(t, "oracleHint") /\ Forget(t) /\ UNCHANGED ret

Return(t, stat, val) ==
  /\ Goto(t, "idle")
  /\ Forget(t)
  /\ ret' = [ret EXCEPT ![t] = [stat |-> stat, val |-> val]]

\* The oracle returns place p to the operation; what it loaded is dead.
Found(t, p) ==
  /\ Goto(t, "saveHint")
  /\ k'     = [k EXCEPT ![t] = p]
  /\ at'    = [at EXCEPT ![t] = Nowhere]
  /\ inner' = [inner EXCEPT ![t] = Junk]
  /\ outer' = [outer EXCEPT ![t] = Junk]

\* Following a pointer that is no buffer ends the program.
Crash(t) == Goto(t, "crashed")

-----------------------------------------------------------------------------
(* A client calls one of the four operations *)

Call(t) ==
  /\ pc[t] = "idle"
  /\ calls < MaxCalls
  /\ \E w \in Workload :
       /\ end' = [end EXCEPT ![t] = w[1]]
       /\ op'  = [op EXCEPT ![t] = w[2]]
       /\ \E v \in IF w[2] = PUSH THEN Elts ELSE {NULL} :
            elt' = [elt EXCEPT ![t] = v]
  /\ ret' = [ret EXCEPT ![t] = [stat |-> NONE, val |-> NULL]]
  /\ calls' = calls + 1
  /\ Goto(t, "oracleHint")
  /\ UNCHANGED <<shared, found, at, extra, lost>>

-----------------------------------------------------------------------------
(* left_oracle and right_oracle *)

OracleHint(t) ==
  /\ pc[t] = "oracleHint"
  /\ k' = [k EXCEPT ![t] = hint[end[t]]]
  /\ Goto(t, "oracleOuter")
  /\ UNCHANGED <<at, inner, outer>>

OracleOuter(t) ==
  /\ pc[t] = "oracleOuter"
  /\ outer' = [outer EXCEPT ![t] = NodeAt(k[t])]
  /\ Goto(t, "oracleInner")
  /\ UNCHANGED <<k, at, inner>>

\* Look for the end of the chain, from the hint's buffer on.
StartClimb(t) ==
  /\ Goto(t, "climb")
  /\ at' = [at EXCEPT ![t] = [buf |-> k[t].buf, idx |-> Rim(end[t])]]
  /\ inner' = [inner EXCEPT ![t] = Junk]
  /\ outer' = [outer EXCEPT ![t] = Junk]
  /\ UNCHANGED k

\* Is the hint exactly right?  At the edge of its buffer it may be, if the
\* neighbour turns out to be empty.
OracleInner(t) ==
  LET e    == end[t]
      prev == In(e, k[t])
      n    == NodeAt(prev)
  IN
  /\ pc[t] = "oracleInner"
  /\ IF prev.idx = Far(e) \/ n.value = Own(e)
     THEN StartClimb(t)
     ELSE IF outer[t].value = Own(e)
     THEN Found(t, k[t])
     ELSE IF k[t].idx = Rim(e)
     THEN Goto(t, "oraclePeek") /\ UNCHANGED <<found, at>>
     ELSE StartClimb(t)

OraclePeek(t) ==
  LET e    == end[t]
      next == outer[t].value
  IN
  /\ pc[t] = "oraclePeek"
  /\ IF next \notin Buffers
     THEN Crash(t) /\ UNCHANGED <<found, at>>
     ELSE IF mem[next][Entry(e)].value = Own(e) THEN Found(t, k[t]) ELSE StartClimb(t)

\* One iteration of the loop that finds the outermost buffer.
Climb(t) ==
  LET e    == end[t]
      next == NodeAt(at[t]).value
  IN
  /\ pc[t] = "climb"
  /\ IF next = Own(e)
     THEN Goto(t, "scanOuter") /\ UNCHANGED at
     ELSE IF next \in Buffers
     THEN at' = [at EXCEPT ![t].buf = next] /\ UNCHANGED pc
     ELSE Crash(t) /\ UNCHANGED at
  /\ UNCHANGED found

ScanOuter(t) ==
  /\ pc[t] = "scanOuter"
  /\ outer' = [outer EXCEPT ![t] = NodeAt(at[t])]
  /\ Goto(t, "scanInner")
  /\ UNCHANGED <<k, at, inner>>

\* The head is found, or the search goes on one node further in.
ScanInner(t) ==
  LET e    == end[t]
      prev == In(e, at[t])
      n    == NodeAt(prev)
      cur  == outer[t]
      head == IF prev.idx = Far(e)
              THEN cur.value = Own(e) /\ n.value = Other(e)
              ELSE n.value # Own(e) /\ (at[t].idx = Rim(e) \/ cur.value = Own(e))
  IN
  /\ pc[t] = "scanInner"
  /\ IF head
     THEN Found(t, at[t])
     ELSE /\ at' = [at EXCEPT ![t] = prev]
          /\ outer' = [outer EXCEPT ![t] = Junk]
          /\ Goto(t, IF prev.idx = Far(e) THEN "scanNext" ELSE "scanOuter")
          /\ UNCHANGED <<k, inner>>

\* On to the next buffer; past the last one the oracle returns the old hint.
ScanNext(t) ==
  LET e    == end[t]
      next == NodeAt(at[t]).value
  IN
  /\ pc[t] = "scanNext"
  /\ IF next = Other(e)
     THEN Found(t, k[t])
     ELSE IF next \in Buffers
     THEN /\ at' = [at EXCEPT ![t] = [buf |-> next, idx |-> Rim(e)]]
          /\ Goto(t, "scanOuter")
          /\ UNCHANGED found
     ELSE Crash(t) /\ UNCHANGED <<found, at>>

Oracle(t) ==
  /\ \/ OracleHint(t) \/ OracleOuter(t) \/ OracleInner(t) \/ OraclePeek(t)
     \/ Climb(t) \/ ScanOuter(t) \/ ScanInner(t) \/ ScanNext(t)
  /\ UNCHANGED <<shared, request, extra, ret, calls, lost>>

LeftOracle(t)  == end[t] = LEFT /\ Oracle(t)
RightOracle(t) == end[t] = RIGHT /\ Oracle(t)

-----------------------------------------------------------------------------
(* The body of the while(1) loop of an operation *)

\* The operation is at the edge of k's buffer; what it read there, n, tells
\* whether the chain goes on.
AtEdge(t)       == k[t].idx = Rim(end[t])
CrossesBlindly(t, n) == AtEdge(t)   \* mutant of Crosses: any edge node is followed
Crosses(t, n)   == AtEdge(t) /\ n.value # Own(end[t])
Extends(t, n)   == op[t] = PUSH /\ AtEdge(t) /\ n.value = Own(end[t])
Straddles(t)    == Crosses(t, outer[t])
Attaches(t)     == Extends(t, outer[t])

\* right_push loads the pointer to the neighbour a second time.
Reloads(t) == op[t] = PUSH /\ end[t] = RIGHT

\* The node of buffer b that an operation at its inner neighbour exchanges.
PeekPlace(t) == [buf |-> side[t], idx |-> Entry(end[t])]

SaveHint(t) ==
  /\ pc[t] = "saveHint"
  /\ saved' = [saved EXCEPT ![t] = hint[end[t]]]
  /\ Goto(t, "loadInner")
  /\ UNCHANGED <<shared, found, at, side, peek, ret>>

LoadInner(t) ==
  /\ pc[t] = "loadInner"
  /\ inner' = [inner EXCEPT ![t] = NodeAt(In(end[t], k[t]))]
  /\ Goto(t, "loadOuter")
  /\ UNCHANGED <<shared, k, outer, at, extra, ret>>

\* The second load, and the choice between the cases of the operation.
LoadOuter(t) ==
  LET e == end[t]
      n == NodeAt(k[t])
  IN
  /\ pc[t] = "loadOuter"
  /\ IF inner[t].value = Own(e) \/ (n.value # Own(e) /\ ~AtEdge(t))
     THEN Retry(t)
     ELSE /\ outer' = [outer EXCEPT ![t] = n]
          /\ side'  = [side EXCEPT ![t] = IF Crosses(t, n) THEN n.value ELSE NULL]
          /\ Goto(t, IF op[t] = POP /\ inner[t].value = Other(e) THEN "recheck"
                     ELSE IF Extends(t, n) THEN "attach"
                     ELSE IF ~Crosses(t, n) THEN "cas1"
                     ELSE IF Reloads(t) THEN "reload" ELSE "peek")
          /\ UNCHANGED <<k, at, inner, saved, peek, ret>>
  /\ UNCHANGED shared

\* compare_node loads the inner node again and compares value and count.
Recheck(t) ==
  /\ pc[t] = "recheck"
  /\ IF NodeAt(In(end[t], k[t])) = inner[t]
     THEN Return(t, EMPTY, NULL)
     ELSE /\ Goto(t, IF Straddles(t) THEN "peek" ELSE "cas1")
          /\ UNCHANGED <<found, at, extra, ret>>
  /\ UNCHANGED shared

\* malloc and init_buffer: no other thread knows the new buffer yet.
Attach(t) ==
  /\ pc[t] = "attach"
  /\ \E b \in Buffers \ heap :
       /\ heap' = heap \cup {b}
       /\ mem'  = [mem EXCEPT ![b] = NewBuffer(end[t], k[t].buf, elt[t])]
       /\ side' = [side EXCEPT ![t] = b]
  /\ Goto(t, "cas1")
  /\ UNCHANGED <<hint, size, found, at, saved, peek, ret>>

Reload(t) ==
  /\ pc[t] = "reload"
  /\ side' = [side EXCEPT ![t] = NodeAt(k[t]).value]
  /\ Goto(t, "peek")
  /\ UNCHANGED <<shared, found, at, saved, peek, ret>>

\* Someone already pushed to the neighbour: start over.
Peek(t) ==
  /\ pc[t] = "peek"
  /\ IF side[t] \notin Buffers
     THEN Crash(t) /\ UNCHANGED <<found, at, extra, ret>>
     ELSE IF NodeAt(PeekPlace(t)).value # Own(end[t])
     THEN Retry(t)
     ELSE /\ peek' = [peek EXCEPT ![t] = NodeAt(PeekPlace(t))]
          /\ Goto(t, "cas1")
          /\ UNCHANGED <<found, at, saved, side, ret>>
  /\ UNCHANGED shared

\* Mutants of Discard: the buffer is not freed; the wrong one is.
DiscardNothing(t) == UNCHANGED store
DiscardNeighbour(t) == heap' = heap \ {k[t].buf} /\ UNCHANGED mem

\* A failed attachment frees the buffer, whose content is dead.
Discard(t) ==
  /\ heap' = heap \ {side[t]}
  /\ mem'  = [mem EXCEPT ![side[t]] = Split]

Exchange(t, p, old, new, label) ==
  /\ IF Unchanged(p, old)
     THEN /\ mem' = [mem EXCEPT ![p.buf][p.idx] = new]
          /\ Goto(t, label)
          /\ UNCHANGED <<heap, found, at, extra, ret>>
     ELSE /\ IF Attaches(t) THEN Discard(t) ELSE UNCHANGED store
          /\ Retry(t)
  /\ UNCHANGED <<hint, size>>

\* The first exchange bumps the version of a node whose change would
\* invalidate the operation: the inner node for a push; for a pop, the null
\* that the next push at this end would replace.
Cas1(t) ==
  /\ pc[t] = "cas1"
  /\ IF op[t] = PUSH
     THEN Exchange(t, In(end[t], k[t]), inner[t], CopyNode(inner[t]), "cas2")
     ELSE IF Straddles(t)
     THEN Exchange(t, PeekPlace(t), peek[t], CopyNode(peek[t]), "cas2")
     ELSE Exchange(t, k[t], outer[t], CopyNode(outer[t]), "cas2")

\* The second exchange takes effect.
Cas2(t) ==
  LET e == end[t] IN
  /\ pc[t] = "cas2"
  /\ IF op[t] = POP
     THEN Exchange(t, In(e, k[t]), inner[t], SetNode(Own(e), inner[t]), "moveHint")
     ELSE IF Attaches(t)
     THEN Exchange(t, k[t], outer[t], SetNode(side[t], outer[t]), "moveHint")
     ELSE IF Straddles(t)
     THEN Exchange(t, PeekPlace(t), peek[t], SetNode(elt[t], peek[t]), "moveHint")
     ELSE Exchange(t, k[t], outer[t], SetNode(elt[t], outer[t]), "moveHint")

\* Mutant of NewHint: a push always names the neighbouring buffer.
NewHintCopied(t) ==
  IF op[t] = POP THEN In(end[t], k[t])
  ELSE [buf |-> side[t], idx |-> Outward(end[t], k[t].idx)]

\* The place of the head after the operation.
NewHint(t) ==
  LET e == end[t] IN
  IF op[t] = POP THEN In(e, k[t])
  ELSE IF AtEdge(t) THEN Out(e, PeekPlace(t))
  ELSE Out(e, k[t])

\* The hint moves only if it is still the one saved before the operation.
MoveHint(t) ==
  LET e == end[t] IN
  /\ pc[t] = "moveHint"
  /\ hint' = IF hint[e] = saved[t] THEN [hint EXCEPT ![e] = NewHint(t)] ELSE hint
  /\ Goto(t, "resize")
  /\ UNCHANGED <<store, size, found, at, extra, ret>>

ResizedUp(o, n) == (n + 1) % ULONG   \* mutant of Resized: a pop counts up, too
Resized(o, n) == (IF o = PUSH THEN n + 1 ELSE n - 1) % ULONG

Resize(t) ==
  /\ pc[t] = "resize"
  /\ size' = Resized(op[t], size)
  /\ Return(t, OK, IF op[t] = PUSH THEN NULL ELSE inner[t].value)
  /\ UNCHANGED <<store, hint>>

Body(t) ==
  /\ \/ SaveHint(t) \/ LoadInner(t) \/ LoadOuter(t) \/ Recheck(t) \/ Attach(t)
     \/ Reload(t) \/ Peek(t) \/ Cas1(t) \/ Cas2(t) \/ MoveHint(t) \/ Resize(t)
  /\ UNCHANGED <<request, calls, lost>>

LeftPush(t)  == end[t] = LEFT  /\ op[t] = PUSH /\ Body(t)
LeftPop(t)   == end[t] = LEFT  /\ op[t] = POP  /\ Body(t)
RightPush(t) == end[t] = RIGHT /\ op[t] = PUSH /\ Body(t)
RightPop(t)  == end[t] = RIGHT /\ op[t] = POP  /\ Body(t)

-----------------------------------------------------------------------------

\* The buffer that follows b at end e, or the null where the chain ends.
Link(b, e) == mem[b][Rim(e)].value

\* The buffers on the way from b outwards at end e, b included: c is one if a
\* link leads out of every set of buffers that has b and lacks c.
Reached(b, e) ==
  {c \in Buffers : \A S \in SUBSET (Buffers \ {c}) :
     b \in S => \E x \in S : Link(x, e) \in Buffers \ S}

\* The buffers of the deque.
Chain == UNION {Reached(hint[LEFT].buf, e) : e \in End}

\* The buffers other than b that follow it at end e.
Beyond(b, e) == Reached(b, e) \ {b}

\* Both hints are at the two nulls in the middle of buffer b.
Middle(b) ==
  [e \in End |-> [buf |-> b, idx |-> IF e = LEFT THEN D \div 2 - 1 ELSE D \div 2]]

\* clear_deque, whose callers have joined all threads that used the deque.
\* It keeps the left hint's buffer.  Its loop needs a neighbour on both sides
\* and then frees the left ones only.  What the rest of the chain holds is
\* dead, freed or not.
Clear ==
  LET kept  == hint[LEFT].buf
      freed == IF {} \in {Beyond(kept, e) : e \in End} THEN {} ELSE Beyond(kept, LEFT)
  IN
  /\ \A t \in Threads : pc[t] = "idle"
  /\ mem'  = [b \in Buffers |-> Split]
  /\ heap' = heap \ freed
  /\ lost' = lost \cup ((UNION {Beyond(kept, e) : e \in End}) \ freed)
  /\ hint' = Middle(kept)
  /\ size' = 0
  /\ UNCHANGED <<pc, request, found, at, extra, ret, calls>>

\* init_deque: one buffer, half left nulls and half right nulls.
Init ==
  /\ mem   = [b \in Buffers |-> Split]
  /\ heap  = {Root}
  /\ hint  = Middle(Root)
  /\ size  = 0
  /\ pc    = [t \in Threads |-> "idle"]
  /\ end   = [t \in Threads |-> LEFT]
  /\ op    = [t \in Threads |-> PUSH]
  /\ elt   = [t \in Threads |-> NULL]
  /\ k     = [t \in Threads |-> Nowhere]
  /\ at    = [t \in Threads |-> Nowhere]
  /\ inner = [t \in Threads |-> Junk]
  /\ outer = [t \in Threads |-> Junk]
  /\ saved = [t \in Threads |-> Nowhere]
  /\ side  = [t \in Threads |-> NULL]
  /\ peek  = [t \in Threads |-> Junk]
  /\ ret   = [t \in Threads |-> [stat |-> NONE, val |-> NULL]]
  /\ calls = 0
  /\ lost  = {}

Step(t) ==
  \/ LeftOracle(t) \/ RightOracle(t)
  \/ LeftPush(t) \/ LeftPop(t) \/ RightPush(t) \/ RightPop(t)

\* The versions a thread would write stay within MaxCount: the 32-bit
\* counters of the source are taken not to wrap.
CountRoom(t) ==
  pc[t] \in {"cas1", "cas2"} =>
    \A n \in {inner[t], outer[t], peek[t]} : n.count < MaxCount

\* A crash of one thread stops them all.
Running == \A t \in Threads : pc[t] # "crashed"

Next ==
  /\ Running
  /\ Clear \/ \E t \in Threads : Call(t) \/ (CountRoom(t) /\ Step(t))

Spec == Init /\ [][Next]_vars
-----------------------------------------------------------------------------
(* Properties *)

PC == {"idle", "oracleHint", "oracleOuter", "oracleInner", "oraclePeek",
       "climb", "scanOuter", "scanInner", "scanNext", "saveHint", "loadInner",
       "loadOuter", "recheck", "attach", "reload", "peek", "cas1", "cas2",
       "moveHint", "resize", "crashed"}

\* Every variable holds a value of its type.
TypeOK ==
  /\ mem \in [Buffers -> [Slots -> Node]]
  /\ heap \in SUBSET Buffers
  /\ hint \in [End -> Place]
  /\ size \in Word
  /\ pc \in [Threads -> PC]
  /\ end \in [Threads -> End]
  /\ op \in [Threads -> Op]
  /\ elt \in [Threads -> Elts \cup {NULL}]
  /\ {k, at, saved} \subseteq [Threads -> Place \cup {Nowhere}]
  /\ {inner, outer, peek} \subseteq [Threads -> Node]
  /\ side \in [Threads -> Value \cup {NULL}]
  /\ ret \in [Threads -> [stat : {NONE, OK, EMPTY}, val : Value \cup {NULL}]]
  /\ calls \in 0 .. MaxCalls
  /\ lost \in SUBSET Buffers

Opposite(e) == IF e = LEFT THEN RIGHT ELSE LEFT
Inner       == 1 .. D - 2

\* Two neighbours point at each other, and the chain ends with a null.
Linked(b, e) ==
  IF Link(b, e) \in Buffers THEN Link(Link(b, e), Opposite(e)) = b ELSE Link(b, e) = Own(e)

\* Between its edges a buffer holds no links, and outwards of a null of end e
\* there are only such nulls, also where the next buffer begins.
Ordered(b, e) ==
  /\ \A i \in Inner :
       /\ mem[b][i].value \notin Buffers
       /\ mem[b][i].value = Own(e) => mem[b][Outward(e, i)].value \in Buffers \cup {Own(e)}
  /\ Link(b, e) \in Buffers /\ mem[b][Inward(e, Rim(e))].value = Own(e)
       => mem[Link(b, e)][Entry(e)].value = Own(e)

\* The chain is doubly linked, has two ends, and from end to end it reads
\* left nulls, then elements, then right nulls, whatever buffers are being
\* attached or straddled by operations that are under way.
Shape ==
  /\ \A b \in Chain, e \in End : Linked(b, e) /\ Ordered(b, e)
  /\ \A e \in End : \E b \in Chain : Link(b, e) = Own(e)

\* The hints, and the buffers that an operation works on, are never freed
\* memory: they lie in the chain or are the buffer that it is about to attach.
NoDangling ==
  /\ hint[RIGHT].buf \in Chain
  /\ \A t \in Threads :
       /\ {k[t].buf, at[t].buf, saved[t].buf} \subseteq Chain \cup {NULL}
       /\ pc[t] \in {"cas1", "cas2"} /\ Straddles(t) => side[t] \in Chain
  /\ Chain \subseteq heap \ lost /\ lost \subseteq heap

\* The places that a thread works on.
Places(t) ==
  {k[t], at[t], saved[t]} \cup IF side[t] \in Buffers THEN {PeekPlace(t)} ELSE {}

\* No operation comes to read, exchange or free a buffer that another has
\* freed after a lost race: nobody but its owner has ever heard of it.  This
\* holds for every workload, while NoDangling needs an intact chain.
NoUseAfterFree ==
  /\ \A e \in End : hint[e].buf \in heap
  /\ \A t \in Threads : \A p \in Places(t) : p = Nowhere \/ p.buf \in heap

\* m is the present content n of its place, or an earlier version of it.
Older(m, n) == m = n \/ m.count < n.count

Loaded(t) ==
  LET both == {"recheck", "attach", "reload", "peek", "cas1", "cas2"} IN
  /\ pc[t] \in both \cup {"loadOuter"} => Older(inner[t], NodeAt(In(end[t], k[t])))
  /\ pc[t] \in both => Older(outer[t], NodeAt(k[t]))
  /\ pc[t] \in {"cas1", "cas2"} /\ Straddles(t) => Older(peek[t], NodeAt(PeekPlace(t)))

\* A node that an operation has loaded is the present content of its place or
\* an older version, so that an exchange that finds it unchanged knows that
\* nothing happened there since: also not that its buffer was freed, and the
\* same address handed out again with versions that start anew.
LoadedOlder == \A t \in Threads : Loaded(t)

\* Every buffer that is allocated is in the chain or in the hands of the one
\* thread that will attach or free it: the four operations leak none.
NoLeak ==
  \A b \in heap \ (Chain \cup lost) :
    Cardinality({t \in Threads : side[t] = b /\ pc[t] \in {"cas1", "cas2"}}) = 1

\* clear_deque frees every buffer of the chain but the one it keeps.
ClearFrees == lost = {}

\* No thread takes a null or an element for the pointer to a buffer.
NoCrash == Running

\* The places of the chain that hold an element.
Stored == {p \in [buf : Chain, idx : Inner] : NodeAt(p).value \in Elts}

Owing(o) == Cardinality({t \in Threads : op[t] = o /\ pc[t] \in {"moveHint", "resize"}})

\* size counts the elements in the chain, short of the updates still owed,
\* also while a size-- that came before its size++ has wrapped it.
SizeExact == size = (Cardinality(Stored) - Owing(PUSH) + Owing(POP)) % ULONG

\* A pop takes an element: its second exchange never replaces anything else,
\* least of all the pointer that links two buffers.
PopsElements ==
  [][\A t \in Threads :
       op[t] = POP /\ pc[t] = "cas2" /\ pc'[t] = "moveHint"
         => inner[t].value \in Elts]_vars
=============================================================================
