----------------------------- MODULE BoundedDeque -----------------------------
(***************************************************************************)
(* The bounded, array-based double-ended queue of herlihy/src/deque.cc:    *)
(* left_push, left_pop, right_push, right_pop, the oracle they call, and    *)
(* clear_bounded_deque, which is called when no thread is in the others.   *)
(*                                                                         *)
(* Every atomic load, compare_exchange_strong, ++ and -- of the code is    *)
(* one step of its thread, and the steps of all threads interleave.  The   *)
(* two ends of the deque are mirror images in the source, so a step is     *)
(* written once and takes its direction from end[t]: "inward" is towards   *)
(* the elements (index k + 1 on the left, k - 1 on the right).             *)
(***************************************************************************)
EXTENDS Integers, FiniteSets

CONSTANTS
  Threads,    \* the threads that share the deque
  Elts,       \* the pointers that are pushed
  N,          \* DEF_BOUNDS, the number of nodes
  ULONG,      \* 2^w for the width w of unsigned long: indices wrap here
  Foreign,    \* what a load beyond either end of nodes[] may return
  Workload,   \* the <<end, op>> pairs that the clients of this deque call
  MaxCalls,   \* bound: calls made in a behaviour
  MaxCount    \* bound: no version counter exceeds it

LEFT  == "LEFT"
RIGHT == "RIGHT"
PUSH  == "push"
POP   == "pop"
LNULL == "LNULL"
RNULL == "RNULL"
NULL  == "NULL"
OK    == "OK"
EMPTY == "EMPTY"
FULL  == "FULL"
NONE  == "NONE"   \* stat of a call that has not returned

End   == {LEFT, RIGHT}
Op    == {PUSH, POP}
Slots == 0 .. N - 1
Word  == 0 .. ULONG - 1
Value == Elts \cup {LNULL, RNULL}
Node  == [value : Value, count : Nat]

ASSUME NAssumption        == N \in Nat /\ N >= 2
ASSUME ULONGAssumption    == ULONG \in Nat /\ ULONG > N + 1
ASSUME EltsAssumption     == {LNULL, RNULL, NULL} \cap Elts = {}
ASSUME ForeignAssumption  == Foreign \subseteq Node
ASSUME WorkloadAssumption == Workload \subseteq End \X Op
ASSUME BoundsAssumption   == MaxCalls \in Nat /\ MaxCount \in Nat

VARIABLES
  nodes,      \* nodes[i]: a value and its version counter
  hint,       \* left_hint and right_hint
  size,       \* the size field
  pc,         \* the atomic access that a thread performs next
  end, op,    \* which of the four operations a thread is in
  elt,        \* the argument of its push
  k,          \* its index k (the oracle's i while it scans)
  inner,      \* the node it loaded next to k: previous / current
  outer,      \* the node it loaded at k: current / next
  ret,        \* stat and the returned pointer of its last call
  calls       \* calls made so far

shared  == <<nodes, hint, size>>
request == <<end, op, elt>>
locals  == <<k, inner, outer>>
vars    == <<shared, pc, request, locals, ret, calls>>

-----------------------------------------------------------------------------
(* Indices and nodes *)

Own(e)   == IF e = LEFT THEN LNULL ELSE RNULL
Other(e) == IF e = LEFT THEN RNULL ELSE LNULL

\* Unsigned arithmetic: an index wraps at the width of unsigned long.
Inc(i) == IF i = ULONG - 1 THEN 0 ELSE i + 1
DecSigned(i) == i - 1   \* mutant of Dec: no wrap
Dec(i) == IF i = 0 THEN ULONG - 1 ELSE i - 1

Inward(e, i)  == IF e = LEFT THEN Inc(i) ELSE Dec(i)
OutwardCopied(e, i) == Dec(i)   \* mutant of Outward: the left's, copied
Outward(e, i) == IF e = LEFT THEN Dec(i) ELSE Inc(i)

\* The test before a push answers FULL.
AtBoundLate(e, i)  == IF e = LEFT THEN i < 0 ELSE i > N - 1        \* mutants of
AtBoundEarly(e, i) == IF e = LEFT THEN i <= 1 ELSE i >= N - 2      \* AtBound
AtBound(e, i) == IF e = LEFT THEN i <= 0 ELSE i >= N - 1

\* The condition of the oracle's for loop.
ScanOnSwapped(e, i) == IF e = LEFT THEN i > N - 1 ELSE i < 0   \* mutants of
ScanOnFurther(e, i) == IF e = LEFT THEN i <= N - 1 ELSE i >= 0 \* ScanOn
ScanOn(e, i) == IF e = LEFT THEN i < N - 1 ELSE i > 0

\* The two nodes show the head of end e: its own null, then something else.
IsHeadUnchecked(e, in, out) == out.value = Own(e)   \* mutant of IsHead: one test
IsHead(e, in, out) == out.value = Own(e) /\ in.value # Own(e)

\* set_bounded_deque_node and copy_bounded_deque_node: a node written over n.
SetNode(v, n) == [value |-> v, count |-> n.count + 1]
CopyNodeUnversioned(n) == n   \* mutant of CopyNode: no new version
CopyNode(n) == SetNode(n.value, n)

Blank == [value |-> LNULL, count |-> 0]

\* What nodes[j].load() may return.  Nothing checks j: beyond the array the
\* load is an out-of-bounds read, and any node of Foreign may come back.
Loads(j) == IF j \in Slots THEN {nodes[j]} ELSE Foreign

\* Mutant of Cas: the exchange compares the values alone.
CasByValue(j, old, new, hit) ==
  /\ j \in Slots
  /\ hit = (nodes[j].value = old.value)
  /\ nodes' = IF hit THEN [nodes EXCEPT ![j] = new] ELSE nodes
  /\ UNCHANGED <<hint, size>>

\* nodes[j].compare_exchange_strong(old, new).  Beyond the array a hit
\* overwrites the fields that follow nodes[] in bounded_deque_t.
Cas(j, old, new, hit) ==
  IF j \in Slots
  THEN /\ hit = (nodes[j] = old)
       /\ nodes' = IF hit THEN [nodes EXCEPT ![j] = new] ELSE nodes
       /\ UNCHANGED <<hint, size>>
  ELSE /\ UNCHANGED nodes
       /\ IF hit THEN hint' \in [End -> Word] /\ size' \in Word
                 ELSE UNCHANGED <<hint, size>>

-----------------------------------------------------------------------------
(* Moving a thread along *)

Goto(t, label) == pc' = [pc EXCEPT ![t] = label]

\* The locals are dead once a thread starts over or returns.
Forget(t) ==
  /\ k'     = [k EXCEPT ![t] = 0]
  /\ inner' = [inner EXCEPT ![t] = Blank]
  /\ outer' = [outer EXCEPT ![t] = Blank]

Retry(t) == Goto(t, "oracleHint") /\ Forget(t) /\ UNCHANGED ret

Return(t, stat, val) ==
  /\ Goto(t, "idle")
  /\ Forget(t)
  /\ ret' = [ret EXCEPT ![t] = [stat |-> stat, val |-> val]]

\* The oracle returns index i to the operation.
Found(t, i) == Goto(t, "loadInner") /\ k' = [k EXCEPT ![t] = i]

-----------------------------------------------------------------------------
(* A client calls one of the four operations *)

Call(t) ==
  /\ pc[t] = "idle"
  /\ calls < MaxCalls
  /\ \E w \in Workload :
       /\ end' = [end EXCEPT ![t] = w[1]]
       /\ op'  = [op EXCEPT ![t] = w[2]]
       /\ \E v \in IF w[2] = PUSH THEN Elts ELSE {NULL} :
            elt' = [elt EXCEPT ![t] = v]
  /\ ret' = [ret EXCEPT ![t] = [stat |-> NONE, val |-> NULL]]
  /\ calls' = calls + 1
  /\ Goto(t, "oracleHint")
  /\ UNCHANGED <<shared, locals>>

-----------------------------------------------------------------------------
(* oracle(deque, end) *)

OracleHint(t) ==
  /\ pc[t] = "oracleHint"
  /\ k' = [k EXCEPT ![t] = hint[end[t]]]
  /\ Goto(t, "oracleOuter")
  /\ UNCHANGED <<inner, outer>>

OracleOuter(t) ==
  /\ pc[t] = "oracleOuter"
  /\ \E n \in Loads(k[t]) : outer' = [outer EXCEPT ![t] = n]
  /\ Goto(t, "oracleInner")
  /\ UNCHANGED <<k, inner>>

\* Head found: return k.  Only own nulls: scan inwards from k itself.
\* Anything else: return whatever the hint holds by then.
OracleInner(t) ==
  LET e == end[t] IN
  /\ pc[t] = "oracleInner"
  /\ \E n \in Loads(Inward(e, k[t])) :
       /\ inner' = [inner EXCEPT ![t] = n]
       /\ IF IsHead(e, n, outer[t])
          THEN Found(t, k[t])
          ELSE /\ Goto(t, IF outer[t].value = Own(e) /\ ScanOn(e, k[t])
                          THEN "scanOuter" ELSE "rehint")
               /\ UNCHANGED k
  /\ UNCHANGED outer

ScanOuter(t) ==
  /\ pc[t] = "scanOuter"
  /\ \E n \in Loads(k[t]) : outer' = [outer EXCEPT ![t] = n]
  /\ Goto(t, "scanInner")
  /\ UNCHANGED <<k, inner>>

ScanInner(t) ==
  LET e    == end[t]
      next == Inward(e, k[t])
  IN
  /\ pc[t] = "scanInner"
  /\ \E n \in Loads(next) :
       /\ inner' = [inner EXCEPT ![t] = n]
       /\ IF IsHead(e, n, outer[t])
          THEN Found(t, k[t])
          ELSE /\ k' = [k EXCEPT ![t] = next]
               /\ Goto(t, IF ScanOn(e, next) THEN "scanOuter" ELSE "rehint")
  /\ UNCHANGED outer

Rehint(t) ==
  /\ pc[t] = "rehint"
  /\ Found(t, hint[end[t]])
  /\ UNCHANGED <<inner, outer>>

Oracle(t) ==
  /\ \/ OracleHint(t) \/ OracleOuter(t) \/ OracleInner(t)
     \/ ScanOuter(t) \/ ScanInner(t) \/ Rehint(t)
  /\ UNCHANGED <<shared, request, ret, calls>>

LeftOracle(t)  == end[t] = LEFT /\ Oracle(t)
RightOracle(t) == end[t] = RIGHT /\ Oracle(t)

-----------------------------------------------------------------------------
(* The body of the while(1) loop of an operation *)

LoadInner(t) ==
  /\ pc[t] = "loadInner"
  /\ \E n \in Loads(Inward(end[t], k[t])) : inner' = [inner EXCEPT ![t] = n]
  /\ Goto(t, "loadOuter")
  /\ UNCHANGED <<shared, k, outer, ret>>

\* The second load, and the branches that need no further access to memory.
LoadOuter(t) ==
  LET e == end[t] IN
  /\ pc[t] = "loadOuter"
  /\ \E n \in Loads(k[t]) :
       IF ~IsHead(e, inner[t], n)
       THEN Retry(t)
       ELSE IF op[t] = PUSH /\ AtBound(e, k[t])
       THEN Return(t, FULL, NULL)
       ELSE /\ outer' = [outer EXCEPT ![t] = n]
            /\ Goto(t, IF op[t] = POP /\ inner[t].value = Other(e)
                       THEN "recheck" ELSE "cas1")
            /\ UNCHANGED <<k, inner, ret>>
  /\ UNCHANGED shared

\* compare_val loads the inner node again and compares the value alone.
Recheck(t) ==
  /\ pc[t] = "recheck"
  /\ \E n \in Loads(Inward(end[t], k[t])) :
       IF n.value = inner[t].value
       THEN Return(t, EMPTY, NULL)
       ELSE Goto(t, "cas1") /\ UNCHANGED <<locals, ret>>
  /\ UNCHANGED shared

\* The first exchange bumps the version of the node that the operation does
\* not change: the inner one for a push, the head's null for a pop.
Cas1(t) ==
  LET e == end[t] IN
  /\ pc[t] = "cas1"
  /\ \E hit \in BOOLEAN :
       /\ IF op[t] = PUSH
          THEN Cas(Inward(e, k[t]), inner[t], CopyNode(inner[t]), hit)
          ELSE Cas(k[t], outer[t], SetNode(Own(e), outer[t]), hit)
       /\ IF hit THEN Goto(t, "cas2") /\ UNCHANGED <<locals, ret>>
                 ELSE Retry(t)

\* The second exchange takes effect: the element goes over the head's null,
\* or the null goes over the element.
Cas2(t) ==
  LET e == end[t] IN
  /\ pc[t] = "cas2"
  /\ \E hit \in BOOLEAN :
       /\ IF op[t] = PUSH
          THEN Cas(k[t], outer[t], SetNode(elt[t], outer[t]), hit)
          ELSE Cas(Inward(e, k[t]), inner[t], SetNode(Own(e), inner[t]), hit)
       /\ IF hit THEN Goto(t, "moveHint") /\ UNCHANGED <<locals, ret>>
                 ELSE Retry(t)

MoveHint(t) ==
  LET e == end[t] IN
  /\ pc[t] = "moveHint"
  /\ hint' = [hint EXCEPT ![e] = IF op[t] = PUSH THEN Outward(e, @)
                                                 ELSE Inward(e, @)]
  /\ Goto(t, "resize")
  /\ UNCHANGED <<nodes, size, locals, ret>>

ResizedUp(o, n) == Inc(n)   \* mutant of Resized: a pop counts up, too
Resized(o, n) == IF o = PUSH THEN Inc(n) ELSE Dec(n)

Resize(t) ==
  /\ pc[t] = "resize"
  /\ size' = Resized(op[t], size)
  /\ Return(t, OK, IF op[t] = PUSH THEN NULL ELSE inner[t].value)
  /\ UNCHANGED <<nodes, hint>>

Body(t) ==
  /\ \/ LoadInner(t) \/ LoadOuter(t) \/ Recheck(t) \/ Cas1(t) \/ Cas2(t)
     \/ MoveHint(t) \/ Resize(t)
  /\ UNCHANGED <<request, calls>>

LeftPush(t)  == end[t] = LEFT  /\ op[t] = PUSH /\ Body(t)
LeftPop(t)   == end[t] = LEFT  /\ op[t] = POP  /\ Body(t)
RightPush(t) == end[t] = RIGHT /\ op[t] = PUSH /\ Body(t)
RightPop(t)  == end[t] = RIGHT /\ op[t] = POP  /\ Body(t)

-----------------------------------------------------------------------------

\* The left half holds left nulls, the rest right nulls, all versions are 0,
\* and the hints are at the two nulls in the middle.
BlankNodes  == [i \in Slots |->
                  [value |-> IF i < N \div 2 THEN LNULL ELSE RNULL, count |-> 0]]
MiddleHints == [e \in End |-> IF e = LEFT THEN N \div 2 - 1 ELSE N \div 2]

\* clear_bounded_deque: the callers have joined all threads that used it.
Clear ==
  /\ \A t \in Threads : pc[t] = "idle"
  /\ nodes' = BlankNodes
  /\ hint' = MiddleHints
  /\ size' = 0
  /\ UNCHANGED <<pc, request, locals, ret, calls>>

\* init_bounded_deque
Init ==
  /\ nodes = BlankNodes
  /\ hint  = MiddleHints
  /\ size  = 0
  /\ pc    = [t \in Threads |-> "idle"]
  /\ end   = [t \in Threads |-> LEFT]
  /\ op    = [t \in Threads |-> PUSH]
  /\ elt   = [t \in Threads |-> NULL]
  /\ k     = [t \in Threads |-> 0]
  /\ inner = [t \in Threads |-> Blank]
  /\ outer = [t \in Threads |-> Blank]
  /\ ret   = [t \in Threads |-> [stat |-> NONE, val |-> NULL]]
  /\ calls = 0

Step(t) ==
  \/ LeftOracle(t) \/ RightOracle(t)
  \/ LeftPush(t) \/ LeftPop(t) \/ RightPush(t) \/ RightPop(t)

\* The versions a thread would write stay within MaxCount: the 32-bit
\* counters of the source are taken not to wrap.
CountRoom(t) ==
  pc[t] \in {"cas1", "cas2"} =>
    inner[t].count < MaxCount /\ outer[t].count < MaxCount

Next == Clear \/ \E t \in Threads : Call(t) \/ (CountRoom(t) /\ Step(t))

Spec == Init /\ [][Next]_vars
-----------------------------------------------------------------------------
(* Properties *)

PC == {"idle", "oracleHint", "oracleOuter", "oracleInner", "scanOuter",
       "scanInner", "rehint", "loadInner", "loadOuter", "recheck", "cas1",
       "cas2", "moveHint", "resize"}

\* Every variable holds a value of its type.
TypeOK ==
  /\ nodes \in [Slots -> Node]
  /\ hint \in [End -> Word]
  /\ size \in Word
  /\ pc \in [Threads -> PC]
  /\ end \in [Threads -> End]
  /\ op \in [Threads -> Op]
  /\ elt \in [Threads -> Elts \cup {NULL}]
  /\ k \in [Threads -> Word]
  /\ inner \in [Threads -> Node]
  /\ outer \in [Threads -> Node]
  /\ ret \in [Threads -> [stat : {NONE, OK, EMPTY, FULL},
                          val : Value \cup {NULL}]]
  /\ calls \in 0 .. MaxCalls

\* The array reads LNULL+ value* RNULL+ at every instant, whatever the four
\* operations of all threads are in the middle of: left nulls reach down to
\* the first node and right nulls up to the last one, so no element is ever
\* stranded among the nulls and the ends never cross.
Shape ==
  /\ nodes[0].value = LNULL
  /\ nodes[N - 1].value = RNULL
  /\ \A i, j \in Slots : i < j /\ nodes[j].value = LNULL => nodes[i].value = LNULL
  /\ \A i, j \in Slots : i < j /\ nodes[i].value = RNULL => nodes[j].value = RNULL

\* The slot of end e's innermost null.
HeadSlot(e) ==
  CHOOSE i \in Slots : /\ nodes[i].value = Own(e)
                       /\ nodes[Inward(e, i)].value # Own(e)

\* The number of operations that have taken effect but are still to reach
\* one of the given labels.
Pending(e, o, labels) ==
  Cardinality({t \in Threads : end[t] = e /\ op[t] = o /\ pc[t] \in labels})

Surplus(e, labels) == Pending(e, PUSH, labels) - Pending(e, POP, labels)

\* A hint differs from its head by exactly the updates that operations
\* stalled between their second exchange and left_hint-- (right_hint++, ...)
\* still owe: once they are quiet the hints are accurate again.
HintExact ==
  /\ hint[LEFT]  = (HeadSlot(LEFT)  + Surplus(LEFT, {"moveHint"}))  % ULONG
  /\ hint[RIGHT] = (HeadSlot(RIGHT) - Surplus(RIGHT, {"moveHint"})) % ULONG

\* size counts the elements in the array, short of the updates still owed.
SizeExact ==
  LET owing == {"moveHint", "resize"}
  IN  size = (HeadSlot(RIGHT) - HeadSlot(LEFT) - 1
                - Surplus(LEFT, owing) - Surplus(RIGHT, owing)) % ULONG

\* An operation only exchanges nodes of the array, although the oracle may
\* hand it an index that lies outside (two threads: see the README).
CasInRange ==
  \A t \in Threads : pc[t] \in {"cas1", "cas2"} =>
    {k[t], Inward(end[t], k[t])} \subseteq Slots

\* The oracle hands an operation an index at which both nodes that it will
\* read lie in the array.
OracleInRange ==
  \A t \in Threads : pc[t] = "loadInner" =>
    k[t] \in IF end[t] = LEFT THEN 0 .. N - 2 ELSE 1 .. N - 1

\* A step that changes the value in a slot either puts an element over the
\* head's null or puts a head's null over the element next to it: two
\* exchanges on two nodes amount to one atomic step at the head, whatever
\* happened to both nodes since the thread read them.  (Clearing aside.)
ChangesAtHead ==
  \A i \in Slots : nodes'[i].value # nodes[i].value =>
    \E e \in End :
      \/ i = HeadSlot(e) /\ nodes'[i].value \in Elts
      \/ i = Inward(e, HeadSlot(e)) /\ nodes[i].value \in Elts
                               /\ nodes'[i].value = Own(e)

OnlyAtHeads == [][Clear \/ ChangesAtHead]_vars

=============================================================================
