-------------------------- MODULE UnboundedDequeProofs --------------------------
(***************************************************************************)
(* The memory of the unbounded deque, for any number of threads, any size  *)
(* of the buffers and any workload: types, no use of a freed buffer, and   *)
(* versions that tell old nodes from present ones.                         *)
(***************************************************************************)
EXTENDS UnboundedDequeInv, TLAPS

USE DAssumption, RootAssumption, ValueAssumption, WorkloadAssumption, BoundsAssumption

(* Places and nodes *)

\* A step from a slot, around the edge or not, leads to a slot.
LEMMA SlotType ==
  ASSUME NEW e \in End
  PROVE  /\ \A i \in Slots : Inward(e, i) \in Slots /\ Outward(e, i) \in Slots
         /\ Rim(e) \in Slots /\ Far(e) \in Slots /\ Entry(e) \in Slots
<1>1. \A i \in 0 .. D : i % D = IF i = D THEN 0 ELSE i
  OBVIOUS
<1>2. (-1) % D = D - 1
  OBVIOUS
<1>3. \A i \in Slots : Inward(e, i) \in Slots /\ Outward(e, i) \in Slots
  <2> SUFFICES ASSUME NEW i \in Slots PROVE Inward(e, i) \in Slots /\ Outward(e, i) \in Slots
    OBVIOUS
  <2>1. i + 1 \in 0 .. D /\ (i - 1 = -1 \/ i - 1 \in 0 .. D)
    BY DEF Slots
  <2>2. (i + 1) % D \in Slots
    BY <1>1, <2>1 DEF Slots
  <2>3. (i - 1) % D \in Slots
    BY <1>1, <1>2, <2>1 DEF Slots
  <2>4. QED
    BY <2>2, <2>3 DEF Inward, Outward
<1>4. Rim(e) \in Slots /\ Far(e) \in Slots
  BY DEF Rim, Far, Slots
<1>5. QED
  BY <1>3, <1>4 DEF Entry

LEMMA PlaceType ==
  ASSUME NEW e \in End, NEW p \in Place
  PROVE  /\ In(e, p) \in Place /\ In(e, p).buf = p.buf
         /\ Out(e, p) \in Place /\ Out(e, p).buf = p.buf
BY SlotType DEF In, Out, Place

LEMMA NodeType ==
  ASSUME NEW v \in Value, NEW n \in Node
  PROVE  /\ SetNode(v, n) \in Node /\ CopyNode(n) \in Node /\ Blank(v) \in Node
         /\ SetNode(v, n).value = v /\ CopyNode(n).value = n.value /\ Blank(v).value = v
         /\ SetNode(v, n).count = n.count + 1 /\ CopyNode(n).count = n.count + 1
BY DEF SetNode, CopyNode, Blank, Node

LEMMA OwnType ==
  ASSUME NEW e \in End
  PROVE  /\ Own(e) \in Value /\ Other(e) \in Value /\ Own(e) # Other(e)
         /\ Own(e) \notin Buffers /\ Other(e) \notin Buffers
         /\ Junk \in Node /\ Junk.value \notin Buffers
BY DEF Own, Other, Value, Junk, Blank, Node, LNULL, RNULL

LEMMA LoadType ==
  ASSUME TypeOK, NEW p \in Place
  PROVE  NodeAt(p) \in Node
BY DEF TypeOK, NodeAt, Place

LEMMA BufferType ==
  ASSUME NEW e \in End, NEW b \in Buffers, NEW v \in Elts
  PROVE  NewBuffer(e, b, v) \in [Slots -> Node] /\ Split \in [Slots -> Node]
<1>1. /\ SetNode(b, Blank(Other(e))) \in Node /\ SetNode(v, Blank(Own(e))) \in Node
      /\ Blank(Own(e)) \in Node /\ Blank(Other(e)) \in Node
      /\ Blank(LNULL) \in Node /\ Blank(RNULL) \in Node
  BY OwnType DEF SetNode, Blank, Node, Value
<1>2. QED
  BY <1>1 DEF NewBuffer, Split

LEMMA NowherePlace == Nowhere \notin Place
BY DEF Nowhere, Place, NULL

-----------------------------------------------------------------------------
(* What a step of t leaves alone *)

\* No thread but t moves.
Steady(t) ==
  \A u \in Threads \ {t} :
    /\ pc'[u] = pc[u] /\ end'[u] = end[u] /\ op'[u] = op[u] /\ elt'[u] = elt[u]
    /\ k'[u] = k[u] /\ at'[u] = at[u] /\ saved'[u] = saved[u] /\ side'[u] = side[u]
    /\ inner'[u] = inner[u] /\ outer'[u] = outer[u] /\ peek'[u] = peek[u]

LEMMA CallSteady ==
  ASSUME TypeOK, NEW t \in Threads, Call(t)
  PROVE  Steady(t)
BY DEF TypeOK, Call, Goto, Steady, shared, found, extra

LEMMA OracleSteady ==
  ASSUME TypeOK, NEW t \in Threads, Oracle(t)
  PROVE  Steady(t)
<1> USE DEF TypeOK, Goto, Found, Crash, Steady, request, extra, found
<1>1. CASE OracleHint(t)
  BY <1>1 DEF Oracle, OracleHint
<1>2. CASE OracleOuter(t)
  BY <1>2 DEF Oracle, OracleOuter
<1>3. CASE OracleInner(t)
  BY <1>3 DEF Oracle, OracleInner, StartClimb
<1>4. CASE OraclePeek(t)
  BY <1>4 DEF Oracle, OraclePeek, StartClimb
<1>5. CASE Climb(t)
  BY <1>5 DEF Oracle, Climb
<1>6. CASE ScanOuter(t)
  BY <1>6 DEF Oracle, ScanOuter
<1>7. CASE ScanInner(t)
  BY <1>7 DEF Oracle, ScanInner
<1>8. CASE ScanNext(t)
  BY <1>8 DEF Oracle, ScanNext
<1>9. QED
  BY <1>1, <1>2, <1>3, <1>4, <1>5, <1>6, <1>7, <1>8 DEF Oracle

LEMMA ExchangeSteady ==
  ASSUME TypeOK, NEW t \in Threads, UNCHANGED request,
         NEW p, NEW old, NEW new, NEW label, Exchange(t, p, old, new, label)
  PROVE  Steady(t)
BY DEF TypeOK, Exchange, Goto, Retry, Forget, Steady, request, extra, found

LEMMA BodySteady ==
  ASSUME TypeOK, NEW t \in Threads, Body(t)
  PROVE  Steady(t)
<1>0. UNCHANGED request
  BY DEF Body
<1> USE DEF TypeOK, Goto, Crash, Retry, Return, Forget, Steady, request, extra, found
<1>1. CASE SaveHint(t)
  BY <1>0, <1>1 DEF SaveHint
<1>2. CASE LoadInner(t)
  BY <1>0, <1>2 DEF LoadInner
<1>3. CASE LoadOuter(t)
  BY <1>0, <1>3 DEF LoadOuter
<1>4. CASE Recheck(t)
  BY <1>0, <1>4 DEF Recheck
<1>5. CASE Attach(t)
  BY <1>0, <1>5 DEF Attach
<1>6. CASE Reload(t)
  BY <1>0, <1>6 DEF Reload
<1>7. CASE Peek(t)
  BY <1>0, <1>7 DEF Peek
<1>8. CASE Cas1(t)
  BY <1>0, <1>8, ExchangeSteady DEF Cas1
<1>9. CASE Cas2(t)
  BY <1>0, <1>9, ExchangeSteady DEF Cas2
<1>10. CASE MoveHint(t)
  BY <1>0, <1>10 DEF MoveHint
<1>11. CASE Resize(t)
  BY <1>0, <1>11 DEF Resize
<1>12. QED
  BY <1>1, <1>2, <1>3, <1>4, <1>5, <1>6, <1>7, <1>8, <1>9, <1>10, <1>11 DEF Body

LEMMA OthersSame ==
  ASSUME NEW t \in Threads, Steady(t), NEW u \in Threads, u # t
  PROVE  /\ Attaching(u)' <=> Attaching(u)
         /\ Attaches(u)' <=> Attaches(u)
         /\ Straddles(u)' <=> Straddles(u)
         /\ AtEdge(u)' <=> AtEdge(u)
         /\ Placed(u)' <=> Placed(u)
BY DEF Steady, Attaching, Attaches, Extends, Straddles, Crosses, AtEdge, Placed, Forgotten

\* Nodes that more than one thread may know only ever get newer.
Grows == \A p \in Place : p.buf \in Public => Older(NodeAt(p), mem'[p.buf][p.idx])

LEMMA StraddlesOrAttaches ==
  ASSUME NEW t \in Threads, Straddles(t)
  PROVE  ~Attaching(t)
BY DEF Straddles, Crosses, Attaching, Attaches, Extends

LEMMA OlderTransitive ==
  ASSUME NEW m \in Node, NEW n \in Node, NEW o \in Node, Older(m, n), Older(n, o)
  PROVE  Older(m, o)
BY DEF Older, Node

\* What a thread has loaded is as old as before, or older.
LEMMA LoadedKept ==
  ASSUME MemInv, TypeOK', Grows, NEW u \in Threads,
         end'[u] = end[u], k'[u] = k[u], side'[u] = side[u],
         inner'[u] = inner[u], outer'[u] = outer[u], peek'[u] = peek[u],
         pc'[u] \in {pc[u], "moveHint"} \/ (pc[u] = "cas1" /\ pc'[u] = "cas2")
  PROVE  Loaded(u)'
<1>0. TypeOK /\ Loaded(u) /\ Placed(u) /\ KnowsPublic(u)
  BY DEF MemInv, LoadedOlder, InvPlaced, InvPublic
<1>1. Straddles(u)' <=> Straddles(u)
  BY DEF Straddles, Crosses, AtEdge
<1>2. \A p \in Place : NodeAt(p) \in Node /\ mem'[p.buf][p.idx] \in Node
  BY <1>0, LoadType DEF TypeOK, Place
<1>3. end[u] \in End /\ inner[u] \in Node /\ outer[u] \in Node /\ peek[u] \in Node
  BY <1>0 DEF TypeOK
<1>4. ASSUME NEW p \in Place, p.buf \in Public, NEW m \in Node, Older(m, NodeAt(p))
      PROVE  Older(m, mem'[p.buf][p.idx])
  BY <1>2, <1>4, OlderTransitive DEF Grows
<1>5. pc[u] \notin {"idle", "oracleHint"} =>
        k[u] \in Place /\ k[u].buf \in Public
        /\ In(end[u], k[u]) \in Place /\ In(end[u], k[u]).buf \in Public
  BY <1>0, <1>3, PlaceType, NowherePlace DEF Placed, KnowsPublic, PublicPlace
<1>6. pc[u] \in {"cas1", "cas2"} /\ Straddles(u) =>
        PeekPlace(u) \in Place /\ PeekPlace(u).buf \in Public
  BY <1>0, <1>3, SlotType, StraddlesOrAttaches DEF Placed, KnowsPublic, PeekPlace, Place
<1>7. /\ NodeAt(In(end[u], k[u]))' = mem'[In(end[u], k[u]).buf][In(end[u], k[u]).idx]
      /\ NodeAt(k[u])' = mem'[k[u].buf][k[u].idx]
      /\ NodeAt(PeekPlace(u))' = mem'[PeekPlace(u).buf][PeekPlace(u).idx]
  BY <1>1 DEF NodeAt, PeekPlace
<1>8. QED
  BY <1>0, <1>1, <1>3, <1>4, <1>5, <1>6, <1>7 DEF Loaded

\* The invariant holds again if the threads other than t know no less that is
\* public, and t's own part holds.
LEMMA Assembled ==
  ASSUME MemInv, TypeOK', NEW t \in Threads, Steady(t), Public \subseteq Public', Grows,
         \A e \in End : hint'[e].buf \in Public',
         \A b \in Buffers, i \in Slots : PublicNode(mem[b][i])',
         \A u \in Threads \ {t} : Attaching(u) =>
           side[u] \in heap' /\ (Attaching(t)' => side[u] # side'[t]),
         Attaching(t)' => side'[t] \in heap',
         KnowsPublic(t)', Placed(t)', Loaded(t)'
  PROVE  MemInv'
<1>1. InvPublic'
  <2>1. ASSUME NEW u \in Threads, u # t PROVE KnowsPublic(u)'
    <3>1. KnowsPublic(u) /\ (Attaching(u)' <=> Attaching(u))
      BY <2>1, OthersSame DEF MemInv, InvPublic
    <3>2. QED
      BY <2>1, <3>1 DEF KnowsPublic, PublicPlace, PublicNode, Steady
  <2>2. QED
    BY <2>1 DEF InvPublic
<1>2. InvOwn'
  BY OthersSame DEF InvOwn, MemInv, Steady
<1>3. InvPlaced'
  BY OthersSame DEF InvPlaced, MemInv
<1>4. LoadedOlder'
  BY LoadedKept DEF LoadedOlder, Steady
<1>5. QED
  BY <1>1, <1>2, <1>3, <1>4 DEF MemInv

\* A step that only reads, of a thread that has no buffer of its own.
LEMMA Quiet ==
  ASSUME MemInv, TypeOK', NEW t \in Threads, Steady(t), UNCHANGED <<mem, heap, hint>>,
         ~Attaching(t), ~Attaching(t)',
         PublicPlace(k'[t]), PublicPlace(at'[t]), PublicPlace(saved'[t]),
         PublicNode(inner'[t]), PublicNode(outer'[t]), PublicNode(peek'[t]),
         side'[t] \in Buffers => side'[t] \in Public,
         Placed(t)', Loaded(t)'
  PROVE  MemInv'
<1>1. Public' = Public
  BY OthersSame DEF Public, Steady
<1>2. Grows
  BY DEF Grows, Older, NodeAt
<1>3. KnowsPublic(t)'
  BY <1>1 DEF KnowsPublic, PublicPlace, PublicNode
<1>4. /\ \A e \in End : hint'[e].buf \in Public'
      /\ \A b \in Buffers, i \in Slots : PublicNode(mem[b][i])'
      /\ \A u \in Threads \ {t} : Attaching(u) => side[u] \in heap'
  BY <1>1 DEF MemInv, InvPublic, InvOwn, PublicNode
<1>5. QED
  BY <1>1, <1>2, <1>3, <1>4, Assembled

-----------------------------------------------------------------------------
(* The initial state, and the steps that change no shared node *)

LEMMA MiddleType ==
  ASSUME NEW b \in Buffers
  PROVE  Middle(b) \in [End -> Place] /\ \A e \in End : Middle(b)[e].buf = b
<1>1. D \div 2 - 1 \in Slots /\ D \div 2 \in Slots
  BY DEF Slots
<1>2. QED
  BY <1>1 DEF Middle, Place

LEMMA SplitNodes ==
  ASSUME NEW i \in Slots
  PROVE  Split \in [Slots -> Node] /\ Split[i].value \notin Buffers
BY DEF Split, Blank, Node, Value, LNULL, RNULL

LEMMA InitMemInv == Init => MemInv
<1> SUFFICES ASSUME Init PROVE MemInv
  OBVIOUS
<1>1. TypeOK
  <2>1. mem \in [Buffers -> [Slots -> Node]] /\ heap \in SUBSET Buffers /\ lost \in SUBSET Buffers
    BY SplitNodes, 0 \in Slots DEF Init, Split, Slots
  <2>2. hint \in [End -> Place] /\ size \in Word /\ calls \in 0 .. MaxCalls
    BY MiddleType, ULONGAssumption DEF Init, Word
  <2>3. pc \in [Threads -> PC] /\ end \in [Threads -> End] /\ op \in [Threads -> Op]
    BY DEF Init, PC, End, Op
  <2>4. /\ {k, at, saved} \subseteq [Threads -> Place \cup {Nowhere}]
        /\ {inner, outer, peek} \subseteq [Threads -> Node]
    BY OwnType, LEFT \in End DEF Init, End
  <2>5. /\ elt \in [Threads -> Elts \cup {NULL}]
        /\ side \in [Threads -> Value \cup {NULL}]
        /\ ret \in [Threads -> [stat : {NONE, OK, EMPTY}, val : Value \cup {NULL}]]
    BY DEF Init
  <2>6. QED
    BY <2>1, <2>2, <2>3, <2>4, <2>5 DEF TypeOK
<1>2. \A t \in Threads : ~Attaching(t)
  BY DEF Init, Attaching
<1>3. Public = {Root}
  BY <1>2 DEF Init, Public
<1>4. InvPublic
  BY <1>2, <1>3, MiddleType, SplitNodes, OwnType, LEFT \in End
     DEF InvPublic, Init, KnowsPublic, PublicPlace, PublicNode, End, NULL
<1>5. InvOwn /\ InvPlaced /\ LoadedOlder
  BY <1>2 DEF Init, InvOwn, InvPlaced, Placed, Forgotten, LoadedOlder, Loaded
<1>6. QED
  BY <1>1, <1>4, <1>5 DEF MemInv

\* What the invariant says of a step's thread.
LEMMA Knowledge ==
  ASSUME MemInv, NEW t \in Threads
  PROVE  /\ TypeOK /\ Placed(t) /\ Loaded(t) /\ KnowsPublic(t)
         /\ pc[t] \in PC /\ end[t] \in End /\ op[t] \in Op
         /\ inner[t] \in Node /\ outer[t] \in Node /\ peek[t] \in Node
         /\ hint[end[t]] \in Place /\ PublicPlace(hint[end[t]])
         /\ \A p \in Place : NodeAt(p) \in Node /\ PublicNode(NodeAt(p))
BY LoadType DEF MemInv, InvPlaced, LoadedOlder, InvPublic, TypeOK, PublicPlace, NodeAt, Place

LEMMA CallMem ==
  ASSUME MemInv, NEW t \in Threads, Call(t)
  PROVE  MemInv'
<1>1. Steady(t) /\ KnowsPublic(t) /\ TypeOK
  BY CallSteady, Knowledge
<1>2. TypeOK'
  BY <1>1 DEF TypeOK, Call, Goto, shared, store, found, extra, PC, End, Op, NONE, NULL, PUSH
<1>3. pc'[t] = "oracleHint" /\ pc[t] = "idle" /\ UNCHANGED <<mem, heap, hint, found, at, extra>>
  BY <1>1 DEF Call, Goto, TypeOK, shared, store
<1>4. ~Attaching(t) /\ ~Attaching(t)' /\ Loaded(t)'
  BY <1>3 DEF Attaching, Loaded
<1>5. Placed(t)'
  <2>1. op'[t] = PUSH => elt'[t] \in Elts
    BY <1>1 DEF Call, TypeOK, End, Op
  <2>2. QED
    BY <1>3, <2>1 DEF Placed
<1>6. QED
  BY <1>1, <1>2, <1>3, <1>4, <1>5, Quiet DEF KnowsPublic, found, extra

-----------------------------------------------------------------------------
(* The oracles *)

Searching == {"oracleHint", "oracleOuter", "oracleInner", "oraclePeek",
              "climb", "scanOuter", "scanInner", "scanNext"}

\* What a step of the oracle leaves to show.
LEMMA Searched ==
  ASSUME MemInv, NEW t \in Threads, Steady(t),
         UNCHANGED <<shared, request, extra, ret, calls, lost>>,
         pc[t] \in Searching, pc'[t] \in Searching \cup {"saveHint", "crashed"},
         pc' \in [Threads -> PC], {k', at'} \subseteq [Threads -> Place \cup {Nowhere}],
         {inner', outer'} \subseteq [Threads -> Node],
         k'[t] \in Place, PublicPlace(k'[t]), PublicPlace(at'[t]),
         pc'[t] \in {"climb", "scanOuter", "scanInner", "scanNext"} => at'[t] \in Place,
         PublicNode(inner'[t]), PublicNode(outer'[t])
  PROVE  MemInv'
<1>1. TypeOK /\ Placed(t) /\ KnowsPublic(t)
  BY Knowledge
<1>2. TypeOK'
  BY <1>1 DEF TypeOK, shared, store, request, extra
<1>3. ~Attaching(t) /\ ~Attaching(t)' /\ Loaded(t)'
  BY DEF Attaching, Loaded, Searching
<1>4. Placed(t)'
  BY <1>1 DEF Placed, Searching, request
<1>5. QED
  BY <1>1, <1>2, <1>3, <1>4, Quiet DEF KnowsPublic, shared, store, extra

\* A value read from memory that is a buffer may be followed.
LEMMA Followed ==
  ASSUME MemInv, NEW p \in Place, NodeAt(p).value \in Buffers, NEW i \in Slots
  PROVE  /\ [buf |-> NodeAt(p).value, idx |-> i] \in Place
         /\ PublicPlace([buf |-> NodeAt(p).value, idx |-> i])
<1>1. PublicNode(NodeAt(p))
  BY DEF MemInv, InvPublic, NodeAt, Place
<1>2. QED
  BY <1>1 DEF PublicNode, PublicPlace, Place

LEMMA OracleMem ==
  ASSUME MemInv, NEW t \in Threads, Oracle(t)
  PROVE  MemInv'
<1>0. /\ TypeOK /\ Placed(t) /\ KnowsPublic(t) /\ Steady(t) /\ end[t] \in End
      /\ UNCHANGED <<shared, request, extra, ret, calls, lost>>
      /\ hint[end[t]] \in Place /\ PublicPlace(hint[end[t]])
      /\ \A p \in Place : NodeAt(p) \in Node /\ PublicNode(NodeAt(p))
  BY Knowledge, OracleSteady DEF Oracle
<1>1. /\ pc \in [Threads -> PC] /\ {k, at} \subseteq [Threads -> Place \cup {Nowhere}]
      /\ {inner, outer} \subseteq [Threads -> Node]
  BY <1>0 DEF TypeOK
<1>2. /\ Junk \in Node /\ PublicNode(Junk) /\ PublicPlace(Nowhere)
      /\ {"saveHint", "crashed"} \cup Searching \subseteq PC
  BY OwnType, <1>0 DEF PublicNode, PublicPlace, PC, Searching
<1>3. /\ PublicPlace(k[t]) /\ PublicPlace(at[t]) /\ PublicNode(inner[t]) /\ PublicNode(outer[t])
      /\ pc[t] \notin {"idle", "oracleHint"} => k[t] \in Place
      /\ pc[t] \in {"climb", "scanOuter", "scanInner", "scanNext"} => at[t] \in Place
  BY <1>0 DEF KnowsPublic, Placed
<1>4. \A p \in Place : In(end[t], p) \in Place /\ (PublicPlace(p) => PublicPlace(In(end[t], p)))
  BY <1>0, PlaceType, NowherePlace DEF PublicPlace
<1>5. ASSUME k[t] \in Place, StartClimb(t), pc[t] \in Searching PROVE MemInv'
  <2>1. [buf |-> k[t].buf, idx |-> Rim(end[t])] \in Place
    BY <1>0, <1>5, SlotType DEF Place
  <2>2. PublicPlace([buf |-> k[t].buf, idx |-> Rim(end[t])])
    BY <1>3, <1>5, NowherePlace DEF PublicPlace
  <2>3. QED
    BY <1>0, <1>1, <1>2, <1>3, <1>5, <2>1, <2>2, Searched DEF StartClimb, Goto, Searching
<1>6. ASSUME NEW p \in Place, PublicPlace(p), Found(t, p), pc[t] \in Searching PROVE MemInv'
  BY <1>0, <1>1, <1>2, <1>6, Searched DEF Found, Goto
<1>7. ASSUME Crash(t), UNCHANGED <<found, at>>, pc[t] \in Searching \ {"oracleHint"} PROVE MemInv'
  BY <1>0, <1>1, <1>2, <1>3, <1>7, Searched DEF Crash, Goto, found, Searching
<1>8. CASE OracleHint(t)
  BY <1>0, <1>1, <1>2, <1>3, <1>8, Searched DEF OracleHint, Goto, Searching
<1>9. CASE OracleOuter(t)
  BY <1>0, <1>1, <1>2, <1>3, <1>9, Searched DEF OracleOuter, Goto, Searching
<1>10. CASE OracleInner(t)
  <2>1. k[t] \in Place /\ pc[t] \in Searching
    BY <1>3, <1>10 DEF OracleInner, Searching
  <2>2. CASE StartClimb(t) \/ Found(t, k[t])
    BY <1>3, <1>5, <1>6, <2>1, <2>2
  <2>3. CASE Goto(t, "oraclePeek") /\ UNCHANGED <<found, at>>
    BY <1>0, <1>1, <1>2, <1>3, <2>1, <2>3, Searched DEF Goto, found, Searching
  <2>4. QED
    BY <1>10, <2>2, <2>3 DEF OracleInner
<1>11. CASE OraclePeek(t)
  BY <1>3, <1>5, <1>6, <1>7, <1>11 DEF OraclePeek, Searching
<1>12. CASE Climb(t)
  <2>1. k[t] \in Place /\ at[t] \in Place /\ pc[t] \in Searching \ {"oracleHint"}
    BY <1>3, <1>12 DEF Climb, Searching
  <2>2. CASE Goto(t, "scanOuter") /\ UNCHANGED at /\ UNCHANGED found
    BY <1>0, <1>1, <1>2, <1>3, <2>1, <2>2, Searched DEF Goto, found, Searching
  <2>3. CASE /\ NodeAt(at[t]).value \in Buffers
             /\ at' = [at EXCEPT ![t].buf = NodeAt(at[t]).value]
             /\ UNCHANGED pc /\ UNCHANGED found
    <3>1. at' = [at EXCEPT ![t] = [buf |-> NodeAt(at[t]).value, idx |-> at[t].idx]]
      <4>1. [at[t] EXCEPT !.buf = NodeAt(at[t]).value]
              = [buf |-> NodeAt(at[t]).value, idx |-> at[t].idx]
        BY <2>1 DEF Place
      <4>2. at' = [at EXCEPT ![t] = [at[t] EXCEPT !.buf = NodeAt(at[t]).value]]
        BY <2>3
      <4>3. QED
        BY <4>1, <4>2
    <3>2. /\ at'[t] \in Place /\ PublicPlace(at'[t])
          /\ at' \in [Threads -> Place \cup {Nowhere}]
      BY <1>1, <2>1, <2>3, <3>1, Followed DEF Place
    <3>3. QED
      BY <1>0, <1>1, <1>2, <1>3, <2>1, <2>3, <3>2, Searched DEF found, Searching
  <2>4. CASE Crash(t) /\ UNCHANGED at /\ UNCHANGED found
    BY <1>7, <2>1, <2>4
  <2>5. QED
    BY <1>12, <2>2, <2>3, <2>4 DEF Climb
<1>13. CASE ScanOuter(t)
  BY <1>0, <1>1, <1>2, <1>3, <1>13, Searched DEF ScanOuter, Goto, Searching
<1>14. CASE ScanInner(t)
  <2>1. k[t] \in Place /\ at[t] \in Place /\ pc[t] \in Searching
    BY <1>3, <1>14 DEF ScanInner, Searching
  <2>2. CASE Found(t, at[t])
    BY <1>3, <1>6, <2>1, <2>2
  <2>3. CASE /\ at' = [at EXCEPT ![t] = In(end[t], at[t])]
             /\ outer' = [outer EXCEPT ![t] = Junk]
             /\ (Goto(t, "scanNext") \/ Goto(t, "scanOuter"))
             /\ UNCHANGED <<k, inner>>
    BY <1>0, <1>1, <1>2, <1>3, <1>4, <2>1, <2>3, Searched DEF Goto, Searching
  <2>4. QED
    BY <1>14, <2>2, <2>3 DEF ScanInner
<1>15. CASE ScanNext(t)
  <2>1. k[t] \in Place /\ at[t] \in Place /\ pc[t] \in Searching \ {"oracleHint"}
    BY <1>3, <1>15 DEF ScanNext, Searching
  <2>2. CASE Found(t, k[t]) \/ (Crash(t) /\ UNCHANGED <<found, at>>)
    BY <1>3, <1>6, <1>7, <2>1, <2>2
  <2>3. CASE /\ NodeAt(at[t]).value \in Buffers
             /\ at' = [at EXCEPT ![t] = [buf |-> NodeAt(at[t]).value, idx |-> Rim(end[t])]]
             /\ Goto(t, "scanOuter") /\ UNCHANGED found
    <3>1. /\ at'[t] \in Place /\ PublicPlace(at'[t])
          /\ at' \in [Threads -> Place \cup {Nowhere}]
      BY <1>0, <1>1, <2>1, <2>3, Followed, SlotType
    <3>2. QED
      BY <1>0, <1>1, <1>2, <1>3, <2>1, <2>3, <3>1, Searched DEF Goto, found, Searching
  <2>4. QED
    BY <1>15, <2>2, <2>3 DEF ScanNext
<1>16. QED
  BY <1>8, <1>9, <1>10, <1>11, <1>12, <1>13, <1>14, <1>15 DEF Oracle

-----------------------------------------------------------------------------
(* The steps of an operation that change no node *)

LEMMA ForgetType ==
  ASSUME TypeOK, NEW t \in Threads, Forget(t)
  PROVE  /\ {k', at', saved'} \subseteq [Threads -> Place \cup {Nowhere}]
         /\ {inner', outer', peek'} \subseteq [Threads -> Node]
         /\ side' \in [Threads -> Value \cup {NULL}]
         /\ Forgotten(t)'
<1>1. Junk \in Node
  BY OwnType, LEFT \in End DEF End
<1>2. QED
  BY <1>1 DEF TypeOK, Forget, Forgotten

\* An operation starts over or returns.
LEMMA Restarted ==
  ASSUME MemInv, TypeOK', NEW t \in Threads, Steady(t), UNCHANGED <<mem, heap, hint, request>>,
         ~Attaching(t), pc[t] # "idle", Forget(t), pc'[t] \in {"idle", "oracleHint"}
  PROVE  MemInv'
<1>1. TypeOK /\ Placed(t)
  BY Knowledge
<1>2. Forgotten(t)'
  BY <1>1, ForgetType
<1>3. ~Attaching(t)' /\ Loaded(t)' /\ Placed(t)'
  BY <1>1, <1>2 DEF Attaching, Loaded, Placed, request
<1>4. Junk.value \notin Buffers /\ NULL \notin Buffers
  BY OwnType, LEFT \in End DEF End
<1>5. QED
  BY <1>2, <1>3, <1>4, Quiet DEF Forgotten, PublicPlace, PublicNode

\* The types of the variables that every step of an operation leaves alone.
LEMMA RequestType ==
  ASSUME TypeOK, NEW t \in Threads, Body(t)
  PROVE  /\ end' \in [Threads -> End] /\ op' \in [Threads -> Op]
         /\ elt' \in [Threads -> Elts \cup {NULL}]
         /\ calls' \in 0 .. MaxCalls /\ lost' \in SUBSET Buffers
         /\ UNCHANGED request
BY DEF TypeOK, Body, request

LEMMA SaveHintMem ==
  ASSUME MemInv, NEW t \in Threads, Body(t), SaveHint(t)
  PROVE  MemInv'
<1>1. TypeOK /\ Placed(t) /\ KnowsPublic(t) /\ Steady(t) /\ UNCHANGED request
  BY Knowledge, BodySteady, RequestType
<1>2. TypeOK'
  BY <1>1, RequestType DEF TypeOK, SaveHint, Goto, PC, shared, store, found
<1>3. /\ pc[t] = "saveHint" /\ pc'[t] = "loadInner" /\ saved'[t] = hint[end[t]]
      /\ UNCHANGED <<mem, heap, hint, k, at, inner, outer, side, peek>>
  BY <1>1 DEF SaveHint, Goto, TypeOK, shared, store, found
<1>4. ~Attaching(t) /\ ~Attaching(t)' /\ Loaded(t)' /\ Placed(t)'
  BY <1>1, <1>3 DEF Attaching, Loaded, Placed, request
<1>5. PublicPlace(saved'[t])
  BY <1>3, Knowledge
<1>6. QED
  BY <1>1, <1>2, <1>3, <1>4, <1>5, Quiet DEF KnowsPublic

LEMMA LoadInnerMem ==
  ASSUME MemInv, NEW t \in Threads, Body(t), LoadInner(t)
  PROVE  MemInv'
<1>1. /\ TypeOK /\ Placed(t) /\ KnowsPublic(t) /\ Steady(t) /\ UNCHANGED request
      /\ end[t] \in End
  BY Knowledge, BodySteady, RequestType
<1>2. k[t] \in Place /\ In(end[t], k[t]) \in Place
  BY <1>1, PlaceType DEF LoadInner, Placed
<1>3. NodeAt(In(end[t], k[t])) \in Node /\ PublicNode(NodeAt(In(end[t], k[t])))
  BY <1>2, Knowledge
<1>4. TypeOK'
  BY <1>1, <1>3, RequestType DEF TypeOK, LoadInner, Goto, PC, shared, store, extra
<1>5. /\ pc[t] = "loadInner" /\ pc'[t] = "loadOuter" /\ inner'[t] = NodeAt(In(end[t], k[t]))
      /\ UNCHANGED <<mem, heap, hint, k, at, outer, side, peek, saved>>
  BY <1>1 DEF LoadInner, Goto, TypeOK, shared, store, extra
<1>6. ~Attaching(t) /\ ~Attaching(t)' /\ Loaded(t)' /\ Placed(t)'
  BY <1>1, <1>5 DEF Attaching, Loaded, Placed, request, Older, NodeAt
<1>7. QED
  BY <1>1, <1>3, <1>4, <1>5, <1>6, Quiet DEF KnowsPublic

LEMMA LoadOuterMem ==
  ASSUME MemInv, NEW t \in Threads, Body(t), LoadOuter(t)
  PROVE  MemInv'
<1> DEFINE e == end[t]
<1> DEFINE n == NodeAt(k[t])
<1>1. /\ TypeOK /\ Placed(t) /\ KnowsPublic(t) /\ Loaded(t) /\ Steady(t) /\ UNCHANGED request
      /\ e \in End /\ op[t] \in Op /\ pc[t] = "loadOuter"
  BY Knowledge, BodySteady, RequestType DEF LoadOuter
<1>2. k[t] \in Place
  BY <1>1 DEF Placed
<1>3. n \in Node /\ PublicNode(n) /\ ~Attaching(t)
  BY <1>1, <1>2, Knowledge DEF Attaching
<1>4. CASE Retry(t) /\ UNCHANGED shared
  <2>1. TypeOK'
    BY <1>1, <1>4, RequestType, ForgetType DEF TypeOK, Retry, Goto, PC, shared, store
  <2>2. QED
    BY <1>1, <1>3, <1>4, <2>1, Restarted DEF Retry, Goto, TypeOK, shared, store
<1>5. CASE /\ outer' = [outer EXCEPT ![t] = n]
           /\ side' = [side EXCEPT ![t] = IF Crosses(t, n) THEN n.value ELSE NULL]
           /\ Goto(t, IF op[t] = POP /\ inner[t].value = Other(e) THEN "recheck"
                      ELSE IF Extends(t, n) THEN "attach"
                      ELSE IF ~Crosses(t, n) THEN "cas1"
                      ELSE IF Reloads(t) THEN "reload" ELSE "peek")
           /\ UNCHANGED <<k, at, inner, saved, peek, ret, shared>>
  <2>1. pc'[t] = IF op[t] = POP /\ inner[t].value = Other(e) THEN "recheck"
                 ELSE IF Extends(t, n) THEN "attach"
                 ELSE IF ~Crosses(t, n) THEN "cas1"
                 ELSE IF Reloads(t) THEN "reload" ELSE "peek"
    BY <1>1, <1>5 DEF Goto, TypeOK
  <2>2. pc' \in [Threads -> PC]
    BY <1>1, <1>5 DEF Goto, TypeOK, PC
  <2>3. outer'[t] = n /\ side'[t] = IF Crosses(t, n) THEN n.value ELSE NULL
    BY <1>1, <1>5 DEF TypeOK
  <2>4. /\ outer' \in [Threads -> Node] /\ side' \in [Threads -> Value \cup {NULL}]
    BY <1>1, <1>3, <1>5 DEF TypeOK, Node
  <2>5. TypeOK'
    BY <1>1, <1>5, <2>2, <2>4, RequestType DEF TypeOK, shared, store
  <2>6. (Attaches(t)' <=> Extends(t, n)) /\ (Straddles(t)' <=> Crosses(t, n))
    BY <1>1, <1>5, <2>3 DEF Attaches, Extends, Straddles, Crosses, AtEdge, request
  <2>7. ~Attaching(t)' /\ (Straddles(t)' => pc'[t] \notin {"cas1", "cas2"})
    BY <2>1, <2>6 DEF Attaching, Extends, Crosses
  <2>8. Loaded(t)'
    BY <1>1, <1>5, <2>1, <2>3, <2>7 DEF Loaded, NodeAt, Older, shared, store, request
  <2>9. Placed(t)'
    BY <1>1, <1>2, <1>5, <2>1, <2>6, <2>7 DEF Placed, request
  <2>10. side'[t] \in Buffers => side'[t] \in Public
    BY <1>3, <2>3 DEF PublicNode
  <2>11. QED
    BY <1>1, <1>3, <1>5, <2>3, <2>5, <2>7, <2>8, <2>9, <2>10, Quiet
       DEF KnowsPublic, shared, store
<1>6. QED
  BY <1>4, <1>5 DEF LoadOuter

LEMMA RecheckMem ==
  ASSUME MemInv, NEW t \in Threads, Body(t), Recheck(t)
  PROVE  MemInv'
<1>1. /\ TypeOK /\ Placed(t) /\ KnowsPublic(t) /\ Loaded(t) /\ Steady(t) /\ UNCHANGED request
      /\ pc[t] = "recheck" /\ op[t] = POP /\ UNCHANGED shared /\ ~Attaching(t)
  BY Knowledge, BodySteady, RequestType DEF Recheck, Placed, Attaching
<1>2. CASE Return(t, EMPTY, NULL)
  <2>1. TypeOK'
    BY <1>1, <1>2, RequestType, ForgetType DEF TypeOK, Return, Goto, PC, shared, store
  <2>2. QED
    BY <1>1, <1>2, <2>1, Restarted DEF Return, Goto, TypeOK, shared, store
<1>3. CASE /\ Goto(t, IF Straddles(t) THEN "peek" ELSE "cas1")
           /\ UNCHANGED <<found, at, extra, ret>>
  <2>1. TypeOK'
    BY <1>1, <1>3, RequestType DEF TypeOK, Goto, PC, shared, store, found, extra
  <2>2. pc'[t] = (IF Straddles(t) THEN "peek" ELSE "cas1") /\ (Straddles(t)' <=> Straddles(t))
    BY <1>1, <1>3 DEF Goto, TypeOK, found, request, Straddles, Crosses, AtEdge
  <2>3. ~Attaching(t)'
    BY <1>1, POP # PUSH DEF Attaching, Attaches, Extends, request, POP, PUSH
  <2>4. Loaded(t)' /\ Placed(t)'
    BY <1>1, <1>3, <2>2 DEF Loaded, Placed, NodeAt, shared, store, found, extra, request, POP, PUSH
  <2>5. QED
    BY <1>1, <1>3, <2>1, <2>3, <2>4, Quiet DEF KnowsPublic, shared, store, found, extra
<1>4. QED
  BY <1>2, <1>3 DEF Recheck

LEMMA ReloadMem ==
  ASSUME MemInv, NEW t \in Threads, Body(t), Reload(t)
  PROVE  MemInv'
<1>1. /\ TypeOK /\ Placed(t) /\ KnowsPublic(t) /\ Loaded(t) /\ Steady(t) /\ UNCHANGED request
      /\ pc[t] = "reload" /\ Straddles(t) /\ k[t] \in Place /\ ~Attaching(t)
  BY Knowledge, BodySteady, RequestType DEF Reload, Placed, Attaching
<1>2. NodeAt(k[t]) \in Node /\ PublicNode(NodeAt(k[t]))
  BY <1>1, Knowledge
<1>3. TypeOK'
  BY <1>1, <1>2, RequestType DEF TypeOK, Reload, Goto, PC, shared, store, found, Node
<1>4. /\ pc'[t] = "peek" /\ side'[t] = NodeAt(k[t]).value /\ Straddles(t)'
      /\ UNCHANGED <<mem, heap, hint, k, at, inner, outer, peek, saved>>
  BY <1>1 DEF Reload, Goto, TypeOK, shared, store, found, Straddles, Crosses, AtEdge, request
<1>5. ~Attaching(t)' /\ Loaded(t)' /\ Placed(t)'
  BY <1>1, <1>4 DEF Attaching, Loaded, Placed, NodeAt, request
<1>6. side'[t] \in Buffers => side'[t] \in Public
  BY <1>2, <1>4 DEF PublicNode
<1>7. QED
  BY <1>1, <1>3, <1>4, <1>5, <1>6, Quiet DEF KnowsPublic

LEMMA PeekMem ==
  ASSUME MemInv, NEW t \in Threads, Body(t), Peek(t)
  PROVE  MemInv'
<1>1. /\ TypeOK /\ Placed(t) /\ KnowsPublic(t) /\ Loaded(t) /\ Steady(t) /\ UNCHANGED request
      /\ pc[t] = "peek" /\ Straddles(t) /\ k[t] \in Place /\ ~Attaching(t) /\ UNCHANGED shared
      /\ end[t] \in End
  BY Knowledge, BodySteady, RequestType DEF Peek, Placed, Attaching
<1>2. CASE Crash(t) /\ UNCHANGED <<found, at, extra, ret>>
  <2>1. TypeOK'
    BY <1>1, <1>2, RequestType DEF TypeOK, Crash, Goto, PC, shared, store, found, extra
  <2>2. pc'[t] = "crashed"
    BY <1>1, <1>2 DEF Crash, Goto, TypeOK
  <2>3. ~Attaching(t)' /\ Loaded(t)' /\ Placed(t)'
    BY <1>1, <1>2, <2>2 DEF Attaching, Loaded, Placed, request, found
  <2>4. QED
    BY <1>1, <1>2, <2>1, <2>3, Quiet DEF KnowsPublic, shared, store, found, extra
<1>3. CASE Retry(t)
  <2>1. TypeOK'
    BY <1>1, <1>3, RequestType, ForgetType DEF TypeOK, Retry, Goto, PC, shared, store
  <2>2. QED
    BY <1>1, <1>3, <2>1, Restarted DEF Retry, Goto, TypeOK, shared, store
<1>4. CASE /\ side[t] \in Buffers
           /\ peek' = [peek EXCEPT ![t] = NodeAt(PeekPlace(t))]
           /\ Goto(t, "cas1")
           /\ UNCHANGED <<found, at, saved, side, ret>>
  <2>1. PeekPlace(t) \in Place
    BY <1>1, <1>4, SlotType DEF PeekPlace, Place
  <2>2. NodeAt(PeekPlace(t)) \in Node /\ PublicNode(NodeAt(PeekPlace(t)))
    BY <2>1, Knowledge
  <2>3. TypeOK'
    BY <1>1, <1>4, <2>2, RequestType DEF TypeOK, Goto, PC, shared, store, found
  <2>4. pc'[t] = "cas1" /\ peek'[t] = NodeAt(PeekPlace(t)) /\ Straddles(t)'
    BY <1>1, <1>4 DEF Goto, TypeOK, found, Straddles, Crosses, AtEdge, request
  <2>5. ~Attaching(t)'
    BY <2>4 DEF Attaching, Attaches, Extends, Straddles, Crosses
  <2>6. Loaded(t)' /\ Placed(t)'
    BY <1>1, <1>4, <2>4 DEF Loaded, Placed, Older, NodeAt, PeekPlace, shared, store, found, request
  <2>7. QED
    BY <1>1, <1>4, <2>2, <2>3, <2>4, <2>5, <2>6, Quiet DEF KnowsPublic, shared, store, found
<1>5. QED
  BY <1>2, <1>3, <1>4 DEF Peek

LEMMA ResizeMem ==
  ASSUME MemInv, NEW t \in Threads, Body(t), Resize(t)
  PROVE  MemInv'
<1>1. /\ TypeOK /\ Placed(t) /\ Steady(t) /\ UNCHANGED request /\ inner[t] \in Node
      /\ pc[t] = "resize" /\ ~Attaching(t)
  BY Knowledge, BodySteady, RequestType DEF Resize, Attaching
<1>2. size' \in Word
  <2>1. PICK n \in Int : size' = n % ULONG
    BY <1>1 DEF Resize, Resized, TypeOK, Word
  <2>2. QED
    BY <2>1, ULONGAssumption DEF Word
<1>3. /\ ret' \in [Threads -> [stat : {NONE, OK, EMPTY}, val : Value \cup {NULL}]]
      /\ pc' \in [Threads -> PC] /\ UNCHANGED <<mem, heap, hint>>
  BY <1>1 DEF Resize, Return, Goto, TypeOK, Node, PC, store
<1>4. Forget(t) /\ pc'[t] = "idle"
  BY <1>1 DEF Resize, Return, Goto, TypeOK
<1>5. TypeOK'
  BY <1>1, <1>2, <1>3, <1>4, RequestType, ForgetType DEF TypeOK
<1>6. QED
  BY <1>1, <1>3, <1>4, <1>5, Restarted

-----------------------------------------------------------------------------
(* The two exchanges *)

\* A successful exchange makes its node newer, and what it stores is public.
LEMMA ExchangeHit ==
  ASSUME MemInv, NEW t \in Threads, Body(t), UNCHANGED <<hint, size>>,
         NEW p \in Place, p.buf \in Public, NEW old \in Node, Unchanged(p, old),
         NEW new \in Node, new.count = old.count + 1,
         mem' = [mem EXCEPT ![p.buf][p.idx] = new],
         UNCHANGED <<heap, found, at, extra, ret>>,
         NEW label, Goto(t, label),
         \/ label = "cas2" /\ pc[t] = "cas1" /\ PublicNode(new)
         \/ /\ label = "moveHint" /\ pc[t] = "cas2"
            /\ PublicNode(new) \/ (Attaching(t) /\ new.value = side[t])
  PROVE  MemInv'
<1>1. /\ TypeOK /\ Placed(t) /\ KnowsPublic(t) /\ Steady(t) /\ UNCHANGED request
      /\ op[t] \in Op
  BY Knowledge, BodySteady, RequestType
<1>2. p.buf \in Buffers /\ p.idx \in Slots
  BY DEF Place
<1>3. TypeOK'
  <2>1. mem' \in [Buffers -> [Slots -> Node]]
    BY <1>1, <1>2 DEF TypeOK
  <2>2. pc' \in [Threads -> PC]
    BY <1>1 DEF Goto, TypeOK, PC
  <2>3. QED
    BY <1>1, <2>1, <2>2, RequestType DEF TypeOK, found, extra
<1>4. /\ pc'[t] = label /\ k'[t] = k[t] /\ at'[t] = at[t] /\ saved'[t] = saved[t]
      /\ inner'[t] = inner[t] /\ outer'[t] = outer[t] /\ peek'[t] = peek[t]
      /\ side'[t] = side[t] /\ end'[t] = end[t] /\ op'[t] = op[t] /\ elt'[t] = elt[t]
  BY <1>1 DEF Goto, TypeOK, found, extra, request
<1>5. (Attaches(t)' <=> Attaches(t)) /\ (Straddles(t)' <=> Straddles(t))
  BY <1>4 DEF Attaches, Extends, Straddles, Crosses, AtEdge
<1>6. /\ Attaching(t)' <=> Attaching(t) /\ label = "cas2"
      /\ Attaching(t) <=> Attaches(t)
  BY <1>4, <1>5 DEF Attaching
<1>7. Public \subseteq Public' /\ (Attaching(t) /\ label = "moveHint" => side[t] \in Public')
  <2>1. \A u \in Threads : Attaching(u)' => Attaching(u) /\ side'[u] = side[u]
    BY <1>1, <1>4, <1>6, OthersSame DEF Steady
  <2>2. Public \subseteq Public'
    BY <2>1 DEF Public
  <2>3. ASSUME Attaching(t), label = "moveHint" PROVE side[t] \in Public'
    <3>1. side[t] \in heap /\ \A u \in Threads : Attaching(u) /\ side[u] = side[t] => u = t
      BY <2>3 DEF MemInv, InvOwn
    <3>2. \A u \in Threads : Attaching(u)' => side'[u] # side[t]
      BY <1>6, <2>1, <2>3, <3>1
    <3>3. QED
      BY <3>1, <3>2 DEF Public
  <2>4. QED
    BY <2>2, <2>3
<1>8. Grows
  <2>1. \A q \in Place : NodeAt(q) \in Node
    BY <1>1, LoadType
  <2>2. ASSUME NEW q \in Place PROVE mem'[q.buf][q.idx] = IF q.buf = p.buf /\ q.idx = p.idx
                                                          THEN new ELSE NodeAt(q)
    BY <1>1, <1>2 DEF TypeOK, NodeAt, Place
  <2>3. NodeAt(p) = old
    BY DEF Unchanged
  <2>4. \A q \in Place : Older(NodeAt(q), mem'[q.buf][q.idx])
    BY <2>1, <2>2, <2>3 DEF Older, Node, NodeAt
  <2>5. QED
    BY <2>4 DEF Grows
<1>9. PublicNode(new)'
  BY <1>7 DEF PublicNode
<1>10. \A b \in Buffers, i \in Slots : PublicNode(mem[b][i])'
  <2>1. ASSUME NEW b \in Buffers, NEW i \in Slots
        PROVE  mem'[b][i] = new \/ mem'[b][i] = mem[b][i]
    BY <1>1, <1>2 DEF TypeOK
  <2>2. QED
    BY <1>7, <1>9, <2>1 DEF MemInv, InvPublic, PublicNode
<1>11. KnowsPublic(t)'
  BY <1>1, <1>4, <1>6, <1>7 DEF KnowsPublic, PublicPlace, PublicNode
<1>12. Placed(t)'
  <2>1. ASSUME label = "moveHint", op[t] = PUSH, AtEdge(t) PROVE side[t] \in Buffers
    <3>1. Attaching(t) => side[t] \in Buffers
      BY <1>1 DEF MemInv, InvOwn, TypeOK
    <3>2. Attaching(t) \/ Straddles(t)
      BY <1>6, <2>1 DEF Attaches, Straddles, Crosses, Extends
    <3>3. QED
      BY <1>1, <2>1, <3>1, <3>2 DEF Placed
  <2>2. QED
    BY <1>1, <1>4, <1>5, <2>1 DEF Placed, AtEdge
<1>13. Loaded(t)'
  BY <1>3, <1>4, <1>8, LoadedKept
<1>14. /\ \A e \in End : hint'[e].buf \in Public'
       /\ \A u \in Threads \ {t} : Attaching(u) => side[u] \in heap' /\ (Attaching(t)' => side[u] # side'[t])
       /\ Attaching(t)' => side'[t] \in heap'
  BY <1>4, <1>6, <1>7 DEF MemInv, InvPublic, InvOwn
<1>15. QED
  BY <1>1, <1>3, <1>7, <1>8, <1>10, <1>11, <1>12, <1>13, <1>14, Assembled

\* A failed exchange frees the buffer that was to be attached, which nobody
\* else knows.
LEMMA ExchangeMiss ==
  ASSUME MemInv, NEW t \in Threads, Body(t), UNCHANGED <<hint, size>>,
         pc[t] \in {"cas1", "cas2"}, Retry(t),
         IF Attaches(t) THEN Discard(t) ELSE UNCHANGED store
  PROVE  MemInv'
<1>1. /\ TypeOK /\ Placed(t) /\ KnowsPublic(t) /\ Steady(t) /\ UNCHANGED request
  BY Knowledge, BodySteady, RequestType
<1>2. Attaching(t) <=> Attaches(t)
  BY DEF Attaching
<1>3. pc' \in [Threads -> PC] /\ pc'[t] = "oracleHint" /\ Forget(t) /\ UNCHANGED ret
  BY <1>1 DEF Retry, Goto, TypeOK, PC
<1>4. CASE ~Attaches(t)
  <2>1. TypeOK'
    BY <1>1, <1>3, <1>4, RequestType, ForgetType DEF TypeOK, store
  <2>2. QED
    BY <1>1, <1>2, <1>3, <1>4, <2>1, Restarted DEF store
<1>5. CASE Attaches(t)
  <2>1. /\ heap' = heap \ {side[t]} /\ mem' = [mem EXCEPT ![side[t]] = Split]
        /\ side[t] \in heap /\ side[t] \in Buffers
        /\ \A u \in Threads : Attaching(u) /\ side[u] = side[t] => u = t
    BY <1>1, <1>2, <1>5 DEF Discard, MemInv, InvOwn, TypeOK
  <2>2. ~Attaching(t)' /\ Forgotten(t)'
    BY <1>1, <1>3, ForgetType DEF Attaching
  <2>3. Public' = Public /\ side[t] \notin Public
    BY <1>1, <1>2, <1>5, <2>1, <2>2, OthersSame DEF Public, Steady
  <2>4. TypeOK'
    <3>1. mem' \in [Buffers -> [Slots -> Node]]
      BY <1>1, <2>1, SplitNodes, 0 \in Slots DEF TypeOK, Slots, Split
    <3>2. QED
      BY <1>1, <1>3, <2>1, <3>1, RequestType, ForgetType DEF TypeOK
  <2>5. \A b \in Buffers, i \in Slots : b # side[t] => mem'[b][i] = mem[b][i]
    BY <1>1, <2>1 DEF TypeOK
  <2>6. Grows
    BY <2>3, <2>5 DEF Grows, Older, NodeAt, Place
  <2>7. \A b \in Buffers, i \in Slots : PublicNode(mem[b][i])'
    <3>1. \A i \in Slots : mem'[side[t]][i].value \notin Buffers
      BY <1>1, <2>1, SplitNodes DEF TypeOK
    <3>2. QED
      BY <2>3, <2>5, <3>1 DEF MemInv, InvPublic, PublicNode
  <2>8. KnowsPublic(t)' /\ Placed(t)' /\ Loaded(t)'
    <3>1. Junk.value \notin Buffers /\ NULL \notin Buffers
      BY OwnType, LEFT \in End DEF End
    <3>2. op'[t] = PUSH => elt'[t] \in Elts
      BY <1>1 DEF Placed, request
    <3>3. QED
      BY <1>3, <2>2, <3>1, <3>2 DEF Forgotten, KnowsPublic, PublicPlace, PublicNode, Placed, Loaded
  <2>9. \A u \in Threads \ {t} : Attaching(u) => side[u] \in heap'
    BY <2>1 DEF MemInv, InvOwn
  <2>10. \A e \in End : hint'[e].buf \in Public'
    BY <2>3 DEF MemInv, InvPublic
  <2>11. QED
    BY <1>1, <2>2, <2>3, <2>4, <2>6, <2>7, <2>8, <2>9, <2>10, Assembled
<1>6. QED
  BY <1>4, <1>5

LEMMA CasPlaces ==
  ASSUME MemInv, NEW t \in Threads, pc[t] \in {"cas1", "cas2"}
  PROVE  /\ k[t] \in Place /\ k[t].buf \in Public
         /\ In(end[t], k[t]) \in Place /\ In(end[t], k[t]).buf \in Public
         /\ Straddles(t) => PeekPlace(t) \in Place /\ PeekPlace(t).buf \in Public
<1>1. TypeOK /\ Placed(t) /\ KnowsPublic(t) /\ end[t] \in End
  BY Knowledge
<1>2. k[t] \in Place /\ k[t].buf \in Public
  BY <1>1, NowherePlace DEF Placed, KnowsPublic, PublicPlace
<1>3. Straddles(t) => side[t] \in Public /\ side[t] \in Buffers
  BY <1>1, StraddlesOrAttaches DEF Placed, KnowsPublic
<1>4. QED
  BY <1>1, <1>2, <1>3, PlaceType, SlotType DEF PeekPlace, Place

LEMMA Cas1Mem ==
  ASSUME MemInv, NEW t \in Threads, Body(t), Cas1(t)
  PROVE  MemInv'
<1>1. /\ KnowsPublic(t) /\ pc[t] = "cas1"
      /\ inner[t] \in Node /\ outer[t] \in Node /\ peek[t] \in Node
  BY Knowledge DEF Cas1
<1>2. ASSUME NEW p \in Place, p.buf \in Public, NEW n \in Node, PublicNode(n),
             Exchange(t, p, n, CopyNode(n), "cas2")
      PROVE  MemInv'
  <2>1. CopyNode(n) \in Node /\ CopyNode(n).value = n.value /\ CopyNode(n).count = n.count + 1
    BY NodeType DEF Node
  <2>2. CASE Unchanged(p, n)
    BY <1>1, <1>2, <2>1, <2>2, ExchangeHit DEF Exchange, PublicNode
  <2>3. CASE ~Unchanged(p, n)
    BY <1>1, <1>2, <2>3, ExchangeMiss DEF Exchange
  <2>4. QED
    BY <2>2, <2>3
<1>3. QED
  BY <1>1, <1>2, CasPlaces DEF Cas1, KnowsPublic

LEMMA Cas2Mem ==
  ASSUME MemInv, NEW t \in Threads, Body(t), Cas2(t)
  PROVE  MemInv'
<1>1. /\ TypeOK /\ Placed(t) /\ KnowsPublic(t) /\ pc[t] = "cas2" /\ end[t] \in End /\ op[t] \in Op
      /\ inner[t] \in Node /\ outer[t] \in Node /\ peek[t] \in Node
  BY Knowledge DEF Cas2
<1>2. ASSUME NEW p \in Place, p.buf \in Public, NEW n \in Node, NEW v \in Value,
             v \notin Buffers \/ (Attaching(t) /\ v = side[t]),
             Exchange(t, p, n, SetNode(v, n), "moveHint")
      PROVE  MemInv'
  <2>1. SetNode(v, n) \in Node /\ SetNode(v, n).value = v /\ SetNode(v, n).count = n.count + 1
    BY NodeType
  <2>2. CASE Unchanged(p, n)
    BY <1>1, <1>2, <2>1, <2>2, ExchangeHit DEF Exchange, PublicNode
  <2>3. CASE ~Unchanged(p, n)
    BY <1>1, <1>2, <2>3, ExchangeMiss DEF Exchange
  <2>4. QED
    BY <2>2, <2>3
<1>3. Own(end[t]) \in Value \ Buffers
  BY <1>1, OwnType
<1>4. op[t] # POP => elt[t] \in Value \ Buffers
  BY <1>1 DEF Placed, Op, Value
<1>5. Attaches(t) => Attaching(t) /\ side[t] \in Value
  BY <1>1 DEF Attaching, MemInv, InvOwn, TypeOK, Value
<1>6. QED
  BY <1>1, <1>2, <1>3, <1>4, <1>5, CasPlaces DEF Cas2

-----------------------------------------------------------------------------
(* Attaching a buffer, moving a hint, and clear_deque *)

LEMMA NewBufferNodes ==
  ASSUME NEW e \in End, NEW b \in Buffers, NEW v \in Elts, NEW i \in Slots
  PROVE  NewBuffer(e, b, v)[i].value \in {b} \cup (Value \ Buffers)
BY OwnType DEF NewBuffer, SetNode, Blank, Value

\* A new buffer is its thread's own.
LEMMA AttachMem ==
  ASSUME MemInv, NEW t \in Threads, Body(t), Attach(t)
  PROVE  MemInv'
<1>1. /\ TypeOK /\ Placed(t) /\ KnowsPublic(t) /\ Loaded(t) /\ Steady(t) /\ UNCHANGED request
      /\ pc[t] = "attach" /\ Attaches(t) /\ k[t] \in Place /\ ~Attaching(t) /\ end[t] \in End
  BY Knowledge, BodySteady, RequestType DEF Attach, Placed, Attaching
<1>2. PICK b \in Buffers \ heap :
        /\ heap' = heap \cup {b}
        /\ mem'  = [mem EXCEPT ![b] = NewBuffer(end[t], k[t].buf, elt[t])]
        /\ side' = [side EXCEPT ![t] = b]
  BY DEF Attach
<1>3. elt[t] \in Elts /\ k[t].buf \in Buffers /\ k[t].buf \in Public
  BY <1>1, NowherePlace DEF Placed, Attaches, Extends, KnowsPublic, PublicPlace, Place
<1>4. /\ pc' \in [Threads -> PC] /\ pc'[t] = "cas1" /\ side'[t] = b
      /\ UNCHANGED <<hint, size, k, at, inner, outer, saved, peek, ret>>
  BY <1>1, <1>2 DEF Attach, Goto, TypeOK, PC, found
<1>5. TypeOK'
  <2>1. NewBuffer(end[t], k[t].buf, elt[t]) \in [Slots -> Node]
    BY <1>1, <1>3, BufferType
  <2>2. mem' \in [Buffers -> [Slots -> Node]]
    BY <1>1, <1>2, <2>1 DEF TypeOK
  <2>3. side' \in [Threads -> Value \cup {NULL}]
    BY <1>1, <1>2 DEF TypeOK, Value
  <2>4. QED
    BY <1>1, <1>2, <1>4, <2>2, <2>3, RequestType DEF TypeOK
<1>6. Attaching(t)' /\ ~Straddles(t)'
  BY <1>1, <1>4 DEF Attaching, Attaches, Extends, Straddles, Crosses, AtEdge, request
<1>7. \A u \in Threads : Attaching(u) => side[u] \in heap
  BY DEF MemInv, InvOwn
<1>8. \A u \in Threads \ {t} : (Attaching(u)' <=> Attaching(u)) /\ side'[u] = side[u]
  BY <1>1, OthersSame DEF Steady
<1>9. Public' = Public
  BY <1>1, <1>2, <1>4, <1>6, <1>7, <1>8 DEF Public
<1>10. b \notin Public
  BY DEF Public
<1>11. \A c \in Buffers, i \in Slots : c # b => mem'[c][i] = mem[c][i]
  BY <1>1, <1>2 DEF TypeOK
<1>12. Grows
  BY <1>10, <1>11 DEF Grows, Older, NodeAt, Place
<1>13. \A c \in Buffers, i \in Slots : PublicNode(mem[c][i])'
  <2>1. \A i \in Slots : mem'[b][i].value \in {k[t].buf} \cup (Value \ Buffers)
    BY <1>1, <1>2, <1>3, NewBufferNodes DEF TypeOK
  <2>2. QED
    BY <1>3, <1>9, <1>11, <2>1 DEF MemInv, InvPublic, PublicNode
<1>14. KnowsPublic(t)'
  BY <1>1, <1>4, <1>6, <1>9 DEF KnowsPublic, PublicPlace, PublicNode
<1>15. Placed(t)'
  BY <1>1, <1>4, <1>6 DEF Placed, request
<1>16. Loaded(t)'
  <2>1. /\ In(end[t], k[t]) \in Place /\ In(end[t], k[t]).buf = k[t].buf
    BY <1>1, PlaceType
  <2>2. /\ mem'[In(end[t], k[t]).buf][In(end[t], k[t]).idx] = NodeAt(In(end[t], k[t]))
        /\ mem'[k[t].buf][k[t].idx] = NodeAt(k[t])
    BY <1>1, <1>3, <1>10, <1>11, <2>1 DEF NodeAt, Place
  <2>3. end'[t] = end[t]
    BY <1>1 DEF request
  <2>4. QED
    BY <1>1, <1>4, <1>6, <2>2, <2>3 DEF Loaded, NodeAt
<1>17. /\ \A e \in End : hint'[e].buf \in Public'
       /\ \A u \in Threads \ {t} : Attaching(u) => side[u] \in heap' /\ side[u] # side'[t]
       /\ side'[t] \in heap'
  BY <1>2, <1>4, <1>7, <1>9 DEF MemInv, InvPublic
<1>18. QED
  BY <1>1, <1>5, <1>9, <1>12, <1>13, <1>14, <1>15, <1>16, <1>17, Assembled

\* The new hint lies in a buffer that is public by now.
LEMMA MoveHintMem ==
  ASSUME MemInv, NEW t \in Threads, Body(t), MoveHint(t)
  PROVE  MemInv'
<1>1. /\ TypeOK /\ Placed(t) /\ KnowsPublic(t) /\ Steady(t) /\ UNCHANGED request
      /\ pc[t] = "moveHint" /\ k[t] \in Place /\ ~Attaching(t) /\ end[t] \in End /\ op[t] \in Op
  BY Knowledge, BodySteady, RequestType DEF MoveHint, Placed, Attaching
<1>2. k[t].buf \in Public
  BY <1>1, NowherePlace DEF KnowsPublic, PublicPlace
<1>3. NewHint(t) \in Place /\ NewHint(t).buf \in Public
  <2>1. In(end[t], k[t]) \in Place /\ In(end[t], k[t]).buf \in Public
    BY <1>1, <1>2, PlaceType
  <2>2. Out(end[t], k[t]) \in Place /\ Out(end[t], k[t]).buf \in Public
    BY <1>1, <1>2, PlaceType
  <2>3. ASSUME op[t] = PUSH, AtEdge(t)
        PROVE  /\ Out(end[t], PeekPlace(t)) \in Place
               /\ Out(end[t], PeekPlace(t)).buf \in Public
    <3>1. side[t] \in Buffers /\ side[t] \in Public
      BY <1>1, <2>3 DEF Placed, KnowsPublic
    <3>2. PeekPlace(t) \in Place /\ PeekPlace(t).buf \in Public
      BY <1>1, <3>1, SlotType DEF PeekPlace, Place
    <3>3. QED
      BY <1>1, <3>2, PlaceType
  <2>4. QED
    BY <1>1, <2>1, <2>2, <2>3 DEF NewHint, Op
<1>4. /\ pc' \in [Threads -> PC] /\ pc'[t] = "resize"
      /\ UNCHANGED <<mem, heap, size, k, at, inner, outer, saved, side, peek, ret>>
  BY <1>1 DEF MoveHint, Goto, TypeOK, PC, store, found, extra
<1>5. hint' \in [End -> Place] /\ \A e \in End : hint'[e].buf \in Public
  BY <1>1, <1>3 DEF MoveHint, TypeOK, MemInv, InvPublic
<1>6. TypeOK'
  BY <1>1, <1>4, <1>5, RequestType DEF TypeOK
<1>7. ~Attaching(t)' /\ Loaded(t)' /\ Placed(t)'
  BY <1>1, <1>4 DEF Attaching, Loaded, Placed, request
<1>8. Public' = Public
  BY <1>1, <1>4, <1>7, OthersSame DEF Public, Steady
<1>9. Grows
  BY <1>4 DEF Grows, Older, NodeAt
<1>10. KnowsPublic(t)'
  BY <1>1, <1>4, <1>7, <1>8 DEF KnowsPublic, PublicPlace, PublicNode
<1>11. /\ \A b \in Buffers, i \in Slots : PublicNode(mem[b][i])'
       /\ \A u \in Threads \ {t} : Attaching(u) => side[u] \in heap'
  BY <1>4, <1>8 DEF MemInv, InvPublic, InvOwn, PublicNode
<1>12. QED
  BY <1>1, <1>5, <1>6, <1>7, <1>8, <1>9, <1>10, <1>11, Assembled

\* clear_deque frees other buffers than the one it keeps, and runs alone.
LEMMA ClearMem ==
  ASSUME MemInv, Clear
  PROVE  MemInv'
<1> DEFINE kept == hint[LEFT].buf
<1>1. TypeOK /\ \A t \in Threads : pc[t] = "idle" /\ Forgotten(t)
  BY DEF MemInv, InvPlaced, Placed, Clear
<1>2. kept \in Buffers /\ kept \in heap
  BY <1>1, LEFT \in End DEF MemInv, InvPublic, Public, TypeOK, Place, End
<1>3. PICK freed \in SUBSET (Buffers \ {kept}), gone \in SUBSET Buffers :
        heap' = heap \ freed /\ lost' = lost \cup gone
  <2> DEFINE freed == IF {} \in {Beyond(kept, e) : e \in End} THEN {} ELSE Beyond(kept, LEFT)
  <2> DEFINE gone == (UNION {Beyond(kept, e) : e \in End}) \ freed
  <2>1. freed \in SUBSET (Buffers \ {kept}) /\ gone \in SUBSET Buffers
    BY DEF Beyond, Reached
  <2>2. heap' = heap \ freed /\ lost' = lost \cup gone
    BY DEF Clear
  <2>3. QED
    BY <2>1, <2>2
<1>4. /\ mem' = [b \in Buffers |-> Split] /\ hint' = Middle(kept) /\ size' = 0
      /\ UNCHANGED <<pc, request, found, at, extra, ret, calls>>
  BY DEF Clear
<1>5. TypeOK'
  <2>1. mem' \in [Buffers -> [Slots -> Node]]
    BY <1>4, SplitNodes, 0 \in Slots DEF Slots, Split
  <2>2. hint' \in [End -> Place]
    BY <1>2, <1>4, MiddleType
  <2>3. QED
    BY <1>1, <1>3, <1>4, <2>1, <2>2, ULONGAssumption DEF TypeOK, Word, request, found, extra
<1>6. \A t \in Threads : pc'[t] = "idle" /\ Forgotten(t)'
  BY <1>1, <1>4 DEF Forgotten, found, extra
<1>7. \A t \in Threads : ~Attaching(t)'
  BY <1>6 DEF Attaching
<1>8. Public' = heap'
  BY <1>7 DEF Public
<1>9. InvPublic'
  <2>1. \A e \in End : hint'[e].buf \in Public'
    BY <1>2, <1>3, <1>4, <1>8, MiddleType
  <2>2. \A b \in Buffers, i \in Slots : PublicNode(mem[b][i])'
    BY <1>4, SplitNodes DEF PublicNode
  <2>3. \A t \in Threads : KnowsPublic(t)'
    BY <1>6, OwnType, LEFT \in End DEF Forgotten, KnowsPublic, PublicPlace, PublicNode, End
  <2>4. QED
    BY <2>1, <2>2, <2>3 DEF InvPublic
<1>10. InvOwn' /\ InvPlaced' /\ LoadedOlder'
  BY <1>6, <1>7 DEF InvOwn, InvPlaced, Placed, LoadedOlder, Loaded
<1>11. QED
  BY <1>5, <1>9, <1>10 DEF MemInv

-----------------------------------------------------------------------------
(* The theorems *)

LEMMA BodyMem ==
  ASSUME MemInv, NEW t \in Threads, Body(t)
  PROVE  MemInv'
BY SaveHintMem, LoadInnerMem, LoadOuterMem, RecheckMem, AttachMem, ReloadMem, PeekMem,
   Cas1Mem, Cas2Mem, MoveHintMem, ResizeMem DEF Body

LEMMA StutterMem == MemInv /\ UNCHANGED vars => MemInv'
<1> SUFFICES ASSUME MemInv, UNCHANGED vars PROVE MemInv'
  OBVIOUS
<1> USE DEF vars, shared, store, request, found, extra
<1>1. TypeOK'
  BY DEF MemInv, TypeOK
<1>2. \A t \in Threads : /\ Attaching(t)' <=> Attaching(t)
                         /\ Straddles(t)' <=> Straddles(t)
                         /\ Attaches(t)' <=> Attaches(t)
                         /\ AtEdge(t)' <=> AtEdge(t)
  BY DEF Attaching, Attaches, Extends, Straddles, Crosses, AtEdge
<1>3. Public' = Public
  BY <1>2 DEF Public
<1>4. InvPublic'
  BY <1>2, <1>3 DEF MemInv, InvPublic, KnowsPublic, PublicPlace, PublicNode
<1>5. InvOwn' /\ InvPlaced'
  BY <1>2 DEF MemInv, InvOwn, InvPlaced, Placed, Forgotten
<1>6. LoadedOlder'
  BY <1>2 DEF MemInv, LoadedOlder, Loaded, NodeAt, PeekPlace
<1>7. QED
  BY <1>1, <1>4, <1>5, <1>6 DEF MemInv

\* Whatever operations run, every pointer in the hints, in the buffers and in
\* the threads' locals leads to an allocated buffer that all may know, a
\* thread's own new buffer is known to no other, and what it has loaded is
\* the present content of a node or an older version.
THEOREM MemInvariance == Spec => []MemInv
<1>1. MemInv /\ [Next]_vars => MemInv'
  BY CallMem, OracleMem, BodyMem, ClearMem, StutterMem
     DEF Next, Step, LeftOracle, RightOracle, LeftPush, LeftPop, RightPush, RightPop
<1>2. QED
  BY <1>1, InitMemInv, PTL DEF Spec

\* Every variable keeps its type: an index stays inside its buffer when a
\* place moves across the edge, and only addresses of buffers are followed.
THEOREM UnboundedTypes == Spec => []TypeOK
<1>1. MemInv => TypeOK
  BY DEF MemInv
<1>2. QED
  BY <1>1, MemInvariance, PTL

\* No operation comes to work on a buffer that a failed attachment or
\* clear_deque has freed.
THEOREM UnboundedNoUseAfterFree == Spec => []NoUseAfterFree
<1>1. ASSUME MemInv PROVE NoUseAfterFree
  <2>1. \A e \in End : hint[e].buf \in heap
    BY <1>1 DEF MemInv, InvPublic, Public
  <2>2. ASSUME NEW t \in Threads, NEW p \in Places(t) PROVE p = Nowhere \/ p.buf \in heap
    <3>1. CASE p \in {k[t], at[t], saved[t]}
      BY <1>1, <3>1 DEF MemInv, InvPublic, KnowsPublic, PublicPlace, Public
    <3>2. CASE side[t] \in Buffers /\ p = PeekPlace(t)
      BY <1>1, <3>2 DEF MemInv, InvPublic, KnowsPublic, Public, InvOwn, PeekPlace
    <3>3. QED
      BY <2>2, <3>1, <3>2 DEF Places
  <2>3. QED
    BY <2>1, <2>2 DEF NoUseAfterFree
<1>2. QED
  BY <1>1, MemInvariance, PTL

\* The versions do what they are there for: an exchange that finds a node as
\* it was loaded has missed no change of it, in the deque's buffers as in
\* those that others attach, free and allocate again.
THEOREM LoadsStayOld == Spec => []LoadedOlder
<1>1. MemInv => LoadedOlder
  BY DEF MemInv
<1>2. QED
  BY <1>1, MemInvariance, PTL
=============================================================================
